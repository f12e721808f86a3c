--------------------------- MODULE TokenizerProofs ---------------------------
(***************************************************************************)
(* Theorems about Tokenize, for every text, every dictionary, every list of *)
(* providers, every matrix and every map to the original. Of the way to the *)
(* best path: the lattice is typed, extended only behind the loop and       *)
(* accounts for its costs, its candidates are those the rules allow, the    *)
(* path prefers words of the dictionary, and where costs fit no sequence of *)
(* candidates is cheaper. Of the way from there to the morphemes: the units *)
(* tile the text and are as long as their words, the surfaces cover the     *)
(* original, and joined words stay whole.                                   *)
(*                                                                         *)
(* The first half rests on one invariant, IInv: what waits to be inserted   *)
(* is of the position, every entry is what inserting its node now would     *)
(* make of it, the words of the dictionary are first, and the word of       *)
(* Simple is last; its last theorem adds what follows of totals that do not *)
(* wrap around. The second half rests on MorphemesInv.                      *)
(***************************************************************************)
EXTENDS Tokenizer, Morphemes, AnalysisTextProofs

-----------------------------------------------------------------------------
(* The built text                                                           *)

\* Where a word may begin, a character does.
LEMMA BOWIsOffset ==
    ASSUME TextInv, Built, NEW b \in 0 .. ByteLen, b < ByteLen => CanBOW(b)
    PROVE  ByteOffset(CharIndex(b)) = b
<1>1. CASE b = ByteLen
  BY <1>1, OffsetsAscend
<1>2. CASE b < ByteLen
  <2>1. b \in 0 .. ByteLen - 1
    BY <1>2, OffsetsAscend
  <2> QED BY <2>1, <1>2, StartsFollow DEF BOWMatchesText
<1> QED BY <1>1, <1>2, OffsetsAscend

LEMMA RunInText ==
    ASSUME TextInv, Built, NEW i \in 0 .. CharLen - 1
    PROVE  /\ CategoryRun(i) \in 1 .. CharLen - i
           /\ WordCandidateLength(i) \in 1 .. CharLen - i
<1>1. CharLen \in Nat /\ ByteLen \in Nat
  BY OffsetsAscend
<1>2. CategoryRun(i) \in Nat /\ CategoryRun(i) >= 1 /\ i + CategoryRun(i) <= CharLen
  <2>1. catRun \in Seq(Nat) /\ i + 1 \in 1 .. Len(catRun)
    BY <1>1 DEF TextInv, Indexed, TextTypes, Scanned, Built, CharLen
  <2> QED BY <2>1, RunsFollow, ElementOfSeq DEF CatRunSound, CategoryRun
\* The next place where a word may begin is the nearest of them.
<1>3. \E k \in 1 .. CharLen - i :
          /\ i + k = CharLen \/ bow[ByteOffset(i + k) + 1]
          /\ \A m \in 1 .. k - 1 : ~bow[ByteOffset(i + m) + 1]
  <2> DEFINE S == {k \in 1 .. CharLen - i : i + k = CharLen \/ bow[ByteOffset(i + k) + 1]}
  <2>1. CharLen - i \in S /\ S \in SUBSET Nat
    BY <1>1
  <2>2. PICK k \in S : \A l \in S : k <= l
    <3> HIDE DEF S
    <3> QED BY <2>1, Least
  <2>3. k \in 1 .. CharLen - i /\ (i + k = CharLen \/ bow[ByteOffset(i + k) + 1])
    OBVIOUS
  <2>4. ASSUME NEW m \in 1 .. k - 1 PROVE ~bow[ByteOffset(i + m) + 1]
    <3>1. m \in 1 .. CharLen - i /\ m \notin S
      BY <2>2, <2>3, <1>1
    <3> QED BY <3>1
  <2> QED BY <2>3, <2>4
<1>4. WordCandidateLength(i) \in 1 .. CharLen - i
  BY <1>3, Zenon DEF WordCandidateLength
<1> QED BY <1>1, <1>2, <1>4

-----------------------------------------------------------------------------
(* The unknown-word providers                                               *)

\* What a provider may propose at a position.
OovsAt(p) == {n \in Node : n.oov /\ n.begin = p /\ n.end \in p + 1 .. CharLen}

\* A word of unk.def.
OfUnkDef(n) ==
    \E c \in DOMAIN Candidates : \E k \in DOMAIN Candidates[c] :
        n = OovNode(n.begin, n.end, Candidates[c][k])

LEMMA OovNodeIs ==
    ASSUME NEW b \in Nat, NEW e \in b + 1 .. CharLen, NEW p \in Param, CharLen \in Nat
    PROVE  OovNode(b, e, p) \in OovsAt(b)
BY DEF OovNode, OovsAt, Node, Param

LEMMA LengthsInRun ==
    ASSUME NEW cat \in DOMAIN CategoryInfo, NEW run \in Nat \ {0}
    PROVE  Lengths(cat, run) \in Seq(1 .. run)
<1> DEFINE info == CategoryInfo[cat]
           limit == IF info.group THEN run - 1 ELSE run
           m == Min2(info.length, limit)
           short == [l \in 1 .. m |-> l]
<1>1. info.group \in BOOLEAN /\ info.length \in Int
  BY TokenizerAssumption
<1> HIDE DEF info
<1>2. m \in Int /\ m <= limit /\ limit \in Nat /\ limit <= run
  BY <1>1 DEF Min2
<1>3. short \in Seq(1 .. run)
  <2>1. PICK k \in Nat : 1 .. m = 1 .. k
    <3>1. m \in Nat \/ 1 .. m = 1 .. 0
      BY <1>2
    <3> QED BY <3>1
  <2> HIDE DEF m
  <2>2. \A l \in 1 .. m : l \in 1 .. run
    BY <1>2
  <2>3. short \in [1 .. k -> 1 .. run]
    BY <2>1, <2>2
  <2> HIDE DEF short
  <2> QED BY <2>3
<1> HIDE DEF m, short
<1>4. <<run>> \in Seq(1 .. run)
  OBVIOUS
<1>5. <<run>> \o short \in Seq(1 .. run)
  BY <1>3, <1>4, ConcatProperties
<1>6. Lengths(cat, run) = IF info.group THEN <<run>> \o short ELSE short
  BY DEF Lengths, info, short, m
<1> QED BY <1>3, <1>5, <1>6

LEMMA NodesOfAre ==
    ASSUME NEW cat \in DOMAIN Candidates, NEW b \in Nat, NEW run \in Nat, CharLen \in Nat,
           b + run <= CharLen, NEW lengths \in Seq(1 .. run)
    PROVE  NodesOf(cat, b, lengths) \in Seq({n \in OovsAt(b) : OfUnkDef(n)})
<1> DEFINE cands == Candidates[cat]
           n == Len(cands)
           m == Len(lengths)
<1>1. cands \in Seq(Param) /\ n \in Nat /\ m \in Nat
  BY TokenizerAssumption, LenProperties
<1>2. ASSUME NEW k \in 1 .. n * m
      PROVE  OovNode(b, b + lengths[((k - 1) \div n) + 1], cands[((k - 1) % n) + 1])
                 \in {x \in OovsAt(b) : OfUnkDef(x)}
  <2> HIDE DEF n, m
  <2>1. n \in Nat \ {0}
    BY <1>1
  <2>2. ((k - 1) \div n) + 1 \in 1 .. m /\ ((k - 1) % n) + 1 \in 1 .. n
    BY <2>1, <1>1
  <2> DEFINE l == lengths[((k - 1) \div n) + 1]
             i == ((k - 1) % n) + 1
  <2>3. l \in 1 .. run /\ i \in DOMAIN cands /\ cands[i] \in Param
    BY <2>2, <1>1, ElementOfSeq DEF n, m
  <2> HIDE DEF l, i, cands
  <2>4. b + l \in b + 1 .. CharLen
    BY <2>3
  <2>5. OovNode(b, b + l, cands[i]) \in OovsAt(b)
    BY <2>3, <2>4, OovNodeIs
  <2>6. OfUnkDef(OovNode(b, b + l, cands[i]))
    BY <2>3 DEF OfUnkDef, OovNode, cands
  <2> QED BY <2>5, <2>6 DEF l, i
<1> DEFINE T == {x \in OovsAt(b) : OfUnkDef(x)}
           size == n * m
           f(k) == OovNode(b, b + lengths[((k - 1) \div n) + 1], cands[((k - 1) % n) + 1])
<1>3. size \in Nat
  BY <1>1
<1>4. NodesOf(cat, b, lengths) = [k \in 1 .. size |-> f(k)]
  BY DEF NodesOf
<1>5. \A k \in 1 .. size : f(k) \in T
  BY <1>2
<1> HIDE DEF T, n, m, cands, size, f
<1>6. [k \in 1 .. size |-> f(k)] \in [1 .. size -> T]
  BY <1>5
<1>7. [k \in 1 .. size |-> f(k)] \in Seq(T)
  BY <1>3, <1>6
<1> QED BY <1>4, <1>7 DEF T

\* What MeCab proposes begins at the position, ends behind it in the text, and is
\* of unk.def.
LEMMA MeCabProposes ==
    ASSUME TextInv, Built, NEW p \in 0 .. CharLen - 1, NEW cs
    PROVE  MeCab(p, cs) \in Seq({n \in OovsAt(p) : OfUnkDef(n)})
<1> DEFINE T == {n \in OovsAt(p) : OfUnkDef(n)}
           nodesOf(cat) == IF cat \in Category(p) /\ Proposes(cat, cs)
                           THEN NodesOf(cat, p, Lengths(cat, CategoryRun(p)))
                           ELSE <<>>
           seqs == [k \in DOMAIN FlagOrder |-> nodesOf(FlagOrder[k])]
<1>1. CharLen \in Nat /\ p \in Nat
  BY OffsetsAscend
<1>2. CategoryRun(p) \in Nat \ {0} /\ p + CategoryRun(p) <= CharLen
  BY <1>1, RunInText
<1>3. ASSUME NEW cat PROVE nodesOf(cat) \in Seq(T)
  <2>1. CASE cat \in Category(p) /\ Proposes(cat, cs)
    <3>1. cat \in DOMAIN CategoryInfo /\ cat \in DOMAIN Candidates
      BY <2>1 DEF Proposes
    <3>2. Lengths(cat, CategoryRun(p)) \in Seq(1 .. CategoryRun(p))
      BY <3>1, <1>2, LengthsInRun
    <3>3. NodesOf(cat, p, Lengths(cat, CategoryRun(p))) \in Seq(T)
      BY <3>1, <3>2, <1>1, <1>2, NodesOfAre
    <3> QED BY <3>3, <2>1
  <2>2. CASE ~(cat \in Category(p) /\ Proposes(cat, cs))
    <3>1. <<>> \in Seq(T)
      OBVIOUS
    <3> QED BY <3>1, <2>2
  <2> QED BY <2>1, <2>2
<1>4. FlagOrder \in Seq(Categories)
  BY TokenizerAssumption
<1> HIDE DEF T, nodesOf
<1>5. seqs \in Seq(Seq(T))
  <2>1. PICK n \in Nat : DOMAIN FlagOrder = 1 .. n
    BY <1>4
  <2>2. seqs \in [1 .. n -> Seq(T)]
    BY <2>1, <1>3
  <2> QED BY <2>2
<1> HIDE DEF seqs
<1>6. FlattenSeq(seqs) \in Seq(T)
  <2>1. Len(seqs) \in Nat
    BY <1>5, LenProperties
  <2> QED BY <2>1, <1>5, FlattenElements
<1>7. MeCab(p, cs) = FlattenSeq(seqs)
  BY DEF MeCab, seqs, nodesOf
<1> QED BY <1>6, <1>7 DEF T

\* Simple proposes one word where there is none, and no other.
LEMMA SimpleProposes ==
    ASSUME TextInv, Built, NEW p \in 0 .. CharLen - 1, NEW cs
    PROVE  /\ Simple(p, cs) \in Seq(OovsAt(p))
           /\ Simple(p, cs) # <<>> => Len(Simple(p, cs)) = 1 /\ cs = {}
<1>1. CharLen \in Nat /\ p \in Nat /\ WordCandidateLength(p) \in 1 .. CharLen - p
  BY OffsetsAscend, RunInText
<1>2. p + WordCandidateLength(p) \in p + 1 .. CharLen /\ SimpleParam \in Param
  BY <1>1, TokenizerAssumption
<1>3. OovNode(p, p + WordCandidateLength(p), SimpleParam) \in OovsAt(p)
  BY <1>1, <1>2, OovNodeIs
<1> QED BY <1>3 DEF Simple

-----------------------------------------------------------------------------
(* The lattice                                                              *)

LEMMA CostIsInt ==
    ASSUME conn \in Matrices, NEW es \in Seq(Entry), NEW i \in DOMAIN es,
           NEW l \in ContextIds, NEW c \in Int
    PROVE  CostAfter(es, i, l, c) \in Int /\ CostAfter(es, i, l, c) >= -(MaxCost + 1)
<1>1. es[i] \in Entry
  BY ElementOfSeq
<1>2. es[i].total \in Int /\ es[i].node.right \in ContextIds
  BY <1>1 DEF Entry, Node
<1>3. conn[<<es[i].node.right, l>>] \in Int
  <2>1. /\ conn \in [ContextIds \X ContextIds -> Int]
        /\ <<es[i].node.right, l>> \in ContextIds \X ContextIds
    BY <1>2, TokenizerAssumption
  <2> QED BY <2>1
<1> DEFINE x == es[i].total + conn[<<es[i].node.right, l>>] + c + MaxCost + 1
           m == 2 * (MaxCost + 1)
<1>4. MaxCost \in Nat
  BY LatticeAssumption
<1>5. x \in Int /\ m \in Nat \ {0}
  <2> DEFINE a == es[i].total
             b == conn[<<es[i].node.right, l>>]
  <2>1. a \in Int /\ b \in Int /\ x = a + b + c + MaxCost + 1
    BY <1>2, <1>3
  <2> HIDE DEF a, b
  <2> QED BY <2>1, <1>4
<1>6. CostAfter(es, i, l, c) = (x % m) - (MaxCost + 1)
  BY DEF CostAfter, Wrap
<1> HIDE DEF x, m
<1>7. x % m \in Int /\ x % m >= 0
  BY <1>5
<1> QED BY <1>4, <1>6, <1>7

\* connect's loop has a first cheapest entry if it has a usable one.
LEMMA CheapestIs ==
    ASSUME conn \in Matrices, NEW es \in Seq(Entry), NEW l \in ContextIds, NEW c \in Int,
           Usable(es, l, c) # {}
    PROVE  /\ Cheapest(es, l, c) \in Usable(es, l, c)
           /\ \A j \in Usable(es, l, c) :
                 \/ CostAfter(es, Cheapest(es, l, c), l, c) < CostAfter(es, j, l, c)
                 \/ /\ CostAfter(es, Cheapest(es, l, c), l, c) = CostAfter(es, j, l, c)
                    /\ Cheapest(es, l, c) <= j
<1> DEFINE U == Usable(es, l, c)
           Cost(i) == CostAfter(es, i, l, c)
           V == {Cost(i) + MaxCost + 1 : i \in U}
<1>1. U \subseteq DOMAIN es /\ DOMAIN es \subseteq Nat /\ MaxCost \in Nat
  BY LatticeAssumption DEF Usable
<1>2. \A i \in U : Cost(i) \in Int /\ Cost(i) >= -(MaxCost + 1)
  BY <1>1, CostIsInt
<1> HIDE DEF U, Cost
<1>3. PICK v \in V : \A w \in V : v <= w
  <2>1. V \in SUBSET Nat /\ V # {}
    BY <1>1, <1>2 DEF U
  <2> HIDE DEF V
  <2> QED BY <2>1, Least
<1> DEFINE T == {i \in U : Cost(i) + MaxCost + 1 = v}
<1>4. PICK i \in T : \A j \in T : i <= j
  <2>1. T \in SUBSET Nat /\ T # {}
    BY <1>1, <1>3
  <2> HIDE DEF T
  <2> QED BY <2>1, Least
<1>5. i \in U /\ Cost(i) + MaxCost + 1 = v
  BY <1>4
<1>6. ASSUME NEW j \in U PROVE Cost(i) < Cost(j) \/ (Cost(i) = Cost(j) /\ i <= j)
  <2>1. Cost(i) + MaxCost + 1 <= Cost(j) + MaxCost + 1
    BY <1>3, <1>5
  <2>2. Cost(i) <= Cost(j)
    BY <2>1, <1>1, <1>2, <1>5
  <2>3. ASSUME Cost(i) = Cost(j) PROVE i <= j
    BY <2>3, <1>4, <1>5
  <2> QED BY <2>2, <2>3, <1>2, <1>5
<1>7. \E k \in U : \A j \in U : Cost(k) < Cost(j) \/ (Cost(k) = Cost(j) /\ k <= j)
  BY <1>5, <1>6
<1>8. Cheapest(es, l, c) =
          CHOOSE k \in U : \A j \in U : Cost(k) < Cost(j) \/ (Cost(k) = Cost(j) /\ k <= j)
  BY DEF Cheapest, U, Cost
<1>9. /\ Cheapest(es, l, c) \in U
      /\ \A j \in U : \/ Cost(Cheapest(es, l, c)) < Cost(j)
                      \/ Cost(Cheapest(es, l, c)) = Cost(j) /\ Cheapest(es, l, c) <= j
  BY <1>7, <1>8
<1> QED BY <1>9 DEF U, Cost

\* What a connection is of.
Connected(es, l, c, total, p) ==
    /\ total \in Int /\ p \in Nat
    /\ total # Unreachable => /\ Usable(es, l, c) # {} /\ p = Cheapest(es, l, c)
                              /\ p \in DOMAIN es /\ es[p].total # Unreachable
                              /\ total = CostAfter(es, p, l, c)

LEMMA ConnectIs ==
    ASSUME conn \in Matrices, NEW es \in Seq(Entry), NEW l \in ContextIds, NEW c \in Int
    PROVE  Connected(es, l, c, Connect(es, l, c).total, Connect(es, l, c).prev)
<1>1. CASE Usable(es, l, c) = {}
  <2>1. Unreachable \in Int
    BY LatticeAssumption DEF Unreachable
  <2> QED BY <1>1, <2>1 DEF Connect, Connected
<1>2. CASE Usable(es, l, c) # {}
  <2> DEFINE i == Cheapest(es, l, c)
  <2>1. i \in Usable(es, l, c)
    BY <1>2, CheapestIs
  <2>2. i \in DOMAIN es /\ i \in Nat /\ es[i].total # Unreachable
    BY <2>1 DEF Usable
  <2>3. CostAfter(es, i, l, c) \in Int
    BY <2>2, CostIsInt
  <2>4. Connect(es, l, c) = [total |-> CostAfter(es, i, l, c), prev |-> i]
    BY <1>2 DEF Connect
  <2> HIDE DEF i
  <2>5. Connect(es, l, c).total = CostAfter(es, i, l, c) /\ Connect(es, l, c).prev = i
    BY <2>4
  <2> QED BY <1>2, <2>2, <2>3, <2>5 DEF Connected, i
<1> QED BY <1>1, <1>2

\* A connection depends on the entries and the matrix alone, which never changes.
LEMMA ConnectKept ==
    ASSUME conn' = conn
    PROVE  \A es, l, c : Connect(es, l, c)' = Connect(es, l, c)
BY DEF Connect, Usable, Cheapest, CostAfter

\* The list of each position, and BOS.
LatticeOK ==
    /\ CharLen \in Nat /\ conn \in Matrices
    /\ ends \in [0 .. CharLen -> Seq(Entry)] /\ ends[0] = <<BOS>>

LEMMA EntryForIs ==
    ASSUME LatticeOK, NEW n \in Node, n.begin \in 0 .. CharLen
    PROVE  /\ EntryFor(n) \in Entry /\ EntryFor(n).node = n
           /\ Connected(ends[n.begin], n.left, n.cost, EntryFor(n).total, EntryFor(n).prev)
<1>1. ends[n.begin] \in Seq(Entry) /\ n.left \in ContextIds /\ n.cost \in Int
  BY DEF LatticeOK, Node
<1> DEFINE k == Connect(ends[n.begin], n.left, n.cost)
<1>2. Connected(ends[n.begin], n.left, n.cost, k.total, k.prev)
  BY <1>1, ConnectIs DEF LatticeOK
<1>3. k.total \in Int /\ k.prev \in Nat
  BY <1>2 DEF Connected
<1>4. EntryFor(n) = [node |-> n, total |-> k.total, prev |-> k.prev]
  BY DEF EntryFor
<1> HIDE DEF k
<1>5. EntryFor(n).node = n /\ EntryFor(n).total = k.total /\ EntryFor(n).prev = k.prev
  BY <1>4
<1>6. EntryFor(n) \in Entry
  BY <1>3, <1>4 DEF Entry
<1> QED BY <1>2, <1>5, <1>6

LEMMA InsertedIs ==
    ASSUME ends \in [0 .. CharLen -> Seq(Entry)], CharLen \in Nat
    PROVE  \A n : n \in Inserted <=>
               \E p \in 1 .. CharLen : \E i \in DOMAIN ends[p] : n = ends[p][i].node
<1>1. DOMAIN ends \ {0} = 1 .. CharLen
  OBVIOUS
<1> DEFINE of(p) == {ends[p][i].node : i \in DOMAIN ends[p]}
<1>2. Inserted = UNION {of(p) : p \in 1 .. CharLen}
  BY <1>1 DEF Inserted
<1> QED BY <1>2

\* Insert adds one entry, behind the others of its position.
LEMMA InsertAdds ==
    ASSUME LatticeOK, NEW n \in Node, n.end \in 1 .. CharLen, n.begin \in 0 .. n.end - 1,
           Insert(n), UNCHANGED <<chars, conn>>
    PROVE  /\ LatticeOK' /\ CharLen' = CharLen
           /\ \A p \in 0 .. CharLen : p # n.end => ends'[p] = ends[p]
           /\ Len(ends[n.end]) \in Nat
           /\ ends'[n.end] \in Seq(Entry) /\ Len(ends'[n.end]) = Len(ends[n.end]) + 1
           /\ \A i \in 1 .. Len(ends[n.end]) : ends'[n.end][i] = ends[n.end][i]
           /\ ends'[n.end][Len(ends[n.end]) + 1] = EntryFor(n)
           /\ Inserted' = Inserted \cup {n}
<1>1. CharLen \in Nat /\ ends \in [0 .. CharLen -> Seq(Entry)] /\ ends[0] = <<BOS>>
  BY DEF LatticeOK
<1>2. n.begin \in 0 .. CharLen /\ n.end \in 0 .. CharLen /\ n.end # 0
  BY <1>1
<1>3. EntryFor(n) \in Entry /\ EntryFor(n).node = n
  BY <1>2, EntryForIs
<1>4. ends' = [ends EXCEPT ![n.end] = Append(ends[n.end], EntryFor(n))]
  BY DEF Insert
<1> DEFINE es == ends[n.end]
           L == Len(es)
<1>5. es \in Seq(Entry) /\ L \in Nat
  BY <1>1, <1>2, LenProperties
<1>6. /\ Append(es, EntryFor(n)) \in Seq(Entry) /\ Len(Append(es, EntryFor(n))) = L + 1
      /\ \A i \in 1 .. L : Append(es, EntryFor(n))[i] = es[i]
      /\ Append(es, EntryFor(n))[L + 1] = EntryFor(n)
  BY <1>3, <1>5, AppendProperties
<1>7. /\ ends'[n.end] = Append(es, EntryFor(n))
      /\ \A p \in 0 .. CharLen : p # n.end => ends'[p] = ends[p]
  BY <1>1, <1>2, <1>4
<1>8. CharLen' = CharLen
  BY DEF CharLen
<1>9. ends' \in [0 .. CharLen -> Seq(Entry)]
  <2> DEFINE x == Append(es, EntryFor(n))
  <2>1. x \in Seq(Entry) /\ ends' = [ends EXCEPT ![n.end] = x]
    BY <1>4, <1>6
  <2> HIDE DEF x
  <2> QED BY <2>1, <1>1
<1>10. ends'[0] = <<BOS>>
  BY <1>1, <1>2, <1>7
<1>11. LatticeOK'
  <2>1. BOS' = BOS
    BY DEF BOS
  <2> QED BY <2>1, <1>1, <1>8, <1>9, <1>10 DEF LatticeOK
<1>12. ASSUME NEW m PROVE m \in Inserted' <=> m \in Inserted \cup {n}
  <2>1. m \in Inserted <=> \E p \in 1 .. CharLen : \E i \in DOMAIN ends[p] : m = ends[p][i].node
    BY <1>1, InsertedIs
  <2>2. m \in Inserted' <=> \E p \in 1 .. CharLen : \E i \in DOMAIN ends'[p] : m = ends'[p][i].node
    <3>1. DOMAIN ends' \ {0} = 1 .. CharLen
      BY <1>1, <1>9
    <3> QED BY <3>1 DEF Inserted
  <2>3. DOMAIN es = 1 .. L /\ DOMAIN ends'[n.end] = 1 .. L + 1
    BY <1>5, <1>6, <1>7
  <2>4. ASSUME NEW p \in 1 .. CharLen, NEW i \in DOMAIN ends[p], m = ends[p][i].node
        PROVE  i \in DOMAIN ends'[p] /\ ends'[p][i] = ends[p][i]
    <3>1. CASE p = n.end
      <4>1. i \in 1 .. L /\ i \in 1 .. L + 1
        BY <3>1, <2>3, <1>5
      <4> QED BY <4>1, <3>1, <2>3, <1>6, <1>7
    <3>2. CASE p # n.end
      BY <3>2, <1>7
    <3> QED BY <3>1, <3>2
  <2>5. ASSUME NEW p \in 1 .. CharLen, NEW i \in DOMAIN ends'[p], m = ends'[p][i].node
        PROVE  m = n \/ (i \in DOMAIN ends[p] /\ m = ends[p][i].node)
    <3>1. CASE p = n.end
      <4>1. i \in 1 .. L \/ i = L + 1
        BY <3>1, <2>3, <1>5
      <4> QED BY <4>1, <3>1, <2>3, <2>5, <1>3, <1>6, <1>7
    <3>2. CASE p # n.end
      BY <3>2, <2>5, <1>7
    <3> QED BY <3>1, <3>2
  <2>6. L + 1 \in DOMAIN ends'[n.end] /\ ends'[n.end][L + 1].node = n
    BY <2>3, <1>3, <1>5, <1>6, <1>7
  <2> QED BY <2>1, <2>2, <2>4, <2>5, <2>6
<1>13. Inserted' = Inserted \cup {n}
  BY <1>12
<1> HIDE DEF es, L
<1> QED BY <1>5, <1>6, <1>7, <1>8, <1>11, <1>13 DEF es, L

-----------------------------------------------------------------------------
(* The invariant                                                            *)

\* Where bestPath is inside its loop over the positions.
AtPosition == {"words", "provide", "insert", "fallback", "insertLast", "noWord"}

Control ==
    /\ TextInv /\ conn \in Matrices /\ providers \in ProviderLists
    /\ pc \in {"build", "visit", "walk", "done", "noPath"} \cup AtPosition
    /\ IF pc = "build" THEN ends = <<>> /\ pos = 0 ELSE Built
    /\ IF ends = <<>> THEN pc \in {"build", "done"} ELSE LatticeOK
    /\ pos \in 0 .. CharLen /\ (pc \in AtPosition => pos < CharLen)
    /\ created \subseteq 0 .. 63
    /\ provider \in 1 .. Len(providers) + 1 /\ (pc = "insert" => provider <= Len(providers))

\* What waits to be inserted is of the position.
Queues ==
    /\ IF pc = "words" THEN found \in Seq(Hits(ByteOffset(pos))) ELSE found = <<>>
    /\ IF pc \in {"insert", "insertLast"} THEN oovs \in Seq(OovsAt(pos)) ELSE oovs = <<>>

\* Every entry is what inserting its node now would make of it: what it was
\* connected to has not changed since.
Entries ==
    ends # <<>> => \A p \in 1 .. CharLen : \A i \in DOMAIN ends[p] :
        /\ ends[p][i].node.end = p /\ ends[p][i].node.begin < p
        /\ ends[p][i] = EntryFor(ends[p][i].node)

\* Of the words of a position those of the dictionary are first.
WordsFirst ==
    ends # <<>> => \A p \in 1 .. CharLen : \A i, j \in DOMAIN ends[p] :
        /\ i < j /\ ends[p][i].node.begin = ends[p][j].node.begin
        /\ ends[p][i].node.oov
        => ends[p][j].node.oov

\* What has been inserted so far, and where created stands for it.
Offered ==
    /\ \A n \in Inserted : n.begin <= pos /\ (pc = "visit" => n.begin < pos)
    /\ pc \in AtPosition => (created = {} <=> \A n \in Inserted : n.begin # pos)
    /\ pc = "words" => \A n \in Inserted : n.begin = pos => ~n.oov
    /\ pc = "insertLast" => \A n \in Inserted : n.begin = pos => n.oov
    /\ pc \in {"provide", "insert"} => ~Has(Category(pos), {NoOOVBOW, NoOOVBOW2})

\* A word of Simple comes alone and last.
SimpleLast ==
    /\ \A n \in Inserted : OfSimple(n) /\ n.begin = pos =>
          /\ oovs = <<>>
          /\ pc = "insert" => provider = Len(providers)
          /\ pc = "provide" => provider > Len(providers)
    /\ \A k \in DOMAIN oovs : OfSimple(oovs[k]) =>
          /\ Len(oovs) = 1 /\ created = {}
          /\ pc = "insert" => provider = Len(providers)

\* Left id and cost of what the entry at at was chosen for: the node after it, or
\* the end of the text.
After == IF path = <<>> THEN [left |-> 0, cost |-> 0]
         ELSE [left |-> path[1].left, cost |-> path[1].cost]

Chosen(p, i) ==
    /\ Usable(ends[p], After.left, After.cost) # {}
    /\ i = Cheapest(ends[p], After.left, After.cost)

Walked ==
    /\ path \in Seq(Node) /\ at \in [pos : 0 .. CharLen, idx : Nat]
    /\ pc \notin {"walk", "done"} => path = <<>>
    /\ pc = "walk" => ends # <<>> /\ Chosen(at.pos, at.idx)
    /\ \A k \in DOMAIN path : path[k].oov => [path[k] EXCEPT !.oov = FALSE] \notin Inserted

IInv == /\ Control /\ Queues /\ Entries /\ WordsFirst /\ Offered
        /\ CandidatesAllowed /\ SimpleLast /\ Walked

-----------------------------------------------------------------------------
(* What a step that leaves the text and the lattice alone keeps             *)

LEMMA NothingInserted ==
    ASSUME ends = <<>>
    PROVE  Inserted = {}
BY DEF Inserted

LEMMA TextKept ==
    ASSUME TextInv, UNCHANGED textVars
    PROVE  /\ TextInv' /\ CharLen' = CharLen /\ ByteLen' = ByteLen /\ (Built' <=> Built)
           /\ \A p : /\ ByteOffset(p)' = ByteOffset(p) /\ CharIndex(p)' = CharIndex(p)
                     /\ Category(p)' = Category(p) /\ OovsAt(p)' = OovsAt(p) /\ Hits(p)' = Hits(p)
<1>1. TextInv'
  BY TextInvStep
<1>2. chars' = chars /\ c2b' = c2b /\ b2c' = b2c /\ bow' = bow /\ stage' = stage
  BY DEF textVars
<1>3. CharLen' = CharLen /\ ByteLen' = ByteLen
  BY <1>2 DEF CharLen, ByteLen
<1>4. Built' <=> Built
  BY <1>2 DEF Built
<1>5. ASSUME NEW p
      PROVE  /\ ByteOffset(p)' = ByteOffset(p) /\ CharIndex(p)' = CharIndex(p)
             /\ Category(p)' = Category(p)
  BY <1>2 DEF ByteOffset, CharIndex, Category
<1>6. ASSUME NEW p PROVE OovsAt(p)' = OovsAt(p)
  BY <1>3 DEF OovsAt
<1>7. ASSUME NEW p PROVE Hits(p)' = Hits(p)
  BY <1>3, <1>5 DEF Hits
<1> QED BY <1>1, <1>3, <1>4, <1>5, <1>6, <1>7

LEMMA LatticeKept ==
    ASSUME UNCHANGED <<textVars, ends, conn>>
    PROVE  /\ LatticeOK => LatticeOK'
           /\ Inserted' = Inserted
           /\ \A n : EntryFor(n)' = EntryFor(n)
           /\ Entries => Entries'
           /\ WordsFirst => WordsFirst'
           /\ CandidatesAllowed => CandidatesAllowed'
<1>1. /\ ends' = ends /\ conn' = conn /\ CharLen' = CharLen
      /\ chars' = chars /\ c2b' = c2b /\ bow' = bow
  BY DEF textVars, CharLen
<1>2. LatticeOK => LatticeOK'
  BY <1>1 DEF LatticeOK, BOS
<1>3. Inserted' = Inserted
  BY <1>1 DEF Inserted
<1>4. ASSUME NEW n PROVE EntryFor(n)' = EntryFor(n)
  BY <1>1, ConnectKept DEF EntryFor
<1>5. Entries => Entries'
  BY <1>1, <1>4 DEF Entries
<1>6. WordsFirst => WordsFirst'
  BY <1>1 DEF WordsFirst
<1>7. CandidatesAllowed => CandidatesAllowed'
  <2>1. WordsEndWell => WordsEndWell'
    BY <1>1, <1>3 DEF WordsEndWell, ByteOffset
  <2>2. SimpleStandsAlone => SimpleStandsAlone'
    BY <1>3 DEF SimpleStandsAlone
  <2>3. NoOovInsideWords => NoOovInsideWords'
    BY <1>1, <1>3 DEF NoOovInsideWords, Category
  <2> QED BY <2>1, <2>2, <2>3 DEF CandidatesAllowed
<1> QED BY <1>2, <1>3, <1>4, <1>5, <1>6, <1>7

LEMMA InsertedNodes ==
    ASSUME Control
    PROVE  Inserted \subseteq Node
<1>1. CASE ends = <<>>
  BY <1>1, NothingInserted
<1>2. CASE ends # <<>>
  <2>1. CharLen \in Nat /\ ends \in [0 .. CharLen -> Seq(Entry)]
    BY <1>2 DEF Control, LatticeOK
  <2>2. ASSUME NEW p \in 1 .. CharLen, NEW i \in DOMAIN ends[p] PROVE ends[p][i].node \in Node
    <3>1. ends[p] \in Seq(Entry)
      BY <2>1
    <3>2. ends[p][i] \in Entry
      BY <3>1, ElementOfSeq
    <3> QED BY <3>2 DEF Entry
  <2>3. ASSUME NEW n \in Inserted PROVE n \in Node
    <3>1. PICK p \in 1 .. CharLen : \E i \in DOMAIN ends[p] : n = ends[p][i].node
      BY <2>1, InsertedIs
    <3> QED BY <3>1, <2>2
  <2> QED BY <2>3
<1> QED BY <1>1, <1>2

LEMMA HitsAre ==
    ASSUME TextInv, Built, NEW p \in 0 .. CharLen - 1, NEW h \in Hits(ByteOffset(p))
    PROVE  h.param \in Params /\ h.end \in ByteOffset(p) + 1 .. ByteLen
<1>1. CharLen \in Nat /\ ByteLen \in Nat /\ ByteOffset(p) \in 0 .. ByteLen
      /\ CharIndex(ByteOffset(p)) = p /\ ByteOffset(p) < ByteOffset(CharLen)
      /\ ByteOffset(CharLen) = ByteLen
  BY OffsetsAscend
<1>2. /\ h.param \in Params
      /\ h.end \in {ByteOffset(p) + 1} \cup {ByteOffset(i) : i \in p + 1 .. CharLen}
  BY <1>1 DEF Hits
<1>3. CASE h.end = ByteOffset(p) + 1
  BY <1>1, <1>2, <1>3
<1>4. ASSUME NEW i \in p + 1 .. CharLen, h.end = ByteOffset(i)
      PROVE  h.end \in ByteOffset(p) + 1 .. ByteLen
  <2>1. i \in 0 .. CharLen /\ p \in 0 .. CharLen /\ p < i
    BY <1>1
  <2>2. ByteOffset(i) \in 0 .. ByteLen /\ ByteOffset(p) < ByteOffset(i)
    BY <2>1, OffsetsAscend
  <2> QED BY <2>2, <1>1, <1>4
<1> QED BY <1>2, <1>3, <1>4

LEMMA NotOfBoth == \A n : OfSimple(n) => ~OfUnkDef(n)
BY DEF OfSimple, OfUnkDef

\* What any provider of the configuration proposes, and Simple alone and last.
LEMMA ProvideIs ==
    ASSUME Control, pos < CharLen, Built, NEW k \in 1 .. Len(providers)
    PROVE  /\ Provide(providers[k]) \in Seq(OovsAt(pos))
           /\ \A i \in DOMAIN Provide(providers[k]) : OfSimple(Provide(providers[k])[i]) =>
                  /\ Len(Provide(providers[k])) = 1 /\ created = {} /\ k = Len(providers)
<1>1. TextInv /\ pos \in 0 .. CharLen - 1
  <2>1. TextInv /\ pos \in 0 .. CharLen
    BY DEF Control
  <2> QED BY <2>1, OffsetsAscend
<1>2. providers \in Seq({"MeCab", "Simple"}) /\ (providers[k] = "Simple" => k = Len(providers))
  BY TokenizerAssumption DEF Control
<1>3. CASE providers[k] = "MeCab"
  <2> DEFINE s == MeCab(pos, created)
  <2>1. s \in Seq({n \in OovsAt(pos) : OfUnkDef(n)})
    BY <1>1, MeCabProposes, Built
  <2>2. Provide(providers[k]) = s
    BY <1>3 DEF Provide
  <2> HIDE DEF s
  <2>3. ASSUME NEW i \in DOMAIN s PROVE s[i] \in OovsAt(pos) /\ ~OfSimple(s[i])
    BY <2>1, ElementOfSeq, NotOfBoth
  <2>4. s \in Seq(OovsAt(pos))
    BY <2>1, <2>3
  <2> QED BY <2>2, <2>3, <2>4
<1>4. CASE providers[k] # "MeCab"
  <2>1. providers[k] = "Simple"
    BY <1>2, <1>4, ElementOfSeq
  <2> DEFINE s == Simple(pos, created)
  <2>2. s \in Seq(OovsAt(pos)) /\ (s # <<>> => Len(s) = 1 /\ created = {})
    BY <1>1, SimpleProposes
  <2>3. Provide(providers[k]) = s
    BY <2>1 DEF Provide
  <2> HIDE DEF s
  <2>4. ASSUME NEW i \in DOMAIN s PROVE Len(s) = 1 /\ created = {}
    <3>1. s # <<>>
      BY <2>2
    <3> QED BY <3>1, <2>2
  <2> QED BY <2>2, <2>3, <2>4, <2>1, <1>2
<1> QED BY <1>3, <1>4

-----------------------------------------------------------------------------
(* Inserting a node                                                         *)

\* A node that begins at the position of the loop and ends behind it disturbs
\* no connection made before; behind the words of the dictionary it may be one
\* or not.
LEMMA InsertKeeps ==
    ASSUME Control, Entries, WordsFirst, LatticeOK, ends # <<>>, UNCHANGED <<chars, conn>>,
           NEW n \in Node, n.begin = pos, n.end \in pos + 1 .. CharLen, Insert(n),
           \A m \in Inserted : m.begin <= pos,
           ~n.oov => \A m \in Inserted : m.begin = pos => ~m.oov
    PROVE  /\ LatticeOK' /\ ends' # <<>> /\ Inserted' = Inserted \cup {n}
           /\ Entries' /\ WordsFirst'
<1>1. CharLen \in Nat /\ pos \in 0 .. CharLen /\ ends \in [0 .. CharLen -> Seq(Entry)]
  BY DEF Control, LatticeOK
<1>2. pos \in Nat /\ n.end \in 1 .. CharLen /\ n.begin \in 0 .. n.end - 1 /\ pos < n.end
  BY <1>1
<1> DEFINE L == Len(ends[n.end])
<1>3. /\ LatticeOK' /\ CharLen' = CharLen
      /\ \A p \in 0 .. CharLen : p # n.end => ends'[p] = ends[p]
      /\ L \in Nat /\ ends'[n.end] \in Seq(Entry) /\ Len(ends'[n.end]) = L + 1
      /\ \A i \in 1 .. L : ends'[n.end][i] = ends[n.end][i]
      /\ ends'[n.end][L + 1] = EntryFor(n)
      /\ Inserted' = Inserted \cup {n}
  BY <1>2, InsertAdds
<1>4. EntryFor(n).node = n
  BY <1>1, <1>2, EntryForIs
<1>5. DOMAIN ends[n.end] = 1 .. L /\ DOMAIN ends'[n.end] = 1 .. L + 1
  BY <1>1, <1>2, <1>3
<1> HIDE DEF L
\* Entries are those of before, in their places, and the new one.
<1>6. ASSUME NEW p \in 1 .. CharLen, NEW i \in DOMAIN ends'[p]
      PROVE  \/ i \in DOMAIN ends[p] /\ ends'[p][i] = ends[p][i]
             \/ p = n.end /\ i = L + 1 /\ ends'[p][i] = EntryFor(n)
  <2>1. CASE p = n.end
    <3>1. i \in 1 .. L \/ i = L + 1
      BY <2>1, <1>3, <1>5
    <3> QED BY <3>1, <2>1, <1>3, <1>5
  <2>2. CASE p # n.end
    BY <2>2, <1>3
  <2> QED BY <2>1, <2>2
<1>7. ASSUME NEW m, m.begin \in 0 .. CharLen, m.begin # n.end
      PROVE  EntryFor(m)' = EntryFor(m)
  <2>1. ends'[m.begin] = ends[m.begin]
    BY <1>3, <1>7
  <2> QED BY <2>1, ConnectKept DEF EntryFor
<1>8. ASSUME NEW p \in 1 .. CharLen, NEW i \in DOMAIN ends[p], NEW m, m = ends[p][i].node
      PROVE  m \in Node /\ m \in Inserted /\ m.begin < p /\ EntryFor(m)' = EntryFor(m)
  <2>1. ends[p] \in Seq(Entry)
    BY <1>1
  <2>2. ends[p][i] \in Entry
    BY <2>1, ElementOfSeq
  <2>3. m \in Node /\ m \in Inserted
    BY <2>2, <1>1, <1>8, InsertedIs DEF Entry
  <2>4. m.begin \in Nat /\ m.begin < p /\ m.begin <= pos
    BY <2>3, <1>8 DEF Entries, Node
  <2>5. m.begin \in 0 .. CharLen /\ m.begin # n.end
    BY <2>4, <1>1, <1>2, SMTT(30)
  <2> QED BY <2>3, <2>4, <2>5, <1>7
<1>9. Entries'
  <2>1. ASSUME NEW p \in 1 .. CharLen, NEW i \in DOMAIN ends'[p], NEW e, e = ends'[p][i]
        PROVE  e.node.end = p /\ e.node.begin < p /\ e = EntryFor(e.node)'
    <3>1. CASE i \in DOMAIN ends[p] /\ ends'[p][i] = ends[p][i]
      <4>1. EntryFor(e.node)' = EntryFor(e.node)
        BY <3>1, <2>1, <1>8
      <4>2. e = EntryFor(e.node) /\ e.node.end = p /\ e.node.begin < p
        BY <3>1, <2>1 DEF Entries
      <4> QED BY <4>1, <4>2, Zenon
    <3>2. CASE p = n.end /\ i = L + 1 /\ ends'[p][i] = EntryFor(n)
      <4>1. EntryFor(n)' = EntryFor(n)
        <5>1. n.begin \in 0 .. CharLen /\ n.begin # n.end
          BY <1>1, <1>2
        <5> QED BY <5>1, <1>7
      <4>2. e.node = n /\ e = EntryFor(n)
        BY <3>2, <2>1, <1>4
      <4> QED BY <3>2, <4>1, <4>2, <1>2
    <3> QED BY <3>1, <3>2, <1>6
  <2>2. \A p \in 1 .. CharLen' : \A i \in DOMAIN ends'[p] : \A e : e = ends'[p][i] =>
            e.node.end = p /\ e.node.begin < p /\ e = EntryFor(e.node)'
    BY <2>1, <1>3
  <2> QED BY <2>2 DEF Entries
<1>10. WordsFirst'
  <2>1. ASSUME NEW p \in 1 .. CharLen, NEW i \in DOMAIN ends'[p], NEW j \in DOMAIN ends'[p],
               i < j, ends'[p][i].node.begin = ends'[p][j].node.begin, ends'[p][i].node.oov
        PROVE  ends'[p][j].node.oov
    <3>1. CASE j \in DOMAIN ends[p] /\ ends'[p][j] = ends[p][j]
      <4>1. i \in DOMAIN ends[p] /\ ends'[p][i] = ends[p][i]
        <5>1. ~(p = n.end /\ i = L + 1)
          BY <3>1, <2>1, <1>3, <1>5
        <5> QED BY <5>1, <1>6
      <4> QED BY <3>1, <4>1, <2>1 DEF WordsFirst
    <3>2. CASE p = n.end /\ j = L + 1 /\ ends'[p][j] = EntryFor(n)
      <4>1. i \in DOMAIN ends[p] /\ ends'[p][i] = ends[p][i]
        <5>1. ~(p = n.end /\ i = L + 1)
          BY <3>2, <2>1, <1>3
        <5> QED BY <5>1, <1>6
      <4>2. ends[p][i].node \in Inserted /\ ends[p][i].node.begin = pos /\ ends[p][i].node.oov
        BY <4>1, <3>2, <2>1, <1>4, <1>8
      <4> QED BY <4>2, <3>2, <1>4
    <3> QED BY <3>1, <3>2, <1>6
  <2> QED BY <2>1, <1>3 DEF WordsFirst
<1>11. ends' # <<>>
  <2>1. ends' \in [0 .. CharLen -> Seq(Entry)] /\ 0 \in 0 .. CharLen
    BY <1>1, <1>3 DEF LatticeOK
  <2>2. DOMAIN ends' # {} /\ DOMAIN <<>> = {}
    BY <2>1
  <2> QED BY <2>2
<1> QED BY <1>3, <1>9, <1>10, <1>11

-----------------------------------------------------------------------------
(* The steps                                                                *)

\* What the steps that touch neither the text nor the lattice have in common.
Quiet == UNCHANGED <<textVars, ends, conn, providers>>

LEMMA QuietKeeps ==
    ASSUME IInv, Quiet
    PROVE  /\ TextInv' /\ CharLen \in Nat /\ CharLen' = CharLen /\ (Built' <=> Built)
           /\ Inserted' = Inserted /\ Inserted \subseteq Node
           /\ ends' = ends /\ conn' = conn /\ (LatticeOK => LatticeOK')
           /\ Entries' /\ WordsFirst' /\ CandidatesAllowed'
           /\ conn' \in Matrices /\ providers' \in ProviderLists
           /\ \A p : /\ ByteOffset(p)' = ByteOffset(p) /\ Category(p)' = Category(p)
                     /\ OovsAt(p)' = OovsAt(p) /\ Hits(p)' = Hits(p)
<1>1. /\ UNCHANGED textVars /\ UNCHANGED <<textVars, ends, conn>> /\ ends' = ends /\ conn' = conn
      /\ providers' = providers
  BY DEF Quiet
<1>2. TextInv /\ Control /\ conn \in Matrices /\ providers \in ProviderLists
  BY DEF IInv, Control
<1>3. CharLen \in Nat
  BY <1>2, LenProperties DEF TextInv, Indexed, TextTypes, CharLen
<1>4. Inserted \subseteq Node
  BY <1>2, InsertedNodes
<1> QED BY <1>1, <1>2, <1>3, <1>4, TextKept, LatticeKept DEF IInv

LEMMA ProvidersLen ==
    ASSUME Control
    PROVE  /\ providers \in Seq({"MeCab", "Simple"}) /\ Len(providers) \in Nat \ {0}
<1>1. providers \in Seq({"MeCab", "Simple"}) /\ providers # <<>>
  BY TokenizerAssumption DEF Control
<1> QED BY <1>1, EmptySeq, LenProperties

\* Those that leave what has been read back alone.
LEMMA WalkedKept ==
    ASSUME IInv, Quiet, UNCHANGED <<at, path>>, pc # "walk" => pc' # "walk",
           pc' \notin {"walk", "done"} => pc \notin {"walk", "done"}
    PROVE  Walked'
<1>1. /\ CharLen' = CharLen /\ Inserted' = Inserted /\ ends' = ends /\ conn' = conn
      /\ path' = path /\ at' = at
  BY QuietKeeps
<1>2. After' = After
  BY <1>1 DEF After
<1>3. ASSUME NEW l, NEW c, NEW es
      PROVE  Usable(es, l, c)' = Usable(es, l, c) /\ Cheapest(es, l, c)' = Cheapest(es, l, c)
  BY <1>1 DEF Usable, Cheapest, CostAfter
<1>4. Chosen(at.pos, at.idx) => Chosen(at.pos, at.idx)'
  BY <1>1, <1>2, <1>3 DEF Chosen
<1> QED BY <1>1, <1>4 DEF Walked, IInv

\* The steps of the loop over the positions that insert nothing.
LEMMA LoopStep ==
    ASSUME IInv,
           \/ SkipPosition \/ LookUp \/ DropWord \/ EndWords \/ CallProvider \/ NextProvider
           \/ EndProviders \/ NextPosition \/ CallLastProvider \/ FailNoWord
    PROVE  IInv'
<1>1. Control /\ Queues /\ Offered /\ SimpleLast /\ Walked
  BY DEF IInv
<1>2. Quiet /\ UNCHANGED <<at, path>> /\ pc \notin {"walk", "done"} /\ pc' \notin {"walk", "done"}
      /\ pc # "build" /\ pc' # "build"
  BY <1>1 DEF Quiet, config, loopVars, SkipPosition, LookUp, DropWord, EndWords, CallProvider,
              NextProvider, EndProviders, NextPosition, CallLastProvider, FailNoWord
<1>3. /\ TextInv' /\ CharLen \in Nat /\ CharLen' = CharLen /\ (Built' <=> Built)
      /\ Inserted' = Inserted /\ Inserted \subseteq Node
      /\ ends' = ends /\ conn' = conn /\ (LatticeOK => LatticeOK')
      /\ Entries' /\ WordsFirst' /\ CandidatesAllowed'
      /\ conn' \in Matrices /\ providers' \in ProviderLists
      /\ \A p : /\ ByteOffset(p)' = ByteOffset(p) /\ Category(p)' = Category(p)
                /\ OovsAt(p)' = OovsAt(p) /\ Hits(p)' = Hits(p)
  BY <1>2, QuietKeeps
<1>4. Walked'
  BY <1>2, WalkedKept
<1>5. /\ Len(providers) \in Nat \ {0} /\ Len(providers') = Len(providers)
      /\ provider \in 1 .. Len(providers) + 1
  BY <1>1, <1>2, ProvidersLen DEF Quiet, Control
<1>6. /\ pos \in 0 .. CharLen /\ pos \in Nat /\ ends # <<>> /\ LatticeOK /\ Built
  BY <1>1, <1>2, <1>3 DEF Control, SkipPosition, LookUp, DropWord, EndWords, CallProvider,
              NextProvider, EndProviders, NextPosition, CallLastProvider, FailNoWord, AtPosition
<1>7. \A n \in Inserted : n.begin \in Nat
  BY <1>3 DEF Node
<1>8. Control'
  <2>1. CASE SkipPosition
    BY <2>1, <1>1, <1>2, <1>3, <1>5, <1>6 DEF SkipPosition, Control, loopVars, config, AtPosition
  <2>2. CASE LookUp
    BY <2>2, <1>1, <1>2, <1>3, <1>5, <1>6 DEF LookUp, Control, loopVars, config, AtPosition
  <2>3. CASE DropWord
    BY <2>3, <1>1, <1>2, <1>3, <1>5, <1>6 DEF DropWord, Control, loopVars, config, AtPosition
  <2>4. CASE EndWords
    BY <2>4, <1>1, <1>2, <1>3, <1>5, <1>6 DEF EndWords, Control, loopVars, config, AtPosition
  <2>5. CASE CallProvider
    BY <2>5, <1>1, <1>2, <1>3, <1>5, <1>6 DEF CallProvider, Control, loopVars, config, AtPosition
  <2>6. CASE NextProvider
    BY <2>6, <1>1, <1>2, <1>3, <1>5, <1>6 DEF NextProvider, Control, loopVars, config, AtPosition
  <2>7. CASE EndProviders
    BY <2>7, <1>1, <1>2, <1>3, <1>5, <1>6 DEF EndProviders, Control, loopVars, config, AtPosition
  <2>8. CASE NextPosition
    BY <2>8, <1>1, <1>2, <1>3, <1>5, <1>6 DEF NextPosition, Control, loopVars, config, AtPosition
  <2>9. CASE CallLastProvider
    BY <2>9, <1>1, <1>2, <1>3, <1>5, <1>6
       DEF CallLastProvider, Control, loopVars, config, AtPosition
  <2>10. CASE FailNoWord
    BY <2>10, <1>1, <1>2, <1>3, <1>5, <1>6 DEF FailNoWord, Control, loopVars, config, AtPosition
  <2> QED BY <2>1, <2>2, <2>3, <2>4, <2>5, <2>6, <2>7, <2>8, <2>9, <2>10
<1>9. ASSUME NEW k \in 1 .. Len(providers), pos < CharLen, oovs' = Provide(providers[k])
      PROVE  /\ oovs' \in Seq(OovsAt(pos))
             /\ \A i \in DOMAIN oovs' : OfSimple(oovs'[i]) =>
                    Len(oovs') = 1 /\ created = {} /\ k = Len(providers)
  BY <1>9, <1>1, <1>6, ProvideIs
<1>10. Queues'
  <2>1. CASE SkipPosition
    BY <2>1, <1>1, <1>3, <1>5, <1>6 DEF SkipPosition, Queues, loopVars, config, AtPosition
  <2>2. CASE LookUp
    <3>1. /\ found' \in Findings(ByteOffset(pos)) /\ pc = "visit" /\ pc' = "words"
          /\ oovs' = oovs /\ pos' = pos
      BY <2>2 DEF LookUp
    <3>2. found' \in Seq(Hits(ByteOffset(pos)))
      <4>1. PICK n \in 0 .. MaxFound : found' \in [1 .. n -> Hits(ByteOffset(pos))]
        BY <3>1 DEF Findings
      <4> QED BY <4>1
    <3>3. (Hits(ByteOffset(pos)))' = Hits(ByteOffset(pos))
      BY <1>3, <3>1
    <3> QED BY <3>1, <3>2, <3>3, <1>1 DEF Queues
  <2>3. CASE DropWord
    BY <2>3, <1>1, <1>3, <1>5, <1>6 DEF DropWord, Queues, loopVars, config, AtPosition
  <2>4. CASE EndWords
    BY <2>4, <1>1, <1>3, <1>5, <1>6 DEF EndWords, Queues, loopVars, config, AtPosition
  <2>5. CASE CallProvider
    <3>1. /\ oovs' = Provide(providers[provider]) /\ found' = found /\ pos' = pos
          /\ found = <<>> /\ pc' \in {"insert", "insertLast"}
          /\ provider \in 1 .. Len(providers) /\ pos < CharLen
      BY <2>5, <1>1, <1>5 DEF CallProvider, Queues, Control, AtPosition
    <3>2. oovs' \in Seq(OovsAt(pos))
      BY <3>1, <1>9
    <3>3. (OovsAt(pos))' = OovsAt(pos)
      BY <1>3, <3>1
    <3> QED BY <3>1, <3>2, <3>3 DEF Queues
  <2>6. CASE NextProvider
    BY <2>6, <1>1, <1>3, <1>5, <1>6 DEF NextProvider, Queues, loopVars, config, AtPosition
  <2>7. CASE EndProviders
    BY <2>7, <1>1, <1>3, <1>5, <1>6 DEF EndProviders, Queues, loopVars, config, AtPosition
  <2>8. CASE NextPosition
    BY <2>8, <1>1, <1>3, <1>5, <1>6 DEF NextPosition, Queues, loopVars, config, AtPosition
  <2>9. CASE CallLastProvider
    <3>1. /\ oovs' = Provide(providers[Len(providers)]) /\ found' = found /\ pos' = pos
          /\ found = <<>> /\ pc' \in {"insert", "insertLast"}
          /\ Len(providers) \in 1 .. Len(providers) /\ pos < CharLen
      BY <2>9, <1>1, <1>5 DEF CallLastProvider, Queues, Control, AtPosition
    <3>2. oovs' \in Seq(OovsAt(pos))
      BY <3>1, <1>9
    <3>3. (OovsAt(pos))' = OovsAt(pos)
      BY <1>3, <3>1
    <3> QED BY <3>1, <3>2, <3>3 DEF Queues
  <2>10. CASE FailNoWord
    BY <2>10, <1>1, <1>3, <1>5, <1>6 DEF FailNoWord, Queues, loopVars, config, AtPosition
  <2> QED BY <2>1, <2>2, <2>3, <2>4, <2>5, <2>6, <2>7, <2>8, <2>9, <2>10
<1>11. Offered'
  <2>1. CASE SkipPosition
    BY <2>1, <1>1, <1>3, <1>6, <1>7 DEF SkipPosition, Offered, loopVars, config, AtPosition
  <2>2. CASE LookUp
    BY <2>2, <1>1, <1>3, <1>6, <1>7 DEF LookUp, Offered, loopVars, config, AtPosition
  <2>3. CASE DropWord
    BY <2>3, <1>1, <1>3, <1>6, <1>7 DEF DropWord, Offered, loopVars, config, AtPosition
  <2>4. CASE EndWords
    BY <2>4, <1>1, <1>3, <1>6, <1>7 DEF EndWords, Offered, loopVars, config, AtPosition
  <2>5. CASE CallProvider
    BY <2>5, <1>1, <1>3, <1>6, <1>7 DEF CallProvider, Offered, loopVars, config, AtPosition
  <2>6. CASE NextProvider
    BY <2>6, <1>1, <1>3, <1>6, <1>7 DEF NextProvider, Offered, loopVars, config, AtPosition
  <2>7. CASE EndProviders
    BY <2>7, <1>1, <1>3, <1>6, <1>7 DEF EndProviders, Offered, loopVars, config, AtPosition
  <2>8. CASE NextPosition
    BY <2>8, <1>1, <1>3, <1>6, <1>7 DEF NextPosition, Offered, loopVars, config, AtPosition
  <2>9. CASE CallLastProvider
    BY <2>9, <1>1, <1>3, <1>6, <1>7 DEF CallLastProvider, Offered, loopVars, config, AtPosition
  <2>10. CASE FailNoWord
    BY <2>10, <1>1, <1>3, <1>6, <1>7 DEF FailNoWord, Offered, loopVars, config, AtPosition
  <2> QED BY <2>1, <2>2, <2>3, <2>4, <2>5, <2>6, <2>7, <2>8, <2>9, <2>10
<1>12. SimpleLast'
  <2>1. CASE SkipPosition
    BY <2>1, <1>1, <1>3, <1>5, <1>6, <1>7
       DEF SkipPosition, SimpleLast, OfSimple, Queues, Offered, loopVars, config, AtPosition
  <2>2. CASE LookUp
    BY <2>2, <1>1, <1>3, <1>5, <1>6, <1>7 DEF LookUp, SimpleLast, loopVars, config, AtPosition
  <2>3. CASE DropWord
    BY <2>3, <1>1, <1>3, <1>5, <1>6, <1>7 DEF DropWord, SimpleLast, loopVars, config, AtPosition
  <2>4. CASE EndWords
    BY <2>4, <1>1, <1>3, <1>5, <1>6, <1>7
       DEF EndWords, SimpleLast, OfSimple, Queues, Offered, loopVars, config, AtPosition
  <2>5. CASE CallProvider
    <3>1. \A i \in DOMAIN oovs' : OfSimple(oovs'[i]) =>
              Len(oovs') = 1 /\ created = {} /\ provider = Len(providers)
      <4>1. /\ oovs' = Provide(providers[provider]) /\ provider \in 1 .. Len(providers)
            /\ pos < CharLen
        BY <2>5, <1>1, <1>5 DEF CallProvider, Control, AtPosition
      <4> QED BY <4>1, <1>9
    <3>2. \A n \in Inserted : OfSimple(n) => n.begin # pos
      BY <2>5, <1>1, <1>5, <1>6, <1>7 DEF CallProvider, SimpleLast, Offered, AtPosition
    <3> QED BY <2>5, <3>1, <3>2, <1>3, <1>5 DEF CallProvider, SimpleLast
  <2>6. CASE NextProvider
    BY <2>6, <1>1, <1>3, <1>5, <1>6, <1>7 DEF NextProvider, SimpleLast, loopVars, config, AtPosition
  <2>7. CASE EndProviders
    BY <2>7, <1>1, <1>3, <1>5, <1>6, <1>7 DEF EndProviders, SimpleLast, loopVars, config, AtPosition
  <2>8. CASE NextPosition
    BY <2>8, <1>1, <1>3, <1>5, <1>6, <1>7
       DEF NextPosition, SimpleLast, OfSimple, Queues, Offered, loopVars, config, AtPosition
  <2>9. CASE CallLastProvider
    <3>1. \A i \in DOMAIN oovs' : OfSimple(oovs'[i]) =>
              Len(oovs') = 1 /\ created = {} /\ Len(providers) = Len(providers)
      <4>1. /\ oovs' = Provide(providers[Len(providers)]) /\ Len(providers) \in 1 .. Len(providers)
            /\ pos < CharLen
        BY <2>9, <1>1, <1>5 DEF CallLastProvider, Control, AtPosition
      <4> QED BY <4>1, <1>9
    <3>2. \A n \in Inserted : OfSimple(n) => n.begin # pos
      BY <2>9, <1>1, <1>5, <1>6, <1>7 DEF CallLastProvider, SimpleLast, Offered, AtPosition
    <3> QED BY <2>9, <3>1, <3>2, <1>3 DEF CallLastProvider, SimpleLast
  <2>10. CASE FailNoWord
    BY <2>10, <1>1, <1>3, <1>5, <1>6, <1>7 DEF FailNoWord, SimpleLast, loopVars, config, AtPosition
  <2> QED BY <2>1, <2>2, <2>3, <2>4, <2>5, <2>6, <2>7, <2>8, <2>9, <2>10
<1> QED BY <1>3, <1>4, <1>8, <1>10, <1>11, <1>12 DEF IInv

LEMMA InvInit == Init => IInv
<1> SUFFICES ASSUME Init PROVE IInv
  OBVIOUS
<1>1. TextInv
  BY TextInvInit DEF Init
<1>2. /\ conn \in Matrices /\ providers \in ProviderLists /\ ends = <<>> /\ pc = "build" /\ pos = 0
      /\ found = <<>> /\ created = {} /\ provider = 1 /\ oovs = <<>>
      /\ at = [pos |-> 0, idx |-> 0] /\ path = <<>>
  BY DEF Init
<1>3. CharLen \in Nat
  BY <1>1, LenProperties DEF TextInv, Indexed, TextTypes, CharLen
<1>4. Inserted = {}
  BY <1>2, NothingInserted
<1>5. Control
  <2>1. Len(providers) \in Nat \ {0}
    <3>1. providers \in Seq({"MeCab", "Simple"}) /\ providers # <<>>
      BY <1>2, TokenizerAssumption
    <3> QED BY <3>1, EmptySeq, LenProperties
  <2> QED BY <2>1, <1>1, <1>2, <1>3 DEF Control, AtPosition
<1>6. Queues /\ Entries /\ WordsFirst
  BY <1>2 DEF Queues, Entries, WordsFirst
<1>7. Offered /\ CandidatesAllowed /\ SimpleLast
  BY <1>2, <1>4 DEF Offered, AtPosition, CandidatesAllowed, WordsEndWell, SimpleStandsAlone,
                    NoOovInsideWords, SimpleLast
<1>8. Walked
  BY <1>2, <1>3 DEF Walked
<1> QED BY <1>5, <1>6, <1>7, <1>8 DEF IInv

\* The steps before bestPath.
LEMMA StartStep ==
    ASSUME IInv, BuildText \/ ReturnEmpty \/ StartBestPath
    PROVE  IInv'
<1>1. /\ TextInv /\ conn \in Matrices /\ providers \in ProviderLists
      /\ pc = "build" /\ ends = <<>> /\ pos = 0
      /\ created \subseteq 0 .. 63 /\ provider \in 1 .. Len(providers) + 1
      /\ found = <<>> /\ oovs = <<>> /\ at \in [pos : 0 .. CharLen, idx : Nat] /\ path = <<>>
  BY DEF IInv, Control, Queues, Walked, BuildText, ReturnEmpty, StartBestPath
<1>2. /\ UNCHANGED <<conn, providers, loopVars, at, path>>
      /\ TextInv' /\ CharLen' = CharLen
  <2>1. [Build]_textVars /\ chars' = chars
    BY DEF BuildText, ReturnEmpty, StartBestPath, Build, Decode, Terminate, ScanRun, FinishRuns,
           textVars
  <2> QED BY <2>1, <1>1, TextInvStep DEF BuildText, ReturnEmpty, StartBestPath, config, CharLen
<1>3. CharLen \in Nat
  BY <1>1, LenProperties DEF TextInv, Indexed, TextTypes, CharLen
\* Nothing has been inserted yet.
<1>4. /\ pos' = 0 /\ pc' \in {"build", "done", "visit"}
      /\ pc' # "build" => Built'
      /\ pc' = "visit" => ends' = NewLattice(CharLen) /\ CharLen > 0
      /\ pc' # "visit" => ends' = <<>>
  BY <1>1 DEF BuildText, ReturnEmpty, StartBestPath, Built, textVars
<1>5. ASSUME pc' = "visit"
      PROVE  LatticeOK' /\ ends' # <<>> /\ \A p \in 1 .. CharLen : ends'[p] = <<>>
  <2>1. ends' = [p \in 0 .. CharLen |-> IF p = 0 THEN <<BOS>> ELSE <<>>]
    BY <1>4, <1>5 DEF NewLattice
  <2>2. BOS \in Entry
    BY LatticeAssumption DEF BOS, Entry, Node
  <2> DEFINE bos == <<BOS>>
  <2>3. bos \in Seq(Entry) /\ <<>> \in Seq(Entry)
    BY <2>2
  <2>4. bos = <<BOS>>'
    BY DEF BOS
  <2>5. /\ ends' \in [0 .. CharLen -> Seq(Entry)] /\ ends'[0] = bos /\ 0 \in 0 .. CharLen
        /\ \A p \in 1 .. CharLen : ends'[p] = <<>>
    <3> HIDE DEF bos
    <3>1. ends' = [p \in 0 .. CharLen |-> IF p = 0 THEN bos ELSE <<>>]
      BY <2>1 DEF bos
    <3> QED BY <3>1, <2>3, <1>3
  <2>6. ends' # <<>>
    <3>1. DOMAIN ends' # {} /\ DOMAIN <<>> = {}
      BY <2>5
    <3> QED BY <3>1
  <2> QED BY <2>4, <2>5, <2>6, <1>1, <1>2, <1>3 DEF LatticeOK
<1>6. Inserted' = {}
  <2>1. CASE pc' = "visit"
    <3>1. DOMAIN ends' \ {0} = 1 .. CharLen /\ \A p \in 1 .. CharLen : ends'[p] = <<>>
      BY <2>1, <1>2, <1>3, <1>5 DEF LatticeOK
    <3>2. ASSUME NEW n PROVE n \notin Inserted'
      BY <3>1 DEF Inserted
    <3> QED BY <3>2
  <2>2. CASE pc' # "visit"
    <3>1. ends' = <<>>
      BY <2>2, <1>4
    <3> QED BY <3>1 DEF Inserted
  <2> QED BY <2>1, <2>2
<1>7. Control'
  <2>1. IF ends' = <<>> THEN pc' \in {"build", "done"} ELSE LatticeOK'
    BY <1>4, <1>5
  <2>2. 0 \in 0 .. CharLen /\ Len(providers') = Len(providers)
    BY <1>2, <1>3
  <2>3. created' = created /\ provider' = provider
    BY <1>2 DEF loopVars
  <2> QED BY <2>1, <2>2, <2>3, <1>1, <1>2, <1>4 DEF Control, AtPosition
<1>8. Queues'
  BY <1>1, <1>2, <1>4 DEF Queues, loopVars
<1>9. Entries' /\ WordsFirst'
  <2>1. ends' # <<>> => \A p \in 1 .. CharLen : ends'[p] = <<>>
    BY <1>4, <1>5
  <2> QED BY <2>1, <1>2 DEF Entries, WordsFirst
<1>10. Offered' /\ CandidatesAllowed'
  BY <1>4, <1>6 DEF Offered, AtPosition, CandidatesAllowed, WordsEndWell, SimpleStandsAlone,
                    NoOovInsideWords
<1>11. SimpleLast'
  BY <1>1, <1>2, <1>6 DEF SimpleLast, loopVars
<1>12. Walked'
  BY <1>1, <1>2, <1>4 DEF Walked
<1> QED BY <1>7, <1>8, <1>9, <1>10, <1>11, <1>12 DEF IInv

\* What a step that inserts node n of the position needs to keep the invariant,
\* whether n is a word of the dictionary or not.
LEMMA InsertStep ==
    ASSUME IInv, NEW n \in Node, n.begin = pos, n.end \in pos + 1 .. CharLen, Insert(n),
           UNCHANGED <<textVars, conn, providers, pc, pos, provider, at, path>>,
           pc \in {"words", "insert", "insertLast"}, created' = With(created, n.end - pos),
           pc = "words" => ~n.oov, pc # "words" => n.oov,
           ~n.oov => n.end = CharLen \/ bow[ByteOffset(n.end) + 1],
           \A m \in Inserted : OfSimple(m) => m.begin # pos,
           OfSimple(n) => created = {}
    PROVE  /\ Control' /\ Entries' /\ WordsFirst' /\ Offered' /\ CandidatesAllowed' /\ Walked'
           /\ CharLen' = CharLen /\ Inserted' = Inserted \cup {n}
<1>1. Control /\ Queues /\ Entries /\ WordsFirst /\ Offered /\ CandidatesAllowed /\ Walked
  BY DEF IInv
<1>2. /\ TextInv /\ conn \in Matrices /\ providers \in ProviderLists /\ pos \in 0 .. CharLen
      /\ LatticeOK /\ ends # <<>> /\ Built /\ pc # "build"
  BY <1>1 DEF Control
<1>3. /\ TextInv' /\ CharLen' = CharLen /\ (Built' <=> Built)
      /\ \A p : ByteOffset(p)' = ByteOffset(p) /\ Category(p)' = Category(p)
  BY <1>2, TextKept
<1>4. CharLen \in Nat
  BY <1>2 DEF LatticeOK
<1>5. \A m \in Inserted : m.begin <= pos
  BY <1>1 DEF Offered
<1>6. ~n.oov => \A m \in Inserted : m.begin = pos => ~m.oov
  BY <1>1 DEF Offered
<1>7. /\ LatticeOK' /\ ends' # <<>> /\ Inserted' = Inserted \cup {n}
      /\ Entries' /\ WordsFirst'
  BY <1>1, <1>2, <1>5, <1>6, InsertKeeps DEF textVars
<1>8. created' \subseteq 0 .. 63 /\ created' # {}
  <2>1. n.end - pos \in Int
    BY <1>2, <1>4
  <2>2. created \subseteq 0 .. 63
    BY <1>1 DEF Control
  <2> QED BY <2>1, <2>2 DEF With
<1>9. Control'
  BY <1>1, <1>2, <1>3, <1>7, <1>8 DEF Control, AtPosition
<1>10. Offered'
  BY <1>1, <1>2, <1>3, <1>4, <1>7, <1>8 DEF Offered, AtPosition, Has
<1>11. CandidatesAllowed'
  <2>1. WordsEndWell'
    BY <1>1, <1>3, <1>7 DEF CandidatesAllowed, WordsEndWell, textVars
  <2>2. SimpleStandsAlone'
    <3>1. ASSUME OfSimple(n), NEW m \in Inserted PROVE m.begin # n.begin
      BY <3>1, <1>1, <1>2 DEF Offered, AtPosition
    <3> QED BY <3>1, <1>1, <1>7 DEF CandidatesAllowed, SimpleStandsAlone
  <2>3. NoOovInsideWords'
    <3>1. ASSUME n.oov, Has(Category(pos), {NoOOVBOW, NoOOVBOW2}), NEW m \in Inserted, m.begin = pos
          PROVE  m.oov
      BY <3>1, <1>1, <1>2 DEF Offered
    <3>2. ASSUME ~n.oov, NEW m \in Inserted, m.oov PROVE m.begin # pos
      BY <3>2, <1>6
    <3>3. NoOovInsideWords
      BY <1>1 DEF CandidatesAllowed
    <3>4. ASSUME NEW x \in Inserted \cup {n}, NEW y \in Inserted \cup {n}, x.oov,
                 Has(Category(x.begin), {NoOOVBOW, NoOOVBOW2}), ~y.oov
          PROVE  y.begin # x.begin
      BY <3>1, <3>2, <3>3, <3>4 DEF NoOovInsideWords
    <3> QED BY <3>4, <1>3, <1>7 DEF NoOovInsideWords
  <2> QED BY <2>1, <2>2, <2>3 DEF CandidatesAllowed
<1>12. Walked'
  BY <1>1, <1>2, <1>3 DEF Walked
<1> QED BY <1>3, <1>7, <1>9, <1>10, <1>11, <1>12

\* A word of the dictionary that is inserted ends behind the position, where a
\* character begins and a word may.
LEMMA WordIs ==
    ASSUME IInv, InsertWord, NEW n, n = WordNode(Head(found))
    PROVE  /\ n \in Node /\ n.begin = pos /\ n.end \in pos + 1 .. CharLen /\ n.oov = FALSE
           /\ n.end = CharLen \/ bow[ByteOffset(n.end) + 1]
           /\ found \in Seq(Hits(ByteOffset(pos)))
<1> DEFINE h == Head(found)
<1>1. pc = "words" /\ found # <<>> /\ ~EndsBadly(h)
  BY DEF InsertWord
<1>2. Control /\ Queues
  BY DEF IInv
<1>3. /\ TextInv /\ Built /\ CharLen \in Nat
      /\ pos \in 0 .. CharLen - 1 /\ pos \in 0 .. CharLen /\ pos \in Nat
  BY <1>1, <1>2, OffsetsAscend DEF Control, AtPosition
<1>4. found \in Seq(Hits(ByteOffset(pos)))
  BY <1>1, <1>2 DEF Queues
<1>5. h \in Hits(ByteOffset(pos))
  BY <1>1, <1>4
<1>6. h.param \in Params /\ h.end \in ByteOffset(pos) + 1 .. ByteLen
  BY <1>3, <1>5, HitsAre
<1> HIDE DEF h
<1>7. /\ ByteOffset(CharIndex(h.end)) = h.end /\ CharIndex(h.end) \in pos + 1 .. CharLen
      /\ h.end # ByteLen => bow[h.end + 1]
      /\ h.end = ByteLen => CharIndex(h.end) = CharLen
  <2>1. ByteOffset(pos) \in 0 .. ByteLen /\ ByteLen \in Nat
    BY <1>3, OffsetsAscend
  <2>2. h.end \in 0 .. ByteLen /\ ByteOffset(pos) < h.end /\ (h.end # ByteLen => h.end < ByteLen)
    BY <2>1, <1>6
  <2>3. h.end < ByteLen => CanBOW(h.end)
    BY <1>1 DEF EndsBadly
  <2>4. ByteOffset(CharIndex(h.end)) = h.end /\ CharIndex(h.end) \in 0 .. CharLen
    BY <2>2, <2>3, <1>3, BOWIsOffset, OffsetsAscend
  <2>5. ~(CharIndex(h.end) < pos) /\ CharIndex(h.end) # pos
    <3>1. CharIndex(h.end) < pos => ByteOffset(CharIndex(h.end)) < ByteOffset(pos)
      BY <2>4, <1>3, OffsetsAscend
    <3> QED BY <3>1, <2>1, <2>2, <2>4
  <2>6. CharIndex(h.end) \in pos + 1 .. CharLen
    BY <2>4, <2>5, <1>3
  <2>7. h.end = ByteLen => CharIndex(h.end) = CharLen
    BY <1>3, OffsetsAscend
  <2> QED BY <2>2, <2>3, <2>4, <2>6, <2>7 DEF CanBOW
<1>8. n = [begin |-> pos, end |-> CharIndex(h.end), left |-> h.param.left,
           right |-> h.param.right, cost |-> h.param.cost, oov |-> FALSE]
  BY DEF WordNode, h
<1>9. n \in Node /\ n.begin = pos /\ n.end = CharIndex(h.end) /\ n.oov = FALSE
  <2>1. h.param \in Param
    BY <1>6, TokenizerAssumption
  <2>2. CharIndex(h.end) \in Nat
    BY <1>3, <1>7
  <2>3. /\ h.param.left \in ContextIds /\ h.param.right \in ContextIds /\ h.param.cost \in Int
    BY <2>1 DEF Param
  <2>4. n \in Node
    <3>1. [begin |-> pos, end |-> CharIndex(h.end), left |-> h.param.left,
           right |-> h.param.right, cost |-> h.param.cost, oov |-> FALSE] \in Node
      BY <2>2, <2>3, <1>3 DEF Node
    <3> QED BY <3>1, <1>8, Zenon
  <2> QED BY <2>4, <1>8
<1> QED BY <1>4, <1>7, <1>9

LEMMA InsertWordStep ==
    ASSUME IInv, InsertWord
    PROVE  IInv'
<1>1. PICK n : n = WordNode(Head(found))
  OBVIOUS
<1>2. /\ pc = "words" /\ found # <<>> /\ Insert(n) /\ created' = With(created, n.end - pos)
      /\ found' = Tail(found) /\ oovs' = oovs
      /\ UNCHANGED <<textVars, conn, providers, pc, pos, provider, at, path>>
  BY <1>1 DEF InsertWord, config
<1>3. Control /\ Queues /\ Offered /\ oovs = <<>>
  BY <1>2 DEF IInv, Queues
<1>4. /\ n \in Node /\ n.begin = pos /\ n.end \in pos + 1 .. CharLen /\ n.oov = FALSE
      /\ n.end = CharLen \/ bow[ByteOffset(n.end) + 1]
      /\ found \in Seq(Hits(ByteOffset(pos)))
  BY <1>1, WordIs
<1>5. ~OfSimple(n) /\ \A m \in Inserted : OfSimple(m) => m.begin # pos
  BY <1>2, <1>3, <1>4 DEF Offered, OfSimple
<1>6. /\ Control' /\ Entries' /\ WordsFirst' /\ Offered' /\ CandidatesAllowed' /\ Walked'
      /\ CharLen' = CharLen /\ Inserted' = Inserted \cup {n}
  BY <1>2, <1>4, <1>5, InsertStep
<1>7. Queues'
  <2>1. (Hits(ByteOffset(pos)))' = Hits(ByteOffset(pos))
    <3>1. \A p : ByteOffset(p)' = ByteOffset(p) /\ Hits(p)' = Hits(p)
      BY <1>2, <1>3, TextKept DEF Control
    <3> QED BY <3>1, <1>2
  <2>2. Tail(found) \in Seq(Hits(ByteOffset(pos)))
    BY <1>2, <1>4
  <2> QED BY <2>1, <2>2, <1>2, <1>3 DEF Queues
<1>8. SimpleLast'
  BY <1>2, <1>3, <1>5, <1>6 DEF SimpleLast
<1> QED BY <1>6, <1>7, <1>8 DEF IInv

LEMMA OovIs ==
    ASSUME IInv, InsertOov, NEW n, n = Head(oovs)
    PROVE  /\ n \in Node /\ n.oov /\ n.begin = pos /\ n.end \in pos + 1 .. CharLen
           /\ oovs \in Seq(OovsAt(pos))
<1>1. oovs \in Seq(OovsAt(pos)) /\ oovs # <<>>
  BY DEF IInv, Queues, InsertOov
<1>2. n \in OovsAt(pos)
  BY <1>1
<1> QED BY <1>1, <1>2 DEF OovsAt

LEMMA InsertOovStep ==
    ASSUME IInv, InsertOov
    PROVE  IInv'
<1> DEFINE n == Head(oovs)
<1>1. /\ pc \in {"insert", "insertLast"} /\ oovs # <<>> /\ Insert(n) /\ oovs' = Tail(oovs)
      /\ created' = With(created, n.end - n.begin) /\ found' = found
      /\ UNCHANGED <<textVars, conn, providers, pc, pos, provider, at, path>>
  BY DEF InsertOov, config
<1>2. Control /\ Queues /\ Offered /\ SimpleLast
  BY DEF IInv
<1>3. /\ TextInv /\ Built /\ pos \in 0 .. CharLen
  BY <1>1, <1>2 DEF Control
<1>4. oovs \in Seq(OovsAt(pos)) /\ found = <<>>
  BY <1>1, <1>2 DEF Queues
<1>5. /\ n \in OovsAt(pos) /\ n = oovs[1] /\ 1 \in DOMAIN oovs /\ Tail(oovs) \in Seq(OovsAt(pos))
      /\ Len(oovs) \in Nat /\ (Len(oovs) = 1 => Tail(oovs) = <<>>)
      /\ \A k \in DOMAIN Tail(oovs) : Tail(oovs)[k] = oovs[k + 1] /\ k + 1 \in DOMAIN oovs
  BY <1>1, <1>4
<1>6. n \in Node /\ n.oov /\ n.begin = pos /\ n.end \in pos + 1 .. CharLen
  BY OovIs
<1> HIDE DEF n
<1>7. \A m \in Inserted : OfSimple(m) => m.begin # pos
  BY <1>1, <1>2 DEF SimpleLast
<1>8. OfSimple(n) => /\ Len(oovs) = 1 /\ created = {}
                     /\ pc = "insert" => provider = Len(providers)
  BY <1>2, <1>5 DEF SimpleLast
<1>9. /\ Control' /\ Entries' /\ WordsFirst' /\ Offered' /\ CandidatesAllowed' /\ Walked'
      /\ CharLen' = CharLen /\ Inserted' = Inserted \cup {n}
  BY <1>1, <1>6, <1>7, <1>8, InsertStep
<1>10. Queues'
  <2>1. (OovsAt(pos))' = OovsAt(pos)
    BY <1>1, <1>9 DEF OovsAt
  <2> QED BY <2>1, <1>1, <1>4, <1>5 DEF Queues
<1>11. SimpleLast'
  <2>1. ASSUME NEW m \in Inserted', OfSimple(m), m.begin = pos
        PROVE  oovs' = <<>> /\ (pc = "insert" => provider = Len(providers))
    BY <2>1, <1>1, <1>5, <1>7, <1>8, <1>9
  <2>2. \A k \in DOMAIN oovs' : ~OfSimple(oovs'[k])
    BY <1>1, <1>2, <1>5 DEF SimpleLast
  <2> QED BY <2>1, <2>2, <1>1 DEF SimpleLast
<1> QED BY <1>9, <1>10, <1>11 DEF IInv

\* The entry a chosen unknown word stands for: the same word of the dictionary,
\* had it been inserted, would have been chosen instead.
LEMMA TwinBeaten ==
    ASSUME LatticeOK, conn \in Matrices, Entries, WordsFirst, ends # <<>>,
           NEW p \in 1 .. CharLen, NEW l \in ContextIds, NEW c \in Int,
           Usable(ends[p], l, c) # {}, NEW i, i = Cheapest(ends[p], l, c),
           ends[p][i].node.oov
    PROVE  [ends[p][i].node EXCEPT !.oov = FALSE] \notin Inserted
<1> DEFINE x == ends[p][i].node
           y == [x EXCEPT !.oov = FALSE]
<1>1. CharLen \in Nat /\ ends \in [0 .. CharLen -> Seq(Entry)] /\ ends[p] \in Seq(Entry)
  BY DEF LatticeOK
<1>2. /\ i \in Usable(ends[p], l, c)
      /\ \A j \in Usable(ends[p], l, c) :
            \/ CostAfter(ends[p], i, l, c) < CostAfter(ends[p], j, l, c)
            \/ CostAfter(ends[p], i, l, c) = CostAfter(ends[p], j, l, c) /\ i <= j
  BY <1>1, CheapestIs
<1>3. i \in DOMAIN ends[p] /\ i \in Nat /\ ends[p][i].total # Unreachable
  BY <1>1, <1>2 DEF Usable
<1>4. ends[p][i] \in Entry
  BY <1>1, <1>3, ElementOfSeq
<1>5. x \in Node /\ x.end = p /\ x.oov /\ ends[p][i] = EntryFor(x)
  BY <1>3, <1>4 DEF Entry, Entries
<1> HIDE DEF x
<1>6. /\ y.begin = x.begin /\ y.end = p /\ y.left = x.left /\ y.right = x.right /\ y.cost = x.cost
      /\ ~y.oov
  BY <1>5 DEF Node
<1> HIDE DEF y
<1>7. SUFFICES ASSUME y \in Inserted PROVE FALSE
  BY DEF x, y
<1>8. PICK q \in 1 .. CharLen : \E j \in DOMAIN ends[q] : y = ends[q][j].node
  BY <1>1, <1>7, InsertedIs
<1>9. PICK j \in DOMAIN ends[q] : y = ends[q][j].node
  BY <1>8
<1>10. q = p /\ ends[p][j] = EntryFor(y) /\ j \in DOMAIN ends[p] /\ j \in Nat
  <2>1. y.end = q /\ ends[q][j] = EntryFor(y)
    BY <1>8, <1>9 DEF Entries
  <2> QED BY <2>1, <1>1, <1>6, <1>9
<1>11. ends[p][j].total = ends[p][i].total /\ ends[p][j].node.right = ends[p][i].node.right
  <2>1. EntryFor(y).total = EntryFor(x).total
    BY <1>6 DEF EntryFor
  <2>2. ends[p][j].node = y /\ ends[p][i].node = x
    BY <1>9, <1>10 DEF x
  <2> QED BY <2>1, <2>2, <1>5, <1>6, <1>10
<1>12. CostAfter(ends[p], j, l, c) = CostAfter(ends[p], i, l, c)
  BY <1>11 DEF CostAfter
<1>13. CostAfter(ends[p], i, l, c) \in Int
  BY <1>1, <1>3, CostIsInt
<1>14. j \in Usable(ends[p], l, c)
  BY <1>2, <1>3, <1>10, <1>11, <1>12 DEF Usable
<1>15. i <= j
  BY <1>2, <1>12, <1>13, <1>14
<1>16. ends[p][j].node = y /\ ends[p][i].node = x
  BY <1>9, <1>10 DEF x
<1>17. i # j
  BY <1>5, <1>6, <1>16
<1> QED BY <1>3, <1>5, <1>6, <1>10, <1>15, <1>16, <1>17 DEF WordsFirst

\* The steps from the end of the text back, and those that end the call.
LEMMA PathStep ==
    ASSUME IInv, ConnectEOS \/ FailNoPath \/ Walk \/ Return \/ UNCHANGED vars
    PROVE  IInv'
<1>1. Control /\ Queues /\ Entries /\ WordsFirst /\ Offered /\ SimpleLast /\ Walked
  BY DEF IInv
<1>2. Quiet /\ UNCHANGED <<pos, loopVars>>
  BY DEF Quiet, config, vars, ConnectEOS, FailNoPath, Walk, Return
<1>3. /\ TextInv' /\ CharLen \in Nat /\ CharLen' = CharLen /\ (Built' <=> Built)
      /\ Inserted' = Inserted /\ Inserted \subseteq Node
      /\ ends' = ends /\ conn' = conn /\ (LatticeOK => LatticeOK')
      /\ Entries' /\ WordsFirst' /\ CandidatesAllowed'
      /\ conn' \in Matrices /\ providers' \in ProviderLists
      /\ \A p : /\ ByteOffset(p)' = ByteOffset(p) /\ Category(p)' = Category(p)
                /\ OovsAt(p)' = OovsAt(p) /\ Hits(p)' = Hits(p)
  BY <1>2, QuietKeeps
<1>4. Len(providers') = Len(providers)
  BY <1>2 DEF Quiet
<1>5. \/ pc' = pc
      \/ pc \in {"visit", "walk"} /\ pc' \in {"walk", "done", "noPath"}
  BY DEF vars, ConnectEOS, FailNoPath, Walk, Return
<1>6. Control'
  BY <1>1, <1>2, <1>3, <1>4, <1>5 DEF Control, loopVars, AtPosition
<1>7. Queues'
  <2>1. (Hits(ByteOffset(pos)))' = Hits(ByteOffset(pos)) /\ (OovsAt(pos))' = OovsAt(pos)
    BY <1>2, <1>3
  <2> QED BY <2>1, <1>1, <1>2, <1>5 DEF Queues, loopVars
<1>8. Offered'
  BY <1>1, <1>2, <1>3, <1>5 DEF Offered, AtPosition, loopVars
<1>9. SimpleLast'
  BY <1>1, <1>2, <1>3, <1>4, <1>5 DEF SimpleLast, loopVars
<1>10. Walked'
  <2>1. CASE FailNoPath \/ Return \/ UNCHANGED vars
    <3>1. UNCHANGED <<at, path>> /\ (pc # "walk" => pc' # "walk")
          /\ (pc' \notin {"walk", "done"} => pc \notin {"walk", "done"})
      BY <2>1 DEF FailNoPath, Return, vars
    <3> QED BY <3>1, <1>2, WalkedKept
  <2>2. CASE ConnectEOS
    <3>1. /\ pc = "visit" /\ pc' = "walk" /\ EOS.total # Unreachable /\ path' = path
          /\ at' = [pos |-> CharLen, idx |-> EOS.prev] /\ ends # <<>>
      BY <2>2, <1>1 DEF ConnectEOS, Control
    <3>2. path = <<>>
      BY <3>1, <1>1 DEF Walked
    <3>3. conn \in Matrices /\ ends[CharLen] \in Seq(Entry) /\ 0 \in ContextIds
      BY <3>1, <1>1, <1>3, LatticeAssumption DEF Control, LatticeOK
    <3>4. Connected(ends[CharLen], 0, 0, EOS.total, EOS.prev)
      BY <3>3, ConnectIs DEF EOS
    <3>5. /\ EOS.prev \in Nat /\ Usable(ends[CharLen], 0, 0) # {}
          /\ EOS.prev = Cheapest(ends[CharLen], 0, 0)
      BY <3>1, <3>4 DEF Connected
    <3>6. After' = [left |-> 0, cost |-> 0]
      BY <3>1, <3>2 DEF After
    <3>7. /\ Usable(ends[CharLen], 0, 0)' = Usable(ends[CharLen], 0, 0)
          /\ Cheapest(ends[CharLen], 0, 0)' = Cheapest(ends[CharLen], 0, 0)
      BY <1>3 DEF Usable, Cheapest, CostAfter
    <3>8. at'.pos = CharLen /\ at'.idx = EOS.prev
      BY <3>1
    <3>9. Chosen(at.pos, at.idx)'
      BY <3>5, <3>6, <3>7, <3>8, <1>3 DEF Chosen
    <3>10. at' \in [pos : 0 .. CharLen, idx : Nat]
      BY <3>1, <3>5, <1>3
    <3> QED BY <3>1, <3>2, <3>9, <3>10, <1>3 DEF Walked
  <2>3. CASE Walk
    <3> DEFINE e == ends[at.pos][at.idx]
    <3>1. /\ pc = "walk" /\ pc' = "walk" /\ at.pos > 0 /\ ends # <<>>
          /\ path' = <<e.node>> \o path /\ at' = [pos |-> e.node.begin, idx |-> e.prev]
      BY <2>3, <1>1 DEF Walk, Walked
    <3>2. /\ path \in Seq(Node) /\ at.pos \in 1 .. CharLen /\ at.idx \in Nat
          /\ Chosen(at.pos, at.idx)
      BY <3>1, <1>1, <1>3 DEF Walked
    <3>3. /\ LatticeOK /\ conn \in Matrices /\ ends \in [0 .. CharLen -> Seq(Entry)]
          /\ ends[at.pos] \in Seq(Entry)
      BY <3>1, <3>2, <1>1, <1>3 DEF Control, LatticeOK
    <3>4. After.left \in ContextIds /\ After.cost \in Int
      <4>1. CASE path = <<>>
        BY <4>1, LatticeAssumption DEF After
      <4>2. CASE path # <<>>
        <5>1. path[1] \in Node
          BY <4>2, <3>2
        <5> QED BY <4>2, <5>1 DEF After, Node
      <4> QED BY <4>1, <4>2
    <3>5. /\ Usable(ends[at.pos], After.left, After.cost) # {}
          /\ at.idx = Cheapest(ends[at.pos], After.left, After.cost)
      BY <3>2 DEF Chosen
    <3>6. at.idx \in Usable(ends[at.pos], After.left, After.cost)
      BY <3>3, <3>4, <3>5, CheapestIs
    <3>7. at.idx \in DOMAIN ends[at.pos] /\ e.total # Unreachable
      BY <3>6 DEF Usable
    <3>8. e \in Entry
      BY <3>3, <3>7, ElementOfSeq
    <3>9. e.node \in Node /\ e.node.begin < at.pos /\ e = EntryFor(e.node)
      BY <3>1, <3>2, <3>7, <3>8, <1>1 DEF Entry, Entries
    <3>10. e.node.oov => [e.node EXCEPT !.oov = FALSE] \notin Inserted
      BY <3>1, <3>2, <3>3, <3>4, <3>5, <1>1, TwinBeaten
    <3> HIDE DEF e
    <3>11. e.node.begin \in 0 .. CharLen
      BY <3>2, <3>9, <1>3 DEF Node
    <3> DEFINE n == e.node
               b == ends[n.begin]
    <3>12. Connected(b, n.left, n.cost, EntryFor(n).total, EntryFor(n).prev)
      BY <3>3, <3>9, <3>11, EntryForIs
    <3>13. /\ e.prev \in Nat /\ Usable(b, n.left, n.cost) # {}
           /\ e.prev = Cheapest(b, n.left, n.cost)
      <4>1. EntryFor(n).total = e.total /\ EntryFor(n).prev = e.prev
        BY <3>9
      <4> QED BY <4>1, <3>7, <3>12 DEF Connected, e
    <3> HIDE DEF n
    <3>14. /\ path' \in Seq(Node) /\ path' # <<>> /\ path'[1] = n /\ Len(path') = Len(path) + 1
           /\ \A k \in 1 .. Len(path') : path'[k] = IF k = 1 THEN n ELSE path[k - 1]
      <4>1. n \in Node /\ path' = <<n>> \o path /\ path \in Seq(Node)
        BY <3>1, <3>2, <3>9 DEF n
      <4> QED BY <4>1, ConcatProperties
    <3>15. After' = [left |-> n.left, cost |-> n.cost]
      BY <3>14 DEF After
    <3>16. ASSUME NEW l, NEW c, NEW es
          PROVE  Usable(es, l, c)' = Usable(es, l, c) /\ Cheapest(es, l, c)' = Cheapest(es, l, c)
      BY <1>3 DEF Usable, Cheapest, CostAfter
    <3>17. at'.pos = n.begin /\ at'.idx = e.prev
      BY <3>1 DEF n
    <3>18. Chosen(at.pos, at.idx)'
      <4>1. After'.left = n.left /\ After'.cost = n.cost /\ ends'[at'.pos] = b
        BY <3>15, <3>17, <1>3
      <4> QED BY <4>1, <3>13, <3>16, <3>17 DEF Chosen
    <3>19. at' \in [pos : 0 .. CharLen, idx : Nat]
      BY <3>1, <3>11, <3>13
    <3>20. ASSUME NEW k \in DOMAIN path', path'[k].oov
           PROVE  [path'[k] EXCEPT !.oov = FALSE] \notin Inserted
      <4>1. DOMAIN path' = 1 .. Len(path') /\ Len(path) \in Nat /\ DOMAIN path = 1 .. Len(path)
        BY <3>2, <3>14
      <4>2. CASE k = 1
        BY <4>1, <4>2, <3>10, <3>14, <3>20 DEF n
      <4>3. CASE k # 1
        <5>1. k - 1 \in DOMAIN path /\ path'[k] = path[k - 1]
          BY <4>1, <4>3, <3>14
        <5> QED BY <5>1, <3>20, <1>1 DEF Walked
      <4> QED BY <4>2, <4>3
    <3> QED BY <3>1, <3>14, <3>18, <3>19, <3>20, <1>3 DEF Walked
  <2> QED BY <2>1, <2>2, <2>3
<1> QED BY <1>3, <1>6, <1>7, <1>8, <1>9, <1>10 DEF IInv

LEMMA InvStep == IInv /\ [Next]_vars => IInv'
<1> SUFFICES ASSUME IInv, [Next]_vars PROVE IInv'
  OBVIOUS
<1>1. CASE BuildText \/ ReturnEmpty \/ StartBestPath
  BY <1>1, StartStep
<1>2. CASE \/ SkipPosition \/ LookUp \/ DropWord \/ EndWords \/ CallProvider \/ NextProvider
           \/ EndProviders \/ NextPosition \/ CallLastProvider \/ FailNoWord
  BY <1>2, LoopStep
<1>3. CASE InsertWord
  BY <1>3, InsertWordStep
<1>4. CASE InsertOov
  BY <1>4, InsertOovStep
<1>5. CASE ConnectEOS \/ FailNoPath \/ Walk \/ Return \/ UNCHANGED vars
  BY <1>5, PathStep
<1> QED BY <1>1, <1>2, <1>3, <1>4, <1>5 DEF Next, Finished

LEMMA InvHolds == Spec => []IInv
<1> QED BY InvInit, InvStep, PTL DEF Spec

-----------------------------------------------------------------------------
(* Theorems                                                                 *)

LEMMA IsTyped == IInv => TypeOK
<1> SUFFICES ASSUME IInv PROVE TypeOK
  OBVIOUS
<1>1. Control /\ Queues /\ Walked
  BY DEF IInv
<1>2. TextTypeOK
  BY <1>1 DEF Control, TextInv, Indexed, TextTypes, IndexLengths, TextTypeOK
<1>3. CharLen \in Nat
  BY <1>1, LenProperties DEF Control, TextInv, Indexed, TextTypes, CharLen
<1>4. ends = <<>> \/ ends \in [0 .. CharLen -> Seq(Entry)]
  BY <1>1 DEF Control, LatticeOK
<1>5. pc \in {"build", "visit", "words", "provide", "insert", "fallback", "insertLast",
              "walk", "done", "noWord", "noPath"}
  BY <1>1 DEF Control, AtPosition
<1>6. found \in Seq([end : Nat, param : Params])
  <2>1. CASE pc = "words"
    <3>1. TextInv /\ Built /\ pos \in 0 .. CharLen - 1
      BY <2>1, <1>1, <1>3 DEF Control, AtPosition
    <3>2. found \in Seq(Hits(ByteOffset(pos)))
      BY <2>1, <1>1 DEF Queues
    <3>3. ASSUME NEW h \in Hits(ByteOffset(pos)) PROVE h \in [end : Nat, param : Params]
      <4>1. h.param \in Params /\ h.end \in ByteOffset(pos) + 1 .. ByteLen
        BY <3>1, HitsAre
      <4>2. ByteOffset(pos) \in Nat /\ ByteLen \in Nat
        BY <3>1, OffsetsAscend
      <4>3. h = [end |-> h.end, param |-> h.param]
        BY DEF Hits
      <4>4. h.end \in Nat
        BY <4>1, <4>2
      <4> QED BY <4>1, <4>3, <4>4
    <3> QED BY <3>2, <3>3, SeqOfMore
  <2>2. CASE pc # "words"
    BY <2>2, <1>1 DEF Queues
  <2> QED BY <2>1, <2>2
<1>7. oovs \in Seq(Node)
  <2>1. oovs = <<>> \/ oovs \in Seq(OovsAt(pos))
    BY <1>1 DEF Queues
  <2>2. OovsAt(pos) \subseteq Node
    BY DEF OovsAt
  <2>3. <<>> \in Seq(Node)
    OBVIOUS
  <2>4. CASE oovs \in Seq(OovsAt(pos))
    BY <2>2, <2>4, SeqOfMore
  <2> QED BY <2>1, <2>3, <2>4
<1> QED BY <1>1, <1>2, <1>4, <1>5, <1>6, <1>7 DEF TypeOK, Control, Walked

\* Every variable of Tokenize keeps its type, whatever the text, the dictionary's
\* words, the providers, their definitions and the costs: among the rest, that
\* every entry a node is connected to is an index of the list it is looked up in.
THEOREM TypeCorrect == Spec => []TypeOK
<1> QED BY InvHolds, IsTyped, PTL

\* The lattice is only ever extended behind the position of the loop, so a node
\* that is connected when it is inserted is connected to the best of all nodes
\* that will ever end where it begins (tokenizer.go:93, lattice.go:36).
THEOREM SpecNoLateArrival == Spec => NoLateArrival
<1>1. ASSUME IInv, [Next]_vars PROVE ends # <<>> => \A p \in 0 .. pos : ends'[p] = ends[p]
  <2>1. SUFFICES ASSUME ends # <<>>, NEW p \in 0 .. pos, ends' # ends PROVE ends'[p] = ends[p]
    OBVIOUS
  <2>2. /\ LatticeOK /\ pos \in 0 .. CharLen /\ CharLen \in Nat /\ pc # "build"
        /\ ends \in [0 .. CharLen -> Seq(Entry)]
    BY <1>1, <2>1 DEF IInv, Control, LatticeOK
  <2>3. InsertWord \/ InsertOov
    BY <1>1, <2>1, <2>2
       DEF Next, vars, Finished, BuildText, ReturnEmpty, StartBestPath, SkipPosition, LookUp,
           DropWord, EndWords, CallProvider, NextProvider, EndProviders, NextPosition,
           CallLastProvider, FailNoWord,
           ConnectEOS, FailNoPath, Walk, Return
  <2>4. PICK n : Insert(n) /\ n.end \in pos + 1 .. CharLen
    <3>1. CASE InsertWord
      <4>1. \A n : n = WordNode(Head(found)) => n.end \in pos + 1 .. CharLen
        BY <3>1, <1>1, WordIs
      <4> QED BY <4>1, <3>1 DEF InsertWord
    <3>2. CASE InsertOov
      <4>1. \A n : n = Head(oovs) => n.end \in pos + 1 .. CharLen
        BY <3>2, <1>1, OovIs
      <4> QED BY <4>1, <3>2 DEF InsertOov
    <3> QED BY <2>3, <3>1, <3>2
  <2>5. p # n.end /\ p \in 0 .. CharLen
    BY <2>2, <2>4
  <2> QED BY <2>2, <2>4, <2>5 DEF Insert
<1>2. IInv /\ [Next]_vars => [ends # <<>> => \A p \in 0 .. pos : ends'[p] = ends[p]]_vars
  BY <1>1
<1> QED BY <1>2, InvHolds, PTL DEF Spec, NoLateArrival

LEMMA Accounted == IInv => EntriesAccountFor
<1> SUFFICES ASSUME IInv, ends # <<>>, NEW p \in 1 .. CharLen, NEW i \in DOMAIN ends[p]
             PROVE  LET e == ends[p][i]
                        b == ends[e.node.begin]
                    IN  /\ e.node.end = p /\ e.node.begin < p
                        /\ e.total # Unreachable =>
                              /\ e.prev \in DOMAIN b
                              /\ b[e.prev].node.end = e.node.begin
                              /\ b[e.prev].total # Unreachable
                              /\ e.total = Wrap(b[e.prev].total
                                                + conn[<<b[e.prev].node.right, e.node.left>>]
                                                + e.node.cost)
  BY DEF EntriesAccountFor
<1> DEFINE e == ends[p][i]
           n == e.node
           b == ends[n.begin]
<1>1. /\ LatticeOK /\ CharLen \in Nat /\ ends \in [0 .. CharLen -> Seq(Entry)] /\ ends[0] = <<BOS>>
      /\ Entries
  BY DEF IInv, Control, LatticeOK
<1>2. e \in Entry
  <2>1. ends[p] \in Seq(Entry)
    BY <1>1
  <2> QED BY <2>1, ElementOfSeq
<1>3. n \in Node /\ n.end = p /\ n.begin < p /\ e = EntryFor(n)
  BY <1>1, <1>2 DEF Entry, Entries
<1> HIDE DEF e
<1>4. n.begin \in 0 .. CharLen
  BY <1>1, <1>3 DEF Node
<1>5. Connected(b, n.left, n.cost, EntryFor(n).total, EntryFor(n).prev)
  BY <1>1, <1>3, <1>4, EntryForIs
<1>6. Connected(b, n.left, n.cost, e.total, e.prev)
  <2>1. EntryFor(n).total = e.total /\ EntryFor(n).prev = e.prev
    BY <1>3
  <2> QED BY <2>1, <1>5
<1> HIDE DEF n
<1>7. ASSUME e.total # Unreachable
      PROVE  /\ e.prev \in DOMAIN b /\ b[e.prev].total # Unreachable
             /\ e.total = Wrap(b[e.prev].total + conn[<<b[e.prev].node.right, n.left>>] + n.cost)
             /\ b[e.prev].node.end = n.begin
  <2>1. /\ e.prev \in DOMAIN b /\ b[e.prev].total # Unreachable
        /\ e.total = CostAfter(b, e.prev, n.left, n.cost)
    BY <1>6, <1>7 DEF Connected
  <2>2. b[e.prev].node.end = n.begin
    <3>1. CASE n.begin = 0
      <4>1. b = <<BOS>>
        BY <3>1, <1>1
      <4>2. e.prev = 1
        BY <4>1, <2>1
      <4> QED BY <4>1, <4>2, <3>1 DEF BOS
    <3>2. CASE n.begin # 0
      <4>1. n.begin \in 1 .. CharLen
        BY <3>2, <1>4
      <4> QED BY <4>1, <2>1, <1>1 DEF Entries
    <3> QED BY <3>1, <3>2
  <2> QED BY <2>1, <2>2 DEF CostAfter
<1> QED BY <1>3, <1>7 DEF n, e

\* What a reachable entry costs is the cost of its predecessor, the connection and
\* the word, in the arithmetic of the code, and the predecessor is reachable and
\* ends where the word begins, whatever the matrix and the costs, those that wrap
\* around included (lattice.go:38-66).
THEOREM SpecEntriesAccountFor == Spec => []EntriesAccountFor
<1> QED BY InvHolds, Accounted, PTL

\* No candidate ends where no word may, the word of Simple stands alone, and where
\* no unknown word may begin one does only for lack of any other
\* (tokenizer.go:104-147, oov.go:66).
THEOREM SpecCandidatesAllowed == Spec => []CandidatesAllowed
<1>1. IInv => CandidatesAllowed
  BY DEF IInv
<1> QED BY <1>1, InvHolds, PTL

\* A path has no unknown word where the same word of the dictionary, at the same
\* cost, was a candidate: the words of the dictionary are inserted first, and of
\* equal costs connect takes the first (lattice.go:52).
THEOREM SpecDictionaryWordPreferred == Spec => []DictionaryWordPreferred
<1>1. IInv => DictionaryWordPreferred
  BY DEF IInv, Walked, DictionaryWordPreferred
<1> QED BY <1>1, InvHolds, PTL

-----------------------------------------------------------------------------
(* Sequences of words and what they cost, as PathCost and Tilings of the     *)
(* abstract specification make them up.                                      *)

\* The right id of the last word, that of BOS if there is none.
LastRight(t) == IF t = <<>> THEN 0 ELSE t[Len(t)].right

\* What word k of t adds to a cost of c.
Paying(t, k, c) ==
    c + t[k].cost + conn[<<IF k = 1 THEN 0 ELSE t[k - 1].right, t[k].left>>]
SpentIs(t, n, f) == f = [k \in 0 .. n |-> IF k = 0 THEN 0 ELSE Paying(t, k, f[k - 1])]

\* The cost of t without its connection to EOS.
Spent(t) == (CHOOSE f : SpentIs(t, Len(t), f))[Len(t)]

LEMMA SpentDefined ==
    ASSUME NEW t, NEW n \in Nat
    PROVE  \E f : SpentIs(t, n, f)
<1> DEFINE S == {m \in Nat : ~\E f : SpentIs(t, m, f)}
<1>1. SUFFICES ASSUME S # {} PROVE FALSE
  OBVIOUS
<1>2. PICK m \in S : \A k \in S : m <= k
  <2>1. S \in SUBSET Nat
    OBVIOUS
  <2> HIDE DEF S
  <2> QED BY <1>1, <2>1, Least
<1>3. m \in Nat
  OBVIOUS
<1>4. CASE m = 0
  <2> DEFINE g == [k \in 0 .. 0 |-> 0]
  <2>1. g = [k \in 0 .. 0 |-> IF k = 0 THEN 0 ELSE Paying(t, k, g[k - 1])]
    OBVIOUS
  <2>2. SpentIs(t, 0, g)
    BY <2>1 DEF SpentIs
  <2> QED BY <2>2, <1>2, <1>4
<1>5. CASE m # 0
  <2>1. m - 1 \in Nat /\ m - 1 \notin S
    <3> HIDE DEF S
    <3> QED BY <1>2, <1>3, <1>5
  <2>2. PICK f : SpentIs(t, m - 1, f)
    BY <2>1
  <2> DEFINE last == Paying(t, m, f[m - 1])
             g == [k \in 0 .. m |-> IF k = m THEN last ELSE f[k]]
  <2>3. ASSUME NEW k \in 0 .. m
        PROVE  g[k] = IF k = 0 THEN 0 ELSE Paying(t, k, g[k - 1])
    <3>1. CASE k = m
      <4>1. k - 1 \in 0 .. m /\ k - 1 # m
        BY <3>1, <1>3, <1>5
      <4> QED BY <3>1, <4>1, <1>5
    <3>2. CASE k # m
      <4>1. k \in 0 .. m - 1 /\ (k # 0 => k - 1 \in 0 .. m /\ k - 1 # m)
        BY <3>2, <1>3
      <4>2. f[k] = IF k = 0 THEN 0 ELSE Paying(t, k, f[k - 1])
        BY <2>2, <4>1 DEF SpentIs
      <4> QED BY <3>2, <4>1, <4>2
    <3> QED BY <3>1, <3>2
  <2>4. SpentIs(t, m, g)
    <3> HIDE DEF last
    <3>1. g = [k \in 0 .. m |-> g[k]]
      OBVIOUS
    <3> HIDE DEF g
    <3> QED BY <2>3, <3>1 DEF SpentIs
  <2> QED BY <2>4, <1>2
<1> QED BY <1>4, <1>5

\* What a tiling costs is what was spent and the connection to EOS.
LEMMA PathCostIs ==
    ASSUME NEW t
    PROVE  Abstract!PathCost(t) = Spent(t) + conn[<<LastRight(t), 0>>]
BY DEF Abstract!PathCost, Spent, SpentIs, Paying, LastRight

LEMMA SpentOnNothing == Spent(<<>>) = 0
<1> DEFINE f == CHOOSE g : SpentIs(<<>>, 0, g)
<1>1. SpentIs(<<>>, 0, f)
  BY 0 \in Nat, SpentDefined
<1>2. Len(<<>>) = 0
  OBVIOUS
<1> HIDE DEF f
<1>3. f[0] = 0
  BY <1>1 DEF SpentIs
<1> QED BY <1>2, <1>3 DEF Spent, f

\* One word more costs what the word and its connection do.
LEMMA SpentOnMore ==
    ASSUME NEW s \in Seq(Node), NEW n \in Node
    PROVE  Spent(Append(s, n)) = Spent(s) + n.cost + conn[<<LastRight(s), n.left>>]
<1> DEFINE t == Append(s, n)
           m == Len(s)
           fs == CHOOSE g : SpentIs(s, m, g)
           ft == CHOOSE g : SpentIs(t, m + 1, g)
<1>1. m \in Nat
  BY LenProperties
<1>2. t \in Seq(Node) /\ Len(t) = m + 1 /\ t[m + 1] = n /\ \A k \in 1 .. m : t[k] = s[k]
  BY AppendProperties
<1> HIDE DEF t
<1>3. SpentIs(s, m, fs) /\ SpentIs(t, m + 1, ft)
  <2>1. m + 1 \in Nat
    BY <1>1
  <2>2. (\E g : SpentIs(s, m, g)) /\ \E g : SpentIs(t, m + 1, g)
    BY <1>1, <2>1, SpentDefined
  <2> QED BY <2>2
<1>4. Spent(s) = fs[m] /\ Spent(t) = ft[m + 1]
  BY <1>2 DEF Spent
<1> HIDE DEF fs, ft
<1>5. ASSUME NEW k \in 0 .. m PROVE fs[k] = ft[k]
  <2> DEFINE S == {j \in 0 .. m : fs[j] # ft[j]}
  <2>1. SUFFICES ASSUME S # {} PROVE FALSE
    OBVIOUS
  <2>2. PICK j \in S : \A i \in S : j <= i
    <3>1. S \in SUBSET Nat
      BY <1>1
    <3> HIDE DEF S
    <3> QED BY <2>1, <3>1, Least
  <2>3. j \in 0 .. m /\ j \in 0 .. m + 1 /\ fs[j] # ft[j]
    BY <1>1
  <2>4. /\ fs[j] = IF j = 0 THEN 0 ELSE Paying(s, j, fs[j - 1])
        /\ ft[j] = IF j = 0 THEN 0 ELSE Paying(t, j, ft[j - 1])
    BY <1>3, <2>3 DEF SpentIs
  <2>5. j # 0 => /\ j - 1 \in 0 .. m /\ j - 1 \notin S
                 /\ t[j] = s[j] /\ (j # 1 => t[j - 1] = s[j - 1])
    <3>1. j # 0 => j - 1 \in 0 .. m /\ ~(j <= j - 1) /\ j \in 1 .. m /\ (j # 1 => j - 1 \in 1 .. m)
      BY <1>1, <2>3
    <3> HIDE DEF S
    <3> QED BY <2>2, <3>1, <1>2
  <2> QED BY <2>3, <2>4, <2>5 DEF Paying
<1>6. ft[m + 1] = Paying(t, m + 1, ft[m])
  <2>1. m + 1 \in 0 .. m + 1 /\ m + 1 # 0 /\ m + 1 - 1 = m
    BY <1>1
  <2>2. \A k \in 0 .. m + 1 : ft[k] = IF k = 0 THEN 0 ELSE Paying(t, k, ft[k - 1])
    BY <1>3 DEF SpentIs
  <2> QED BY <2>1, <2>2
<1>7. (IF m + 1 = 1 THEN 0 ELSE t[m + 1 - 1].right) = LastRight(s)
  <2>1. m = 0 <=> s = <<>>
    BY EmptySeq
  <2>2. m # 0 => t[m + 1 - 1] = s[m]
    BY <1>1, <1>2
  <2> QED BY <1>1, <2>1, <2>2 DEF LastRight
<1>8. fs[m] = ft[m]
  BY <1>1, <1>5
<1> QED BY <1>2, <1>4, <1>6, <1>7, <1>8 DEF Paying, t

\* Tilings up to p of those up to where its last words begin.
Behind(f, p) ==
    UNION {{Append(t, n) : t \in f[n.begin]} : n \in {m \in Inserted : m.end = p /\ m.begin < p}}
UpToIs(f, n) == f = [p \in 0 .. n |-> IF p = 0 THEN {<<>>} ELSE Behind(f, p)]
UpTo == CHOOSE f : UpToIs(f, CharLen)

LEMMA BehindIs ==
    ASSUME NEW f, NEW p, NEW t
    PROVE  t \in Behind(f, p) <=>
               \E n \in Inserted : /\ n.end = p /\ n.begin < p
                                   /\ \E s \in f[n.begin] : t = Append(s, n)
BY DEF Behind

LEMMA UpToDefined ==
    ASSUME NEW n \in Nat, Inserted \subseteq Node
    PROVE  \E f : UpToIs(f, n)
<1> DEFINE S == {m \in Nat : ~\E f : UpToIs(f, m)}
<1>1. SUFFICES ASSUME S # {} PROVE FALSE
  OBVIOUS
<1>2. PICK m \in S : \A k \in S : m <= k
  <2>1. S \in SUBSET Nat
    OBVIOUS
  <2> HIDE DEF S
  <2> QED BY <1>1, <2>1, Least
<1>3. m \in Nat
  OBVIOUS
<1>4. CASE m = 0
  <2> DEFINE g == [p \in 0 .. 0 |-> {<<>>}]
  <2>1. g = [p \in 0 .. 0 |-> IF p = 0 THEN {<<>>} ELSE Behind(g, p)]
    OBVIOUS
  <2>2. UpToIs(g, 0)
    BY <2>1 DEF UpToIs
  <2> QED BY <2>2, <1>2, <1>4
<1>5. CASE m # 0
  <2>1. m - 1 \in Nat /\ m - 1 \notin S
    <3> HIDE DEF S
    <3> QED BY <1>2, <1>3, <1>5
  <2>2. PICK f : UpToIs(f, m - 1)
    BY <2>1
  <2> DEFINE last == Behind(f, m)
             g == [p \in 0 .. m |-> IF p = m THEN last ELSE f[p]]
  <2>3. ASSUME NEW p \in 0 .. m PROVE Behind(g, p) = Behind(f, p)
    <3>1. ASSUME NEW k \in Nat, k < p PROVE g[k] = f[k]
      <4>1. k \in 0 .. m /\ k # m
        BY <3>1, <1>3
      <4> QED BY <4>1
    <3>2. ASSUME NEW x \in Inserted, x.begin < p PROVE g[x.begin] = f[x.begin]
      <4>1. x.begin \in Nat
        BY DEF Node
      <4> HIDE DEF g
      <4> QED BY <3>1, <3>2, <4>1
    <3> HIDE DEF g
    <3>3. ASSUME NEW t PROVE t \in Behind(g, p) <=> t \in Behind(f, p)
      BY <3>2, BehindIs
    <3>4. \A t \in Behind(g, p) : t \in Behind(f, p)
      BY <3>3
    <3>5. \A t \in Behind(f, p) : t \in Behind(g, p)
      BY <3>3
    <3> QED BY <3>4, <3>5
  <2>4. ASSUME NEW p \in 0 .. m
        PROVE  g[p] = IF p = 0 THEN {<<>>} ELSE Behind(g, p)
    <3>1. CASE p = m
      BY <3>1, <2>3, <1>5
    <3>2. CASE p # m
      <4>1. p \in 0 .. m - 1
        BY <3>2, <1>3
      <4>2. f[p] = IF p = 0 THEN {<<>>} ELSE Behind(f, p)
        BY <2>2, <4>1 DEF UpToIs
      <4>3. g[p] = f[p]
        BY <3>2
      <4> HIDE DEF g
      <4> QED BY <2>3, <4>2, <4>3
    <3> QED BY <3>1, <3>2
  <2>5. UpToIs(g, m)
    <3> HIDE DEF last
    <3>1. g = [p \in 0 .. m |-> g[p]]
      OBVIOUS
    <3> HIDE DEF g
    <3> QED BY <2>4, <3>1 DEF UpToIs
  <2> QED BY <2>5, <1>2
<1> QED BY <1>4, <1>5

\* The tilings of the abstract specification are those up to the end.
LEMMA UpToAre ==
    ASSUME CharLen \in Nat, Inserted \subseteq Node
    PROVE  /\ Abstract!Tilings = UpTo[CharLen]
           /\ UpTo[0] = {<<>>}
           /\ \A p \in 1 .. CharLen : \A t : t \in UpTo[p] <=>
                  \E n \in Inserted : /\ n.end = p /\ n.begin < p
                                      /\ \E s \in UpTo[n.begin] : t = Append(s, n)
<1>1. UpToIs(UpTo, CharLen)
  BY UpToDefined DEF UpTo
<1>2. Abstract!Tilings = UpTo[CharLen]
  BY DEF Abstract!Tilings, UpTo, UpToIs, Behind
<1>3. \A p \in 0 .. CharLen : UpTo[p] = IF p = 0 THEN {<<>>} ELSE Behind(UpTo, p)
  BY <1>1 DEF UpToIs
<1>4. UpTo[0] = {<<>>}
  BY <1>3
<1>5. \A p \in 1 .. CharLen : UpTo[p] = Behind(UpTo, p)
  BY <1>3
<1> QED BY <1>2, <1>4, <1>5, BehindIs

\* They are made of words.
LEMMA UpToNodes ==
    ASSUME CharLen \in Nat, Inserted \subseteq Node, NEW p \in 0 .. CharLen
    PROVE  UpTo[p] \subseteq Seq(Node)
<1> DEFINE S == {q \in 0 .. CharLen : ~(UpTo[q] \subseteq Seq(Node))}
<1>1. SUFFICES ASSUME S # {} PROVE FALSE
  OBVIOUS
<1>2. PICK q \in S : \A k \in S : q <= k
  <2>1. S \in SUBSET Nat
    OBVIOUS
  <2> HIDE DEF S
  <2> QED BY <1>1, <2>1, Least
<1>3. q \in 0 .. CharLen /\ ~(UpTo[q] \subseteq Seq(Node))
  OBVIOUS
<1>4. PICK t \in UpTo[q] : t \notin Seq(Node)
  BY <1>3
<1>5. CASE q = 0
  <2>1. t = <<>>
    BY <1>4, <1>5, UpToAre
  <2> QED BY <1>4, <2>1
<1>6. CASE q # 0
  <2>1. q \in 1 .. CharLen
    BY <1>3, <1>6
  <2>2. PICK n \in Inserted : /\ n.end = q /\ n.begin < q
                              /\ \E s \in UpTo[n.begin] : t = Append(s, n)
    BY <1>4, <2>1, UpToAre
  <2>3. n \in Node /\ n.begin \in 0 .. CharLen /\ n.begin \notin S
    <3>1. n \in Node /\ n.begin \in Nat /\ ~(q <= n.begin)
      BY <2>1, <2>2 DEF Node
    <3>2. n.begin \in 0 .. CharLen
      BY <2>1, <2>2, <3>1
    <3> HIDE DEF S
    <3> QED BY <1>2, <3>1, <3>2
  <2>4. UpTo[n.begin] \subseteq Seq(Node)
    BY <2>3
  <2> QED BY <1>4, <2>2, <2>3, <2>4, AppendProperties
<1> QED BY <1>5, <1>6

-----------------------------------------------------------------------------
(* Costs that fit                                                           *)

\* No cost of a word or of a connection is beyond W, and no text is so long that
\* such costs add up to what stands for unreachable.
CostsFit(W) ==
    /\ \A p \in Params \cup {SimpleParam} : p.cost \in -W .. W
    /\ \A c \in DOMAIN Candidates : \A k \in DOMAIN Candidates[c] :
          Candidates[c][k].cost \in -W .. W
    /\ \A m \in Matrices : \A x \in ContextIds \X ContextIds : m[x] \in -W .. W
    /\ \A t \in Texts : 2 * W * Len(t) + W < MaxCost

\* What a total at position p cannot exceed.
Most(W, p) == 2 * W * p

\* Words cost no more than W and begin where something ends.
Priced(W) ==
    /\ chars \in Texts
    /\ \A n \in Inserted : n.cost \in -W .. W /\ ends[n.begin] # <<>>
    /\ \A k \in DOMAIN oovs : oovs[k].cost \in -W .. W
    /\ pc \in AtPosition => ends[pos] # <<>>

LEMMA MostGrows ==
    ASSUME NEW W \in Nat, NEW p \in Nat, NEW b \in Nat, b < p
    PROVE  Most(W, b) \in Nat /\ Most(W, p) \in Nat /\ Most(W, b) + 2 * W <= Most(W, p)
<1>1. PICK d \in Nat : p = b + 1 + d
  <2>1. p - b - 1 \in Nat /\ p = b + 1 + (p - b - 1)
    OBVIOUS
  <2> QED BY <2>1
<1>2. 2 * W \in Nat
  OBVIOUS
<1> DEFINE k == 2 * W
<1>3. k * (b + 1 + d) = k * b + k + k * d /\ k * b \in Nat /\ k * d \in Nat
  <2> HIDE DEF k
  <2> QED BY <1>2 DEF k
<1> QED BY <1>1, <1>2, <1>3 DEF Most

LEMMA NoWrap ==
    ASSUME NEW x \in Int, -MaxCost <= x, x < MaxCost
    PROVE  Wrap(x) = x
<1> DEFINE m == 2 * (MaxCost + 1)
           y == x + MaxCost + 1
<1>1. MaxCost \in Nat
  BY LatticeAssumption
<1>2. m \in Nat \ {0} /\ y \in Nat /\ y < m
  BY <1>1
<1>3. y % m = y
  <2> HIDE DEF m, y
  <2> QED BY <1>2
<1>4. Wrap(x) = (y % m) - (MaxCost + 1)
  BY DEF Wrap
<1> HIDE DEF m
<1> QED BY <1>1, <1>3, <1>4

\* Room for a connection to one of es: their totals are at most B, the cost that
\* is added at most C.
Room(W, es, B, l, c, C) ==
    /\ B \in Nat /\ C \in Nat /\ B + W + C < MaxCost
    /\ es \in Seq(Entry) /\ es # <<>> /\ \A i \in DOMAIN es : es[i].total \in -B .. B
    /\ l \in ContextIds /\ c \in -C .. C

\* There the costs are what they are, all entries are usable, and none is cheaper
\* than the one chosen.
LEMMA ConnectBest ==
    ASSUME NEW W \in Nat, CostsFit(W), conn \in Matrices,
           NEW es, NEW B, NEW l, NEW c, NEW C, Room(W, es, B, l, c, C),
           NEW k, k = Connect(es, l, c)
    PROVE  /\ k.prev \in DOMAIN es /\ k.total # Unreachable
           /\ k.total \in -(B + W + C) .. B + W + C
           /\ k.total = es[k.prev].total + conn[<<es[k.prev].node.right, l>>] + c
           /\ \A j \in DOMAIN es :
                 k.total <= es[j].total + conn[<<es[j].node.right, l>>] + c
<1> DEFINE Joint(i) == conn[<<es[i].node.right, l>>]
           Plain(i) == es[i].total + Joint(i) + c
<1>1. MaxCost \in Nat /\ c \in Int
  BY LatticeAssumption DEF Room
<1> USE DEF Room
<1>2. ASSUME NEW i \in DOMAIN es
      PROVE  /\ Plain(i) \in Int /\ -(B + W + C) <= Plain(i) /\ Plain(i) <= B + W + C
             /\ CostAfter(es, i, l, c) = Plain(i)
  <2>1. es[i] \in Entry
    BY ElementOfSeq
  <2>2. <<es[i].node.right, l>> \in ContextIds \X ContextIds
    BY <2>1 DEF Entry, Node
  <2>3. Joint(i) \in -W .. W
    BY <2>2 DEF CostsFit
  <2>4. es[i].total \in -B .. B
    OBVIOUS
  <2> HIDE DEF Joint
  <2>5. Plain(i) \in Int /\ -(B + W + C) <= Plain(i) /\ Plain(i) <= B + W + C
    BY <2>3, <2>4
  <2>6. -MaxCost <= Plain(i) /\ Plain(i) < MaxCost
    <3> HIDE DEF Plain
    <3> QED BY <2>5, <1>1
  <2>7. Wrap(Plain(i)) = Plain(i)
    <3> HIDE DEF Plain
    <3> QED BY <2>5, <2>6, NoWrap
  <2>8. CostAfter(es, i, l, c) = Wrap(Plain(i))
    BY DEF CostAfter, Joint
  <2> QED BY <2>5, <2>7, <2>8
<1> HIDE DEF Plain
<1>3. Usable(es, l, c) = DOMAIN es
  <2>1. ASSUME NEW i \in DOMAIN es
        PROVE  es[i].total # Unreachable /\ CostAfter(es, i, l, c) < Unreachable
    <3>1. es[i].total \in -B .. B /\ B < MaxCost
      BY <1>1
    <3>2. Plain(i) < MaxCost
      BY <1>1, <1>2
    <3> QED BY <3>1, <3>2, <1>1, <1>2 DEF Unreachable
  <2> QED BY <2>1 DEF Usable
<1>4. Usable(es, l, c) # {}
  <2>1. 1 \in DOMAIN es
    OBVIOUS
  <2> QED BY <2>1, <1>3
<1> DEFINE i == Cheapest(es, l, c)
<1>5. i \in DOMAIN es /\ \A j \in DOMAIN es : CostAfter(es, i, l, c) <= CostAfter(es, j, l, c)
  <2>1. /\ i \in Usable(es, l, c)
        /\ \A j \in Usable(es, l, c) :
              \/ CostAfter(es, i, l, c) < CostAfter(es, j, l, c)
              \/ CostAfter(es, i, l, c) = CostAfter(es, j, l, c) /\ i <= j
    BY <1>1, <1>4, CheapestIs
  <2> HIDE DEF i
  <2>2. i \in DOMAIN es
    BY <2>1, <1>3
  <2>3. ASSUME NEW j \in DOMAIN es PROVE CostAfter(es, i, l, c) <= CostAfter(es, j, l, c)
    <3>1. CostAfter(es, i, l, c) \in Int /\ CostAfter(es, j, l, c) \in Int
      BY <2>2, <1>2
    <3>2. \/ CostAfter(es, i, l, c) < CostAfter(es, j, l, c)
          \/ CostAfter(es, i, l, c) = CostAfter(es, j, l, c)
      BY <2>1, <1>3
    <3> QED BY <3>1, <3>2
  <2> QED BY <2>2, <2>3
<1>6. k = [total |-> CostAfter(es, i, l, c), prev |-> i]
  BY <1>4 DEF Connect
<1> HIDE DEF i
<1>7. k.total = Plain(i) /\ k.prev = i
  BY <1>2, <1>5, <1>6
<1>8. k.total \in -(B + W + C) .. B + W + C /\ k.total # Unreachable
  <2>1. /\ Plain(i) \in Int /\ -(B + W + C) <= Plain(i) /\ Plain(i) <= B + W + C
        /\ B + W + C \in Nat
    BY <1>2, <1>5
  <2> QED BY <2>1, <1>1, <1>7 DEF Unreachable
<1>9. \A j \in DOMAIN es : k.total <= Plain(j)
  BY <1>2, <1>5, <1>7
<1> QED BY <1>5, <1>7, <1>8, <1>9 DEF Plain, Joint

LEMMA MostFits ==
    ASSUME NEW W \in Nat, CostsFit(W), chars \in Texts, CharLen \in Nat, NEW p \in 0 .. CharLen
    PROVE  Most(W, p) \in Nat /\ Most(W, p) + W < MaxCost /\ MaxCost \in Nat
<1>1. Most(W, CharLen) + W < MaxCost
  BY DEF CostsFit, Most, CharLen
<1>2. CASE p = CharLen
  <2>1. Most(W, CharLen) \in Nat
    <3>1. 2 * W \in Nat
      OBVIOUS
    <3> DEFINE k == 2 * W
    <3>2. k * CharLen \in Nat
      <4> HIDE DEF k
      <4> QED BY <3>1 DEF k
    <3> QED BY <3>2 DEF Most
  <2> QED BY <2>1, <1>1, <1>2, LatticeAssumption
<1>3. CASE p # CharLen
  <2>1. p \in Nat /\ p < CharLen
    BY <1>3
  <2>2. /\ Most(W, p) \in Nat /\ Most(W, CharLen) \in Nat
        /\ Most(W, p) + 2 * W <= Most(W, CharLen)
    BY <2>1, MostGrows
  <2> QED BY <2>2, <1>1, LatticeAssumption
<1> QED BY <1>2, <1>3

\* What the totals of one position may be.
FitsIn(W, p) == \A i \in DOMAIN ends[p] : ends[p][i].total \in -Most(W, p) .. Most(W, p)

\* That an entry is what its node makes of the cheapest entry before it.
Best(e) ==
    LET n == e.node
        b == ends[n.begin]
        joint(j) == conn[<<b[j].node.right, n.left>>]
    IN  /\ e.prev \in DOMAIN b
        /\ e.total = b[e.prev].total + joint(e.prev) + n.cost
        /\ \A j \in DOMAIN b : e.total <= b[j].total + joint(j) + n.cost

\* An entry of p is the node of one that was inserted.
LEMMA EntryOf ==
    ASSUME LatticeOK, Entries, ends # <<>>, NEW p \in 1 .. CharLen, NEW i \in DOMAIN ends[p],
           NEW e, e = ends[p][i]
    PROVE  /\ e \in Entry /\ e = EntryFor(e.node) /\ e.node \in Inserted /\ e.node \in Node
           /\ e.node.end = p /\ e.node.begin \in 0 .. CharLen /\ e.node.begin < p
<1>1. CharLen \in Nat /\ ends \in [0 .. CharLen -> Seq(Entry)]
  BY DEF LatticeOK
<1>2. e \in Entry
  <2>1. ends[p] \in Seq(Entry)
    BY <1>1
  <2> QED BY <2>1, ElementOfSeq
<1>3. e.node \in Node /\ e.node.end = p /\ e.node.begin < p /\ e = EntryFor(e.node)
  BY <1>2 DEF Entry, Entries
<1>4. e.node \in Inserted
  BY <1>1, InsertedIs
<1>5. e.node.begin \in 0 .. CharLen
  BY <1>1, <1>3 DEF Node
<1> QED BY <1>2, <1>3, <1>4, <1>5

LEMMA EntryFits ==
    ASSUME NEW W \in Nat, CostsFit(W), Priced(W), LatticeOK, Entries, ends # <<>>,
           NEW p \in 1 .. CharLen, NEW i \in DOMAIN ends[p], NEW e, e = ends[p][i],
           FitsIn(W, e.node.begin)
    PROVE  Best(e) /\ e.total \in -Most(W, p) .. Most(W, p)
<1> DEFINE n == e.node
           b == ends[n.begin]
           B == Most(W, n.begin)
<1>1. /\ e = EntryFor(n) /\ n \in Inserted /\ n \in Node
      /\ n.begin \in 0 .. CharLen /\ n.begin \in Nat /\ n.begin < p
  BY EntryOf
<1>2. CharLen \in Nat /\ ends \in [0 .. CharLen -> Seq(Entry)] /\ conn \in Matrices
  BY DEF LatticeOK
<1>3. b \in Seq(Entry) /\ b # <<>> /\ n.cost \in -W .. W
  BY <1>1, <1>2 DEF Priced
<1>4. B \in Nat /\ B + W + W <= Most(W, p) /\ B + W + W < MaxCost
  <2>1. B \in Nat /\ Most(W, p) \in Nat /\ B + 2 * W <= Most(W, p)
    <3>1. p \in Nat
      OBVIOUS
    <3> QED BY <1>1, <3>1, MostGrows
  <2>2. Most(W, p) + W < MaxCost /\ MaxCost \in Nat
    BY <1>2, MostFits DEF Priced
  <2> HIDE DEF B
  <2> QED BY <2>1, <2>2
<1>5. \A j \in DOMAIN b : b[j].total \in -B .. B
  BY DEF FitsIn
<1>6. n.left \in ContextIds
  BY <1>1 DEF Node
<1>12. PICK k : k = Connect(b, n.left, n.cost)
  OBVIOUS
<1>7. e = [node |-> n, total |-> k.total, prev |-> k.prev]
  BY <1>1, <1>12 DEF EntryFor
<1>8. /\ k.prev \in DOMAIN b
      /\ k.total \in -(B + W + W) .. B + W + W
      /\ k.total = b[k.prev].total + conn[<<b[k.prev].node.right, n.left>>] + n.cost
      /\ \A j \in DOMAIN b : k.total <= b[j].total + conn[<<b[j].node.right, n.left>>] + n.cost
  <2> HIDE DEF b, B, n
  <2>1. Room(W, b, B, n.left, n.cost, W)
    BY <1>3, <1>4, <1>5, <1>6 DEF Room
  <2> QED BY <1>2, <1>12, <2>1, ConnectBest
<1>9. e.total = k.total /\ e.prev = k.prev
  BY <1>7
<1>10. Best(e)
  BY <1>8, <1>9 DEF Best
<1>11. e.total \in -Most(W, p) .. Most(W, p)
  <2>1. Most(W, p) \in Nat
    <3>1. p \in Nat
      OBVIOUS
    <3> QED BY <1>1, <3>1, MostGrows
  <2> DEFINE M == Most(W, p)
             D == B + W + W
  <2>2. k.total \in -D .. D
    BY <1>8
  <2>4. D \in Nat /\ D <= M /\ M \in Nat
    <3> HIDE DEF B
    <3> QED BY <2>1, <1>4
  <2> HIDE DEF D, M
  <2>3. k.total \in -M .. M
    BY <2>2, <2>4
  <2> QED BY <2>3, <1>9 DEF M
<1> QED BY <1>10, <1>11

\* No total comes near what stands for unreachable.
LEMMA TotalsFit ==
    ASSUME NEW W \in Nat, CostsFit(W), Priced(W), LatticeOK, Entries, ends # <<>>
    PROVE  \A p \in 0 .. CharLen : FitsIn(W, p)
<1> DEFINE S == {p \in 0 .. CharLen : ~FitsIn(W, p)}
<1>1. SUFFICES ASSUME S # {} PROVE FALSE
  OBVIOUS
<1>2. CharLen \in Nat /\ ends[0] = <<BOS>>
  BY DEF LatticeOK
<1>3. PICK p \in S : \A k \in S : p <= k
  <2>1. S \in SUBSET Nat
    BY <1>2
  <2> HIDE DEF S
  <2> QED BY <1>1, <2>1, Least
<1>4. p \in 0 .. CharLen /\ ~FitsIn(W, p)
  OBVIOUS
<1>5. CASE p = 0
  <2>1. \A i \in DOMAIN ends[0] : ends[0][i].total = 0
    BY <1>2 DEF BOS
  <2>2. Most(W, 0) = 0
    BY DEF Most
  <2>3. FitsIn(W, 0)
    BY <2>1, <2>2 DEF FitsIn
  <2> QED BY <2>3, <1>4, <1>5
<1>6. CASE p # 0
  <2>1. p \in 1 .. CharLen
    BY <1>2, <1>4, <1>6
  <2>2. PICK i \in DOMAIN ends[p] : ends[p][i].total \notin -Most(W, p) .. Most(W, p)
    BY <1>4 DEF FitsIn
  <2>3. PICK e : e = ends[p][i]
    OBVIOUS
  <2>4. e.node.begin \in 0 .. CharLen /\ e.node.begin < p
    BY <2>1, <2>3, EntryOf
  <2>5. FitsIn(W, e.node.begin)
    <3>1. ~(p <= e.node.begin)
      BY <2>1, <2>4
    <3>2. e.node.begin \notin S
      <4> HIDE DEF S
      <4> QED BY <1>3, <3>1
    <3> QED BY <2>4, <3>2
  <2> QED BY <2>1, <2>2, <2>3, <2>5, EntryFits
<1> QED BY <1>5, <1>6

LEMMA EntryBest ==
    ASSUME NEW W \in Nat, CostsFit(W), Priced(W), LatticeOK, Entries, ends # <<>>,
           NEW p \in 1 .. CharLen, NEW i \in DOMAIN ends[p], NEW e, e = ends[p][i]
    PROVE  Best(e) /\ e.total \in Int
<1>1. e.node.begin \in 0 .. CharLen /\ e \in Entry
  BY EntryOf
<1>2. Best(e)
  BY <1>1, TotalsFit, EntryFits
<1> QED BY <1>1, <1>2 DEF Entry

\* The end of the text is connected to if anything ends there, at the least cost.
LEMMA EndBest ==
    ASSUME NEW W \in Nat, CostsFit(W), Priced(W), LatticeOK, Entries, ends # <<>>
    PROVE  LET b == ends[CharLen]
               joint(j) == conn[<<b[j].node.right, 0>>]
           IN  /\ EOS.total = Unreachable => b = <<>>
               /\ b # <<>> => /\ EOS.prev \in DOMAIN b /\ EOS.total \in Int
                              /\ EOS.total = b[EOS.prev].total + joint(EOS.prev)
                              /\ \A j \in DOMAIN b : EOS.total <= b[j].total + joint(j)
<1> DEFINE b == ends[CharLen]
           B == Most(W, CharLen)
           joint(j) == conn[<<b[j].node.right, 0>>]
<1>1. CharLen \in Nat /\ ends \in [0 .. CharLen -> Seq(Entry)] /\ conn \in Matrices
  BY DEF LatticeOK
<1>2. CharLen \in 0 .. CharLen /\ b \in Seq(Entry)
  BY <1>1
<1>3. B \in Nat /\ B + W < MaxCost
  BY <1>1, <1>2, MostFits DEF Priced
<1>4. \A j \in DOMAIN b : b[j].total \in -B .. B
  BY <1>2, TotalsFit DEF FitsIn
<1>5. 0 \in ContextIds /\ 0 \in -0 .. 0 /\ 0 \in Nat /\ B + W + 0 < MaxCost
  BY <1>3, LatticeAssumption
<1>6. ASSUME b # <<>>
      PROVE  /\ EOS.prev \in DOMAIN b /\ EOS.total # Unreachable
             /\ EOS.total \in -(B + W + 0) .. B + W + 0
             /\ EOS.total = b[EOS.prev].total + joint(EOS.prev) + 0
             /\ \A j \in DOMAIN b : EOS.total <= b[j].total + joint(j) + 0
  <2>1. PICK k : k = Connect(b, 0, 0) /\ k = EOS
    BY DEF EOS
  <2> HIDE DEF b, B
  <2>2. Room(W, b, B, 0, 0, 0)
    BY <1>2, <1>3, <1>4, <1>5, <1>6 DEF Room
  <2> QED BY <1>1, <2>1, <2>2, ConnectBest
<1>7. ASSUME NEW j \in DOMAIN b PROVE b[j].total \in Int /\ joint(j) \in Int
  <2>1. b[j] \in Entry
    BY <1>2, ElementOfSeq
  <2>2. <<b[j].node.right, 0>> \in ContextIds \X ContextIds
    BY <2>1, <1>5 DEF Entry, Node
  <2>3. joint(j) \in -W .. W
    BY <1>1, <2>2 DEF CostsFit
  <2>4. b[j].total \in Int
    BY <2>1 DEF Entry
  <2> QED BY <2>3, <2>4
<1> HIDE DEF b, B, joint
<1>8. b # <<>> => /\ EOS.prev \in DOMAIN b /\ EOS.total \in Int /\ EOS.total # Unreachable
                  /\ EOS.total = b[EOS.prev].total + joint(EOS.prev)
                  /\ \A j \in DOMAIN b : EOS.total <= b[j].total + joint(j)
  BY <1>3, <1>6, <1>7
<1> QED BY <1>8 DEF b, joint

\* No tiling up to p is cheaper than an entry of p that goes on as it does.
LEMMA NoneCheaper ==
    ASSUME NEW W \in Nat, CostsFit(W), Priced(W), LatticeOK, Entries, ends # <<>>,
           NEW p \in 0 .. CharLen, NEW t \in UpTo[p]
    PROVE  /\ Spent(t) \in Int /\ LastRight(t) \in ContextIds
           /\ \E i \in DOMAIN ends[p] : /\ ends[p][i].node.right = LastRight(t)
                                        /\ ends[p][i].total <= Spent(t)
<1> DEFINE Beaten(q, u) ==
               /\ Spent(u) \in Int /\ LastRight(u) \in ContextIds
               /\ \E i \in DOMAIN ends[q] : /\ ends[q][i].node.right = LastRight(u)
                                            /\ ends[q][i].total <= Spent(u)
           S == {q \in 0 .. CharLen : \E u \in UpTo[q] : ~Beaten(q, u)}
<1>1. SUFFICES ASSUME S # {} PROVE FALSE
  OBVIOUS
<1>2. CharLen \in Nat /\ ends[0] = <<BOS>> /\ ends \in [0 .. CharLen -> Seq(Entry)]
  BY DEF LatticeOK
<1>3. Inserted \subseteq Node
  <2>1. ASSUME NEW n \in Inserted PROVE n \in Node
    <3>1. PICK q \in 1 .. CharLen : \E i \in DOMAIN ends[q] : n = ends[q][i].node
      BY <1>2, InsertedIs
    <3> QED BY <3>1, EntryOf
  <2> QED BY <2>1
<1>4. PICK q \in S : \A k \in S : q <= k
  <2>1. S \in SUBSET Nat
    BY <1>2
  <2> HIDE DEF S
  <2> QED BY <1>1, <2>1, Least
<1>5. q \in 0 .. CharLen
  OBVIOUS
<1>6. PICK u \in UpTo[q] : ~Beaten(q, u)
  OBVIOUS
<1>7. CASE q = 0
  <2>1. u = <<>>
    BY <1>2, <1>3, <1>6, <1>7, UpToAre
  <2>2. Spent(u) = 0 /\ LastRight(u) = 0
    BY <2>1, SpentOnNothing DEF LastRight
  <2>3. 1 \in DOMAIN ends[0] /\ ends[0][1].node.right = 0 /\ ends[0][1].total = 0
    BY <1>2 DEF BOS
  <2> QED BY <2>2, <2>3, <1>6, <1>7, LatticeAssumption
<1>8. CASE q # 0
  <2>1. q \in 1 .. CharLen
    BY <1>2, <1>5, <1>8
  <2>2. PICK n \in Inserted : /\ n.end = q /\ n.begin < q
                              /\ \E s \in UpTo[n.begin] : u = Append(s, n)
    <3>1. u \in UpTo[q]
      BY <1>6
    <3> HIDE DEF Beaten, S
    <3>2. \E n \in Inserted : /\ n.end = q /\ n.begin < q
                             /\ \E s \in UpTo[n.begin] : u = Append(s, n)
      BY <1>2, <1>3, <2>1, <3>1, UpToAre
    <3> QED BY <3>2
  <2>3. PICK s \in UpTo[n.begin] : u = Append(s, n)
    BY <2>2
  <2>4. n \in Node /\ n.begin \in 0 .. CharLen /\ ~(q <= n.begin)
    <3>1. n \in Node /\ n.begin \in Nat
      BY <1>3 DEF Node
    <3> QED BY <3>1, <2>1, <2>2, <1>2
  <2>5. Beaten(n.begin, s)
    <3>1. n.begin \notin S
      <4> HIDE DEF S
      <4> QED BY <1>4, <2>4
    <3> HIDE DEF Beaten
    <3> QED BY <2>4, <3>1
  <2>6. s \in Seq(Node)
    BY <1>2, <1>3, <2>4, UpToNodes
  <2> DEFINE b == ends[n.begin]
             joint(r) == conn[<<r, n.left>>]
  <2>7. PICK j \in DOMAIN b : b[j].node.right = LastRight(s) /\ b[j].total <= Spent(s)
    BY <2>5
  <2>8. PICK k \in 1 .. CharLen : \E i \in DOMAIN ends[k] : n = ends[k][i].node
    BY <1>2, InsertedIs
  <2>9. PICK i \in DOMAIN ends[k] : n = ends[k][i].node
    BY <2>8
  <2>10. PICK e : e = ends[k][i]
    OBVIOUS
  <2>11. k = q /\ Best(e) /\ e.total \in Int
    BY <2>2, <2>9, <2>10, EntryOf, EntryBest
  <2>12. e.total <= b[j].total + joint(LastRight(s)) + n.cost
    BY <2>7, <2>9, <2>10, <2>11 DEF Best
  <2>13. Spent(u) = Spent(s) + n.cost + joint(LastRight(s)) /\ LastRight(u) = n.right
    <3>1. Spent(u) = Spent(s) + n.cost + joint(LastRight(s))
      BY <2>3, <2>4, <2>6, SpentOnMore
    <3>2. u # <<>> /\ u[Len(u)] = n
      BY <2>3, <2>4, <2>6, AppendProperties
    <3> QED BY <3>1, <3>2 DEF LastRight
  <2>14. b[j].total \in Int /\ joint(LastRight(s)) \in Int /\ n.cost \in Int /\ Spent(s) \in Int
    <3>1. b \in Seq(Entry)
      BY <1>2, <2>4
    <3>2. b[j] \in Entry
      BY <3>1, ElementOfSeq
    <3>3. <<LastRight(s), n.left>> \in ContextIds \X ContextIds
      BY <2>4, <2>5 DEF Node
    <3>4. joint(LastRight(s)) \in -W .. W
      BY <3>3 DEF CostsFit, LatticeOK
    <3>5. joint(LastRight(s)) \in Int
      BY <3>4
    <3> QED BY <3>2, <3>5, <2>4, <2>5 DEF Entry, Node
  <2> HIDE DEF joint
  <2>15. Spent(u) \in Int /\ e.total <= Spent(u)
    <3> DEFINE paid == Spent(s)
               before == b[j].total
               here == joint(LastRight(s))
               word == n.cost
               total == e.total
    <3>1. /\ paid \in Int /\ before \in Int /\ here \in Int /\ word \in Int /\ total \in Int
          /\ before <= paid /\ total <= before + here + word
      BY <2>7, <2>11, <2>12, <2>14
    <3>2. Spent(u) = paid + word + here
      BY <2>13
    <3> HIDE DEF paid, before, here, word, total
    <3>3. paid + word + here \in Int /\ total <= paid + word + here
      BY <3>1
    <3>4. Spent(u) \in Int /\ total <= Spent(u)
      BY <3>2, <3>3
    <3> QED BY <3>4 DEF total
  <2>16. Beaten(q, u)
    BY <2>4, <2>9, <2>10, <2>11, <2>13, <2>15 DEF Node
  <2> HIDE DEF Beaten
  <2> QED BY <1>6, <2>16
<1> QED BY <1>7, <1>8

\* What a tiling costs is at least what EOS has added up to.
LEMMA EndIsLeast ==
    ASSUME NEW W \in Nat, CostsFit(W), Priced(W), LatticeOK, Entries, ends # <<>>,
           NEW t \in UpTo[CharLen]
    PROVE  EOS.total # Unreachable /\ EOS.total <= Abstract!PathCost(t)
<1> DEFINE b == ends[CharLen]
<1>1. CharLen \in 0 .. CharLen /\ ends \in [0 .. CharLen -> Seq(Entry)]
  BY DEF LatticeOK
<1>2. Spent(t) \in Int /\ LastRight(t) \in ContextIds
  BY <1>1, NoneCheaper
<1>3. PICK i \in DOMAIN b : b[i].node.right = LastRight(t) /\ b[i].total <= Spent(t)
  BY <1>1, NoneCheaper
<1>4. b # <<>>
  BY <1>3
<1>5. /\ EOS.total # Unreachable /\ EOS.total \in Int
      /\ EOS.total <= b[i].total + conn[<<LastRight(t), 0>>]
  BY <1>3, <1>4, EndBest
<1>6. b[i].total \in Int /\ conn[<<LastRight(t), 0>>] \in Int
  <2>1. b[i] \in Entry
    <3>1. b \in Seq(Entry)
      BY <1>1
    <3> QED BY <3>1, ElementOfSeq
  <2>2. <<LastRight(t), 0>> \in ContextIds \X ContextIds
    BY <1>2, LatticeAssumption
  <2>3. conn[<<LastRight(t), 0>>] \in -W .. W
    BY <2>2 DEF CostsFit, LatticeOK
  <2> QED BY <2>1, <2>3 DEF Entry
<1>7. Abstract!PathCost(t) = Spent(t) + conn[<<LastRight(t), 0>>]
  BY PathCostIs
<1> HIDE DEF b
<1> QED BY <1>2, <1>3, <1>5, <1>6, <1>7

-----------------------------------------------------------------------------
(* The way back                                                            *)

\* Whatever tiles the text up to entry i of p and goes on as it does, with t behind
\* it tiles the text and costs what EOS has added up to since.
Completes(p, i, t) ==
    \A s \in UpTo[p] : LastRight(s) = ends[p][i].node.right =>
        /\ s \o t \in UpTo[CharLen]
        /\ Abstract!PathCost(s \o t) = Spent(s) + (EOS.total - ends[p][i].total)

LEMMA CompletesAtEnd ==
    ASSUME NEW W \in Nat, CostsFit(W), Priced(W), LatticeOK, Entries, ends # <<>>,
           Inserted \subseteq Node, EOS.total # Unreachable
    PROVE  Completes(CharLen, EOS.prev, <<>>)
<1> DEFINE b == ends[CharLen]
<1>1. CharLen \in Nat /\ CharLen \in 0 .. CharLen /\ ends \in [0 .. CharLen -> Seq(Entry)]
  BY DEF LatticeOK
<1>2. b # <<>>
  <2>1. CASE b = <<>>
    <3>1. Usable(b, 0, 0) = {}
      BY <2>1 DEF Usable
    <3> QED BY <3>1, <2>1 DEF EOS, Connect
  <2> QED BY <2>1
<1>3. /\ EOS.prev \in DOMAIN b /\ EOS.total \in Int
      /\ EOS.total = b[EOS.prev].total + conn[<<b[EOS.prev].node.right, 0>>]
  BY <1>2, EndBest
<1>4. b[EOS.prev] \in Entry
  <2>1. b \in Seq(Entry)
    BY <1>1
  <2> QED BY <2>1, <1>3, ElementOfSeq
<1> SUFFICES ASSUME NEW s \in UpTo[CharLen], LastRight(s) = b[EOS.prev].node.right
             PROVE  /\ s \o <<>> \in UpTo[CharLen]
                    /\ Abstract!PathCost(s \o <<>>) = Spent(s) + (EOS.total - b[EOS.prev].total)
  BY DEF Completes
<1>5. s \in Seq(Node) /\ Spent(s) \in Int
  BY <1>1, UpToNodes, NoneCheaper
<1>6. s \o <<>> = s
  BY <1>5, ConcatEmptySeq
<1>7. Abstract!PathCost(s) = Spent(s) + conn[<<LastRight(s), 0>>]
  BY PathCostIs
<1>8. b[EOS.prev].total \in Int /\ conn[<<LastRight(s), 0>>] \in Int
  <2>1. <<LastRight(s), 0>> \in ContextIds \X ContextIds
    BY <1>4, LatticeAssumption DEF Entry, Node
  <2>2. conn[<<LastRight(s), 0>>] \in -W .. W
    BY <2>1 DEF CostsFit, LatticeOK
  <2> QED BY <1>4, <2>2 DEF Entry
<1> HIDE DEF b
<1> QED BY <1>3, <1>5, <1>6, <1>7, <1>8

LEMMA CompletesBefore ==
    ASSUME NEW W \in Nat, CostsFit(W), Priced(W), LatticeOK, Entries, ends # <<>>,
           Inserted \subseteq Node, EOS.total \in Int,
           NEW p \in 1 .. CharLen, NEW i \in DOMAIN ends[p], NEW t \in Seq(Node),
           Completes(p, i, t), NEW e, e = ends[p][i]
    PROVE  Completes(e.node.begin, e.prev, <<e.node>> \o t)
<1> DEFINE n == e.node
           b == ends[n.begin]
           joint == conn[<<b[e.prev].node.right, n.left>>]
<1>1. CharLen \in Nat /\ ends \in [0 .. CharLen -> Seq(Entry)]
  BY DEF LatticeOK
<1>2. /\ e \in Entry /\ n \in Inserted /\ n \in Node /\ n.end = p
      /\ n.begin \in 0 .. CharLen /\ n.begin < p
  BY EntryOf
<1>3. Best(e) /\ e.total \in Int
  BY EntryBest
<1>4. e.prev \in DOMAIN b /\ e.total = b[e.prev].total + joint + n.cost
  BY <1>3 DEF Best
<1>5. b[e.prev] \in Entry
  <2>1. b \in Seq(Entry)
    BY <1>1, <1>2
  <2>2. e.prev \in DOMAIN b
    BY <1>4
  <2> HIDE DEF b
  <2>3. e.prev \in 1 .. Len(b)
    BY <2>1, <2>2, LenProperties
  <2> QED BY <2>1, <2>3, ElementOfSeq
<1>6. b[e.prev].total \in Int /\ joint \in Int /\ n.cost \in Int
  <2>1. <<b[e.prev].node.right, n.left>> \in ContextIds \X ContextIds
    BY <1>2, <1>5 DEF Entry, Node
  <2>2. joint \in -W .. W
    BY <2>1 DEF CostsFit, LatticeOK
  <2>3. joint \in Int
    <3> HIDE DEF joint
    <3> QED BY <2>2
  <2> QED BY <1>2, <1>5, <2>3 DEF Entry, Node
<1> SUFFICES ASSUME NEW s \in UpTo[n.begin], LastRight(s) = b[e.prev].node.right
             PROVE  /\ s \o (<<n>> \o t) \in UpTo[CharLen]
                    /\ Abstract!PathCost(s \o (<<n>> \o t))
                       = Spent(s) + (EOS.total - b[e.prev].total)
  BY DEF Completes
<1>7. s \in Seq(Node) /\ Spent(s) \in Int
  BY <1>1, <1>2, UpToNodes, NoneCheaper
<1> DEFINE u == Append(s, n)
<1>8. u \in UpTo[p]
  BY <1>1, <1>2, UpToAre
<1>9. Spent(u) = Spent(s) + n.cost + joint /\ LastRight(u) = n.right
  <2>1. Spent(u) = Spent(s) + n.cost + conn[<<LastRight(s), n.left>>]
    BY <1>2, <1>7, SpentOnMore
  <2>2. u # <<>> /\ u[Len(u)] = n
    BY <1>2, <1>7, AppendProperties
  <2> HIDE DEF u
  <2> QED BY <2>1, <2>2 DEF LastRight
<1>10. u \o t = s \o (<<n>> \o t)
  <2>1. u = s \o <<n>>
    BY <1>2, <1>7, AppendIsConcat
  <2>2. <<n>> \in Seq(Node)
    BY <1>2
  <2> HIDE DEF u, n
  <2> QED BY <2>1, <2>2, <1>7, ConcatAssociative
<1>11. u \o t \in UpTo[CharLen] /\ Abstract!PathCost(u \o t) = Spent(u) + (EOS.total - e.total)
  <2> HIDE DEF u
  <2> QED BY <1>8, <1>9 DEF Completes
<1>12. Spent(u) + (EOS.total - e.total) = Spent(s) + (EOS.total - b[e.prev].total)
  <2> DEFINE paid == Spent(s)
             all == EOS.total
             before == b[e.prev].total
             word == n.cost
  <2>1. paid \in Int /\ all \in Int /\ before \in Int /\ word \in Int /\ joint \in Int
    BY <1>6, <1>7
  <2>2. Spent(u) = paid + word + joint /\ e.total = before + joint + word
    BY <1>4, <1>9
  <2>3. (paid + word + joint) + (all - (before + joint + word)) = paid + (all - before)
    <3> HIDE DEF paid, all, before, word, joint
    <3> QED BY <2>1
  <2> QED BY <2>2, <2>3
<1> QED BY <1>10, <1>11, <1>12, Zenon

LEMMA CompletesAtStart ==
    ASSUME NEW W \in Nat, CostsFit(W), Priced(W), LatticeOK, Entries, ends # <<>>,
           Inserted \subseteq Node, EOS.total \in Int,
           NEW i \in DOMAIN ends[0], NEW t \in Seq(Node), Completes(0, i, t)
    PROVE  t \in Abstract!Tilings /\ Abstract!PathCost(t) = EOS.total
<1>1. CharLen \in Nat /\ ends[0] = <<BOS>>
  BY DEF LatticeOK
<1>2. ends[0][i].node.right = 0 /\ ends[0][i].total = 0
  BY <1>1 DEF BOS
<1>3. <<>> \in UpTo[0] /\ LastRight(<<>>) = 0 /\ Spent(<<>>) = 0 /\ <<>> \o t = t
  BY <1>1, UpToAre, SpentOnNothing, ConcatEmptySeq DEF LastRight
<1>4. t \in UpTo[CharLen] /\ Abstract!PathCost(t) = 0 + (EOS.total - 0)
  BY <1>2, <1>3 DEF Completes
<1> QED BY <1>1, <1>4, UpToAre

LEMMA CompletesKept ==
    ASSUME UNCHANGED <<textVars, ends, conn>>
    PROVE  \A p, i, t : Completes(p, i, t)' <=> Completes(p, i, t)
<1>1. ends' = ends /\ conn' = conn /\ CharLen' = CharLen /\ Inserted' = Inserted
  BY DEF textVars, CharLen, Inserted
<1>2. UpTo' = UpTo
  BY <1>1 DEF UpTo, UpToIs, Behind
<1>3. \A t : Spent(t)' = Spent(t)
  BY <1>1 DEF Spent, SpentIs, Paying
<1>4. \A t : Abstract!PathCost(t)' = Abstract!PathCost(t)
  BY <1>1 DEF Abstract!PathCost
<1>5. EOS' = EOS
  BY <1>1, ConnectKept DEF EOS
<1> QED BY <1>1, <1>2, <1>3, <1>4, <1>5 DEF Completes

-----------------------------------------------------------------------------
(* The steps, and what the abstract specification makes of them            *)

LEMMA ProvidePriced ==
    ASSUME NEW W \in Nat, CostsFit(W), Control, Built, pos < CharLen,
           NEW k \in 1 .. Len(providers)
    PROVE  \A i \in DOMAIN Provide(providers[k]) : Provide(providers[k])[i].cost \in -W .. W
<1>1. TextInv /\ pos \in 0 .. CharLen - 1
  <2>1. TextInv /\ pos \in 0 .. CharLen
    BY DEF Control
  <2> QED BY <2>1, OffsetsAscend
<1>2. CASE providers[k] = "MeCab"
  <2> DEFINE s == MeCab(pos, created)
  <2>1. s \in Seq({n \in OovsAt(pos) : OfUnkDef(n)})
    BY <1>1, MeCabProposes
  <2>2. Provide(providers[k]) = s
    BY <1>2 DEF Provide
  <2> HIDE DEF s
  <2>3. ASSUME NEW i \in DOMAIN s PROVE s[i].cost \in -W .. W
    <3>1. OfUnkDef(s[i])
      BY <2>1, ElementOfSeq
    <3>2. PICK c \in DOMAIN Candidates : \E j \in DOMAIN Candidates[c] :
              s[i] = OovNode(s[i].begin, s[i].end, Candidates[c][j])
      BY <3>1 DEF OfUnkDef
    <3>3. PICK j \in DOMAIN Candidates[c] :
              s[i] = OovNode(s[i].begin, s[i].end, Candidates[c][j])
      BY <3>2
    <3>4. s[i].cost = Candidates[c][j].cost
      BY <3>3 DEF OovNode
    <3> QED BY <3>4 DEF CostsFit
  <2> QED BY <2>2, <2>3
<1>3. CASE providers[k] # "MeCab"
  <2>1. Provide(providers[k]) = Simple(pos, created)
    BY <1>3 DEF Provide
  <2>2. SimpleParam.cost \in -W .. W
    BY DEF CostsFit
  <2>3. \A i \in DOMAIN Simple(pos, created) : Simple(pos, created)[i].cost = SimpleParam.cost
    BY DEF Simple, OovNode
  <2> QED BY <2>1, <2>2, <2>3
<1> QED BY <1>2, <1>3

LEMMA PricedInit ==
    ASSUME NEW W \in Nat, Init
    PROVE  Priced(W)
<1>1. chars \in Texts /\ ends = <<>> /\ oovs = <<>> /\ pc = "build"
  BY DEF Init, TextInit
<1> QED BY <1>1, NothingInserted DEF Priced, AtPosition

\* A word that is inserted has a cost like the others and begins where something
\* ends; where something ends, something still does.
LEMMA InsertPriced ==
    ASSUME NEW W \in Nat, Priced(W), LatticeOK, Entries, ends # <<>>,
           NEW n \in Node, n.begin = pos, n.end \in pos + 1 .. CharLen, pos \in Nat,
           n.cost \in -W .. W, Insert(n), UNCHANGED <<chars, conn, pc, pos>>, pc \in AtPosition,
           \A k \in DOMAIN oovs' : oovs'[k].cost \in -W .. W
    PROVE  Priced(W)' /\ Inserted' = Inserted \cup {n}
<1>1. CharLen \in Nat /\ ends \in [0 .. CharLen -> Seq(Entry)]
  BY DEF LatticeOK
<1>2. n.end \in 1 .. CharLen /\ n.begin \in 0 .. n.end - 1
  BY <1>1
<1> DEFINE L == Len(ends[n.end])
<1>3. /\ Inserted' = Inserted \cup {n}
      /\ \A p \in 0 .. CharLen : p # n.end => ends'[p] = ends[p]
      /\ L \in Nat /\ Len(ends'[n.end]) = L + 1
  BY <1>2, InsertAdds
<1>4. ASSUME NEW p \in 0 .. CharLen, ends[p] # <<>> PROVE ends'[p] # <<>>
  <2>1. CASE p = n.end
    <3>1. Len(<<>>) = 0
      OBVIOUS
    <3> HIDE DEF L
    <3> QED BY <2>1, <3>1, <1>3
  <2>2. CASE p # n.end
    BY <2>2, <1>3, <1>4
  <2> QED BY <2>1, <2>2
<1>5. ASSUME NEW m \in Inserted PROVE ends'[m.begin] # <<>>
  <2>1. PICK p \in 1 .. CharLen : \E i \in DOMAIN ends[p] : m = ends[p][i].node
    BY <1>1, InsertedIs
  <2>2. m.begin \in 0 .. CharLen
    BY <2>1, EntryOf
  <2> QED BY <2>2, <1>4 DEF Priced
<1>6. ends'[n.begin] # <<>> /\ ends'[pos] # <<>>
  <2>1. pos \in 0 .. CharLen /\ ends[pos] # <<>>
    BY <1>1, <1>2 DEF Priced
  <2> QED BY <2>1, <1>4
<1> QED BY <1>3, <1>5, <1>6 DEF Priced

LEMMA PricedStep ==
    ASSUME NEW W \in Nat, CostsFit(W), IInv, Priced(W), [Next]_vars
    PROVE  Priced(W)'
<1>1. Control /\ Queues /\ Entries
  BY DEF IInv
<1>2. CASE BuildText \/ ReturnEmpty \/ StartBestPath
  <2>1. chars' = chars /\ pc = "build" /\ oovs = <<>> /\ oovs' = <<>> /\ pc' \notin AtPosition
        /\ ends = <<>>
    BY <1>1, <1>2 DEF BuildText, ReturnEmpty, StartBestPath, Build, Decode, Terminate, ScanRun,
                      FinishRuns, textVars, loopVars, Control, Queues, AtPosition
  <2>2. Inserted' = {}
    <3>1. CASE StartBestPath
      <4>1. ends' = [p \in 0 .. CharLen |-> IF p = 0 THEN <<BOS>> ELSE <<>>]
        BY <3>1 DEF StartBestPath, NewLattice
      <4>2. \A p \in DOMAIN ends' \ {0} : ends'[p] = <<>>
        BY <4>1
      <4>3. ASSUME NEW n PROVE n \notin Inserted'
        BY <4>2 DEF Inserted
      <4> QED BY <4>3
    <3>2. CASE ~StartBestPath
      <4>1. ends' = <<>>
        BY <1>2, <2>1, <3>2 DEF BuildText, ReturnEmpty
      <4> QED BY <4>1 DEF Inserted
    <3> QED BY <3>1, <3>2
  <2> QED BY <2>1, <2>2 DEF Priced
<1>3. ASSUME UNCHANGED <<textVars, ends>>, UNCHANGED oovs \/ oovs' = <<>>,
             pc' \in AtPosition => pos' = pos /\ (pc \in AtPosition \/ ends[pos] # <<>>)
      PROVE  Priced(W)'
  <2>1. ends' = ends /\ chars' = chars /\ Inserted' = Inserted
    BY <1>3 DEF textVars, Inserted
  <2> QED BY <2>1, <1>3 DEF Priced
<1>4. CASE \/ SkipPosition \/ LookUp \/ DropWord \/ EndWords \/ NextProvider
           \/ EndProviders \/ NextPosition \/ FailNoWord
           \/ ConnectEOS \/ FailNoPath \/ Walk \/ Return \/ UNCHANGED vars
  BY <1>3, <1>4 DEF SkipPosition, LookUp, DropWord, EndWords, NextProvider, EndProviders,
              NextPosition, FailNoWord, ConnectEOS, FailNoPath, Walk, Return, vars, loopVars,
              AtPosition, HasNodeEndingAt
<1>5. CASE CallProvider \/ CallLastProvider
  <2>1. /\ UNCHANGED <<textVars, ends, pos>> /\ pc \in AtPosition
        /\ \E k \in 1 .. Len(providers) : oovs' = Provide(providers[k])
    <3>1. provider \in 1 .. Len(providers) + 1 /\ Len(providers) \in Nat \ {0}
      BY <1>1, ProvidersLen DEF Control
    <3> QED BY <3>1, <1>5 DEF CallProvider, CallLastProvider, AtPosition
  <2>2. ends' = ends /\ chars' = chars /\ Inserted' = Inserted
    BY <2>1 DEF textVars, Inserted
  <2>3. Built /\ pos < CharLen
    BY <2>1, <1>1 DEF Control, AtPosition
  <2>4. \A k \in DOMAIN oovs' : oovs'[k].cost \in -W .. W
    BY <2>1, <2>3, <1>1, ProvidePriced
  <2> QED BY <2>1, <2>2, <2>4 DEF Priced
<1>6. CASE InsertWord
  <2>1. PICK n : n = WordNode(Head(found))
    OBVIOUS
  <2>2. /\ pc = "words" /\ found # <<>> /\ Insert(n) /\ oovs' = oovs
        /\ UNCHANGED <<textVars, conn, pc, pos>>
    BY <2>1, <1>6 DEF InsertWord, config
  <2>3. /\ n \in Node /\ n.begin = pos /\ n.end \in pos + 1 .. CharLen
        /\ found \in Seq(Hits(ByteOffset(pos)))
    BY <2>1, <1>6, WordIs
  <2>4. n.cost \in -W .. W
    <3>1. Head(found) \in Hits(ByteOffset(pos))
      BY <2>2, <2>3
    <3>2. Head(found).param \in Params
      BY <3>1 DEF Hits
    <3>3. n.cost = Head(found).param.cost
      BY <2>1 DEF WordNode
    <3> QED BY <3>2, <3>3 DEF CostsFit
  <2>5. LatticeOK /\ ends # <<>> /\ pos \in Nat /\ pc \in AtPosition
    BY <2>2, <1>1 DEF Control, AtPosition
  <2>6. \A k \in DOMAIN oovs' : oovs'[k].cost \in -W .. W
    BY <2>2 DEF Priced
  <2> QED BY <2>2, <2>3, <2>4, <2>5, <2>6, <1>1, InsertPriced DEF textVars
<1>7. CASE InsertOov
  <2>1. PICK n : n = Head(oovs)
    OBVIOUS
  <2>2. /\ pc \in {"insert", "insertLast"} /\ oovs # <<>> /\ Insert(n) /\ oovs' = Tail(oovs)
        /\ UNCHANGED <<textVars, conn, pc, pos>>
    BY <2>1, <1>7 DEF InsertOov, config
  <2>3. /\ n \in Node /\ n.begin = pos /\ n.end \in pos + 1 .. CharLen
        /\ oovs \in Seq(OovsAt(pos))
    BY <2>1, <1>7, OovIs
  <2>4. LatticeOK /\ ends # <<>> /\ pos \in Nat /\ pc \in AtPosition
    BY <2>2, <1>1 DEF Control, AtPosition
  <2>5. /\ n = oovs[1] /\ 1 \in DOMAIN oovs
        /\ \A k \in DOMAIN Tail(oovs) : Tail(oovs)[k] = oovs[k + 1] /\ k + 1 \in DOMAIN oovs
    BY <2>1, <2>2, <2>3
  <2>6. n.cost \in -W .. W /\ \A k \in DOMAIN oovs' : oovs'[k].cost \in -W .. W
    BY <2>2, <2>5 DEF Priced
  <2> QED BY <2>2, <2>3, <2>4, <2>6, <1>1, InsertPriced DEF textVars
<1> QED BY <1>2, <1>4, <1>5, <1>6, <1>7 DEF Next, Finished

LEMMA EOSIsInt ==
    ASSUME LatticeOK
    PROVE  EOS.total \in Int
<1>1. ends[CharLen] \in Seq(Entry) /\ conn \in Matrices /\ 0 \in ContextIds
  BY LatticeAssumption DEF LatticeOK
<1>2. Connected(ends[CharLen], 0, 0, EOS.total, EOS.prev)
  BY <1>1, ConnectIs DEF EOS
<1> QED BY <1>2 DEF Connected

\* Where the way back is, there is an entry.
LEMMA AtIsEntry ==
    ASSUME IInv, pc = "walk"
    PROVE  /\ at.idx \in DOMAIN ends[at.pos] /\ at.pos \in 0 .. CharLen /\ path \in Seq(Node)
           /\ LatticeOK /\ Entries /\ ends # <<>> /\ Inserted \subseteq Node
<1>1. /\ path \in Seq(Node) /\ at.pos \in 0 .. CharLen /\ Chosen(at.pos, at.idx) /\ ends # <<>>
      /\ LatticeOK /\ Entries /\ Control
  BY DEF IInv, Control, Walked
<1>2. ends[at.pos] \in Seq(Entry) /\ conn \in Matrices
  BY <1>1 DEF LatticeOK
<1>3. After.left \in ContextIds /\ After.cost \in Int
  <2>1. CASE path = <<>>
    BY <2>1, LatticeAssumption DEF After
  <2>2. CASE path # <<>>
    <3>1. path[1] \in Node
      BY <2>2, <1>1
    <3> QED BY <2>2, <3>1 DEF After, Node
  <2> QED BY <2>1, <2>2
<1>4. at.idx \in Usable(ends[at.pos], After.left, After.cost)
  BY <1>1, <1>2, <1>3, CheapestIs DEF Chosen
<1> QED BY <1>1, <1>4, InsertedNodes DEF Usable

\* What has been read back completes whatever leads to where the way back is.
Continues == pc = "walk" => Completes(at.pos, at.idx, path)

LEMMA ContinuesStep ==
    ASSUME NEW W \in Nat, CostsFit(W), IInv, Priced(W), Continues, [Next]_vars
    PROVE  Continues'
<1>1. SUFFICES ASSUME pc' = "walk" PROVE Completes(at.pos, at.idx, path)'
  BY DEF Continues
<1>2. CASE ConnectEOS
  <2>1. /\ EOS.total # Unreachable /\ pc = "visit" /\ path' = path
        /\ at' = [pos |-> CharLen, idx |-> EOS.prev] /\ UNCHANGED <<textVars, ends, conn>>
    BY <1>2 DEF ConnectEOS, config
  <2>2. path = <<>> /\ LatticeOK /\ Entries /\ ends # <<>> /\ Control
    BY <2>1 DEF IInv, Control, Walked
  <2>3. Completes(CharLen, EOS.prev, <<>>)
    BY <2>1, <2>2, InsertedNodes, CompletesAtEnd
  <2>4. Completes(CharLen, EOS.prev, <<>>) <=> Completes(at.pos, at.idx, path)'
    <3>1. PICK p, i, t : p = CharLen /\ i = EOS.prev /\ t = <<>>
      OBVIOUS
    <3>2. Completes(p, i, t)' <=> Completes(p, i, t)
      BY <2>1, CompletesKept
    <3>3. at'.pos = p /\ at'.idx = i /\ path' = t
      BY <2>1, <2>2, <3>1
    <3> QED BY <3>1, <3>2, <3>3
  <2> QED BY <2>3, <2>4
<1>3. CASE Walk
  <2>1. PICK e : e = ends[at.pos][at.idx]
    OBVIOUS
  <2>2. /\ pc = "walk" /\ at.pos > 0 /\ path' = <<e.node>> \o path
        /\ at' = [pos |-> e.node.begin, idx |-> e.prev] /\ UNCHANGED <<textVars, ends, conn>>
    BY <1>3, <2>1 DEF Walk, config
  <2>3. /\ at.idx \in DOMAIN ends[at.pos] /\ at.pos \in 1 .. CharLen /\ path \in Seq(Node)
        /\ LatticeOK /\ Entries /\ ends # <<>> /\ Inserted \subseteq Node
    BY <2>2, AtIsEntry DEF LatticeOK
  <2>4. Completes(e.node.begin, e.prev, <<e.node>> \o path)
    BY <2>1, <2>2, <2>3, EOSIsInt, CompletesBefore DEF Continues
  <2>5. PICK p, i, t : p = e.node.begin /\ i = e.prev /\ t = <<e.node>> \o path
    OBVIOUS
  <2>6. Completes(p, i, t)' <=> Completes(p, i, t)
    BY <2>2, CompletesKept
  <2>7. at'.pos = p /\ at'.idx = i /\ path' = t
    BY <2>2, <2>5
  <2> QED BY <2>4, <2>5, <2>6, <2>7
<1>4. CASE UNCHANGED vars
  <2>1. pc = "walk" /\ at' = at /\ path' = path /\ UNCHANGED <<textVars, ends, conn>>
    BY <1>1, <1>4 DEF vars, config
  <2>2. Completes(at.pos, at.idx, path)
    BY <2>1 DEF Continues
  <2>3. PICK p, i, t : p = at.pos /\ i = at.idx /\ t = path
    OBVIOUS
  <2>4. Completes(p, i, t)' <=> Completes(p, i, t)
    BY <2>1, CompletesKept
  <2> QED BY <2>1, <2>2, <2>3, <2>4
<1>5. ConnectEOS \/ Walk \/ UNCHANGED vars
  BY <1>1 DEF Next, vars, Finished, BuildText, ReturnEmpty, StartBestPath, SkipPosition, LookUp,
              DropWord, InsertWord, EndWords, CallProvider, InsertOov, NextProvider, EndProviders,
              NextPosition, CallLastProvider, FailNoWord, ConnectEOS, FailNoPath, Walk, Return
<1> QED BY <1>2, <1>3, <1>4, <1>5

\* Each step is one of the abstract specification, or none.
LEMMA Segments ==
    ASSUME NEW W \in Nat, CostsFit(W), IInv, IInv', Priced(W), Continues, [Next]_vars
    PROVE  [Abstract!SegNext]_(Abstract!segVars)
<1>1. chars' = chars /\ conn' = conn /\ CharLen' = CharLen
  BY DEF Next, vars, Finished, BuildText, ReturnEmpty, StartBestPath, SkipPosition, LookUp,
         DropWord, InsertWord, EndWords, CallProvider, InsertOov, NextProvider, EndProviders,
         NextPosition, CallLastProvider, FailNoWord, ConnectEOS, FailNoPath, Walk, Return, vars,
         config, textVars, Build, Decode, Terminate, ScanRun, FinishRuns, CharLen
<1>2. Control /\ Entries /\ Offered /\ Walked /\ CharLen \in Nat
  BY LenProperties DEF IInv, Control, TextInv, Indexed, TextTypes, CharLen
<1>3. Inserted \subseteq Node
  BY <1>2, InsertedNodes
<1>4. CASE InsertWord \/ InsertOov
  <2>1. Inserted \subseteq Inserted'
    <3>1. CASE InsertWord
      <4>1. PICK n : n = WordNode(Head(found))
        OBVIOUS
      <4>2. n \in Node /\ n.begin = pos /\ n.end \in pos + 1 .. CharLen
        BY <3>1, <4>1, WordIs
      <4>3. Insert(n) /\ LatticeOK /\ pos \in Nat
        BY <1>2, <3>1, <4>1 DEF InsertWord, Control
      <4> QED BY <1>1, <1>2, <4>2, <4>3, InsertAdds
    <3>2. CASE InsertOov
      <4>1. PICK n : n = Head(oovs)
        OBVIOUS
      <4>2. /\ n \in Node /\ n.begin = pos /\ n.end \in pos + 1 .. CharLen /\ Insert(n)
            /\ LatticeOK /\ pos \in Nat
        BY <1>2, <3>2, <4>1, OovIs DEF InsertOov, Control
      <4> QED BY <1>1, <1>2, <4>2, InsertAdds
    <3> QED BY <1>4, <3>1, <3>2
  <2>2. pc' = pc /\ pc \notin {"done", "noWord", "noPath"}
    BY <1>4 DEF InsertWord, InsertOov
  <2> QED BY <1>1, <2>1, <2>2
          DEF Abstract!SegNext, Abstract!Offer, Abstract!segVars, Abstract!None, Abstract!Answered
<1>5. ASSUME Inserted' = Inserted, pc' \notin {"done", "noWord", "noPath"},
             pc \notin {"done", "noWord", "noPath"}
      PROVE  UNCHANGED Abstract!segVars
  BY <1>1, <1>5 DEF Abstract!segVars
<1>6. CASE BuildText \/ StartBestPath
  <2>1. Inserted = {} /\ pc \notin {"done", "noWord", "noPath"}
        /\ pc' \notin {"done", "noWord", "noPath"}
    BY <1>2, <1>6, NothingInserted DEF Control, BuildText, StartBestPath
  <2>2. Inserted' = {}
    <3>1. CASE StartBestPath
      <4>1. ends' = [p \in 0 .. CharLen |-> IF p = 0 THEN <<BOS>> ELSE <<>>]
        BY <3>1 DEF StartBestPath, NewLattice
      <4>2. \A p \in DOMAIN ends' \ {0} : ends'[p] = <<>>
        BY <4>1
      <4>3. ASSUME NEW n PROVE n \notin Inserted'
        BY <4>2 DEF Inserted
      <4> QED BY <4>3
    <3>2. CASE BuildText
      <4>1. ends' = <<>>
        BY <1>2, <3>2 DEF BuildText, Control
      <4> QED BY <4>1 DEF Inserted
    <3> QED BY <1>6, <3>1, <3>2
  <2> QED BY <2>1, <2>2, <1>5
<1>7. CASE \/ SkipPosition \/ LookUp \/ DropWord \/ EndWords \/ CallProvider \/ NextProvider
           \/ EndProviders \/ NextPosition \/ CallLastProvider \/ ConnectEOS \/ Walk
  <2>1. ends' = ends /\ pc \notin {"done", "noWord", "noPath"}
        /\ pc' \notin {"done", "noWord", "noPath"}
    BY <1>7 DEF SkipPosition, LookUp, DropWord, EndWords, CallProvider, NextProvider,
                EndProviders, NextPosition, CallLastProvider, ConnectEOS, Walk
  <2> QED BY <2>1, <1>5 DEF Inserted
<1>8. CASE ReturnEmpty
  <2>1. /\ CharLen = 0 /\ Inserted' = Inserted /\ path = <<>> /\ path' = <<>>
        /\ pc = "build" /\ pc' = "done"
    BY <1>2, <1>8 DEF ReturnEmpty, Walked, Inserted
  <2>2. Abstract!Tilings = {<<>>}
    BY <1>2, <1>3, <2>1, UpToAre
  <2>3. Abstract!PathCost(<<>>) \in Int
    <3>1. Abstract!PathCost(<<>>) = 0 + conn[<<0, 0>>]
      BY PathCostIs, SpentOnNothing DEF LastRight
    <3>2. conn[<<0, 0>>] \in Int
      <4>1. <<0, 0>> \in ContextIds \X ContextIds /\ conn \in [ContextIds \X ContextIds -> Int]
        BY <1>2, LatticeAssumption, TokenizerAssumption DEF Control
      <4> QED BY <4>1
    <3> QED BY <3>1, <3>2
  <2>4. Abstract!Answer
    <3>1. \A u \in Abstract!Tilings : Abstract!PathCost(<<>>) <= Abstract!PathCost(u)
      BY <2>2, <2>3
    <3> QED BY <1>1, <2>1, <2>2, <3>1 DEF Abstract!Answer, Abstract!None, Abstract!Answered
  <2> QED BY <2>4 DEF Abstract!SegNext
<1>9. CASE Return
  <2>1. /\ pc = "walk" /\ pc' = "done" /\ at.pos = 0 /\ path' = path /\ Inserted' = Inserted
    BY <1>9 DEF Return, Inserted
  <2>2. /\ at.idx \in DOMAIN ends[0] /\ path \in Seq(Node)
        /\ LatticeOK /\ Entries /\ ends # <<>>
    BY <2>1, AtIsEntry
  <2>3. path \in Abstract!Tilings /\ Abstract!PathCost(path) = EOS.total
    BY <1>3, <2>1, <2>2, EOSIsInt, CompletesAtStart DEF Continues
  <2>4. ASSUME NEW u \in Abstract!Tilings PROVE Abstract!PathCost(path) <= Abstract!PathCost(u)
    <3>1. u \in UpTo[CharLen]
      BY <1>2, <1>3, UpToAre
    <3> QED BY <2>2, <2>3, <3>1, EndIsLeast
  <2>5. Abstract!Answer
    BY <1>1, <2>1, <2>3, <2>4 DEF Abstract!Answer, Abstract!None, Abstract!Answered
  <2> QED BY <2>5 DEF Abstract!SegNext
<1>10. CASE FailNoPath
  <2>1. /\ pc = "visit" /\ pc' = "noPath" /\ EOS.total = Unreachable /\ Inserted' = Inserted
        /\ LatticeOK /\ ends # <<>>
    BY <1>2, <1>10 DEF FailNoPath, Inserted, Control
  <2>2. Abstract!Tilings = {}
    <3>1. ASSUME NEW u \in Abstract!Tilings PROVE FALSE
      <4>1. u \in UpTo[CharLen]
        BY <1>2, <1>3, UpToAre
      <4> QED BY <1>2, <2>1, <4>1, EndIsLeast
    <3> QED BY <3>1
  <2>3. Abstract!AnswerNoPath
    BY <1>1, <2>1, <2>2 DEF Abstract!AnswerNoPath, Abstract!None, Abstract!Answered
  <2> QED BY <2>3 DEF Abstract!SegNext
<1>11. CASE FailNoWord
  <2>1. /\ pc = "insertLast" /\ pc' = "noWord" /\ created = {} /\ Inserted' = Inserted
        /\ LatticeOK /\ ends # <<>> /\ pos \in 0 .. CharLen - 1
    BY <1>2, <1>11 DEF FailNoWord, Inserted, Control, AtPosition
  <2>2. \A n \in Inserted : n.begin # pos
    BY <1>2, <2>1 DEF Offered, AtPosition
  <2>3. Abstract!Reached(pos)
    <3>1. CASE pos = 0
      BY <3>1 DEF Abstract!Reached
    <3>2. CASE pos # 0
      <4>1. pos \in 1 .. CharLen
        BY <1>2, <2>1, <3>2
      <4>2. ends[pos] # <<>> /\ ends[pos] \in Seq(Entry)
        BY <2>1, <4>1 DEF Priced, AtPosition, LatticeOK
      <4>3. 1 \in DOMAIN ends[pos]
        BY <4>2
      <4>4. ends[pos][1].node \in Inserted /\ ends[pos][1].node.end = pos
        BY <1>2, <2>1, <4>1, <4>3, EntryOf
      <4> QED BY <4>4 DEF Abstract!Reached
    <3> QED BY <3>1, <3>2
  <2>4. Abstract!GiveUp
    BY <1>1, <2>1, <2>2, <2>3 DEF Abstract!GiveUp, Abstract!None, Abstract!Answered
  <2> QED BY <2>4 DEF Abstract!SegNext
<1>12. CASE UNCHANGED vars
  BY <1>1, <1>12 DEF vars, Inserted, Abstract!segVars
<1> QED BY <1>4, <1>6, <1>7, <1>8, <1>9, <1>10, <1>11, <1>12 DEF Next, Finished

\* As long as costs fit, the path returned tiles the text and costs no more than
\* any other sequence of candidates that does, there is none only if no sequence
\* does, and the tokenizer gives up only where a word was reached and none begins.
\* For every text, dictionary, list of providers and matrix (lattice.go:72,
\* tokenizer.go:84-160).
THEOREM SpecMinimalPath ==
    ASSUME NEW W \in Nat, CostsFit(W)
    PROVE  Spec => MinimalPath
<1>1. Init => Priced(W) /\ Continues /\ Abstract!SegInit
  <2> SUFFICES ASSUME Init PROVE Priced(W) /\ Continues /\ Abstract!SegInit
    OBVIOUS
  <2>1. pc = "build" /\ Inserted = {} /\ Priced(W)
    BY PricedInit, NothingInserted DEF Init
  <2> QED BY <2>1 DEF Continues, Abstract!SegInit, Abstract!None, Abstract!Answered
<1>2. IInv /\ IInv' /\ Priced(W) /\ Continues /\ [Next]_vars
      => /\ Priced(W)' /\ Continues'
         /\ [Abstract!SegNext]_(Abstract!segVars)
  BY PricedStep, ContinuesStep, Segments
<1> QED BY <1>1, <1>2, InvHolds, PTL DEF Spec, MinimalPath, Abstract!SegSpec


-----------------------------------------------------------------------------
(* From the best path to the morphemes: the invariant                       *)

\* A node of the path is of whole characters; joined, it has no units.
NodeOK(n) ==
    /\ n.begin \in 0 .. CharLen /\ n.end \in 0 .. CharLen /\ n.begin < n.end
    /\ n.beginByte = ByteOffset(n.begin) /\ n.endByte = ByteOffset(n.end)
    /\ n.joined => n.info.unitsA = <<>> /\ n.info.unitsB = <<>>

Tiles ==
    /\ nodes \in Seq(PathNode)
    /\ \A k \in 1 .. Len(nodes) : NodeOK(nodes[k])
    /\ \A k, l \in 1 .. Len(nodes) : k < l => nodes[k].end <= nodes[l].begin
    /\ \A k \in 1 .. Len(nodes) - 1 : nodes[k].end = nodes[k + 1].begin
    /\ nodes # <<>> => nodes[1].begin = 0

\* A unit lies anywhere in the text, also within a character.
UnitOK(u) ==
    /\ u.beginByte \in 0 .. ByteLen /\ u.endByte \in 0 .. ByteLen /\ u.beginByte <= u.endByte
    /\ u.begin = CharIndex(u.beginByte) /\ u.end = CharIndex(u.endByte)

OutEnd == IF out = <<>> THEN 0 ELSE out[Len(out)].endByte
Units ==
    /\ out \in Seq(PathNode)
    /\ \A k \in 1 .. Len(out) : UnitOK(out[k]) /\ out[k].endByte <= OutEnd
    /\ \A k \in 1 .. Len(out) - 1 : out[k].endByte = out[k + 1].beginByte
    /\ out # <<>> => out[1].beginByte = 0

\* What split has to have done with a node.
AsLong(n) ==
    \A k \in 1 .. Len(out) :
        Within(out[k], n) /\ out[k].beginByte < out[k].endByte
            => out[k].endByte - out[k].beginByte = Lexicon[out[k].word].head
Treated(n) ==
    /\ \E k \in 1 .. Len(out) : out[k].endByte = n.endByte
    /\ n.joined => \E k \in 1 .. Len(out) : out[k] = n
    /\ mode # "C" /\ Fits(n) => AsLong(n)

\* Where split is: behind the nodes it has treated, or among the units of one,
\* which are as long so far as their words are.
SplitBehind(n) == IF n = 0 THEN 0 ELSE nodes[n].endByte
Done == Len(UnitsOf(nodes[splitAt])) - Len(rest)
AmongUnits ==
    /\ splitAt <= Len(nodes) /\ ~nodes[splitAt].joined
    /\ rest \in Seq(Ids) /\ Done \in Nat
    /\ \A k \in 1 .. Len(rest) : rest[k] = UnitsOf(nodes[splitAt])[Done + k]
    /\ begin \in nodes[splitAt].beginByte .. nodes[splitAt].endByte /\ OutEnd = begin
    /\ rest = <<>> => begin = nodes[splitAt].endByte
    /\ Fits(nodes[splitAt]) => /\ begin = nodes[splitAt].beginByte + Sums(Heads(UnitsOf(nodes[splitAt])))[Done]
                         /\ AsLong(nodes[splitAt])

Splitting ==
    /\ phase \in {"build", "infos", "rewrite"} => out = <<>> /\ splitAt = 1
    /\ phase \in {"split", "units"} => /\ mode # "C" /\ splitAt \in 1 .. Len(nodes) + 1
                                    /\ \A n \in 1 .. splitAt - 1 : Treated(nodes[n])
    /\ phase = "split" => OutEnd = SplitBehind(splitAt - 1)
    /\ phase = "units" => AmongUnits
    /\ phase \in {"morphemes", "done"} => /\ \A n \in 1 .. Len(nodes) : Treated(nodes[n])
                                       /\ OutEnd = ByteLen

Mapped ==
    /\ m2o \in [1 .. ByteLen + 1 -> Nat] /\ m2o[1] = 0
    /\ \A i, j \in 1 .. ByteLen + 1 : i <= j => m2o[i] <= m2o[j]

Surfaces ==
    /\ ms \in Seq(Morpheme) /\ Len(ms) <= Len(out)
    /\ phase \in {"build", "infos", "rewrite", "split", "units"} => ms = <<>>
    /\ \A k \in 1 .. Len(ms) : /\ ms[k].begin = m2o[out[k].beginByte + 1]
                               /\ ms[k].end = m2o[out[k].endByte + 1]
    /\ phase = "done" => Len(ms) = Len(out)

Stages ==
    /\ chars # <<>> /\ mode \in {"A", "B", "C", "other"}
    /\ phase # "build" => Built /\ Mapped
    /\ phase = "build" => nodes = <<>>
    /\ phase \in {"rewrite", "split", "units", "morphemes", "done"} => PathEnd = CharLen

MorphemesInv == TextInv /\ Stages /\ Tiles /\ Units /\ Splitting /\ Surfaces

-----------------------------------------------------------------------------
(* Sums and largest elements, from the least counterexample                 *)

LEMMA SumsDefined ==
    ASSUME NEW s, NEW n \in Nat
    PROVE  \E f : f = [k \in 0 .. n |-> IF k = 0 THEN 0 ELSE f[k - 1] + s[k]]
<1> DEFINE Is(f, m) == f = [k \in 0 .. m |-> IF k = 0 THEN 0 ELSE f[k - 1] + s[k]]
           S == {m \in Nat : ~\E f : Is(f, m)}
<1>1. SUFFICES ASSUME S # {} PROVE FALSE
  OBVIOUS
<1>2. PICK m \in S : \A k \in S : m <= k
  <2>1. S \in SUBSET Nat
    OBVIOUS
  <2> HIDE DEF S
  <2> QED BY <1>1, <2>1, Least
<1>3. m \in Nat
  OBVIOUS
<1>4. CASE m = 0
  <2> DEFINE g == [k \in 0 .. 0 |-> 0]
  <2>1. g = [k \in 0 .. 0 |-> IF k = 0 THEN 0 ELSE g[k - 1] + s[k]]
    OBVIOUS
  <2>2. Is(g, 0)
    BY <2>1
  <2> QED BY <2>2, <1>2, <1>4
<1>5. CASE m # 0
  <2>1. m - 1 \in Nat /\ m - 1 \notin S
    <3> HIDE DEF S
    <3> QED BY <1>2, <1>3, <1>5
  <2>2. PICK f : Is(f, m - 1)
    BY <2>1
  <2> DEFINE last == f[m - 1] + s[m]
             g == [k \in 0 .. m |-> IF k = m THEN last ELSE f[k]]
  <2>3. ASSUME NEW k \in 0 .. m
        PROVE  g[k] = IF k = 0 THEN 0 ELSE g[k - 1] + s[k]
    <3>1. CASE k = m
      <4>1. k - 1 \in 0 .. m /\ k - 1 # m
        BY <3>1, <1>3, <1>5
      <4> QED BY <3>1, <4>1, <1>5
    <3>2. CASE k # m
      <4>1. k \in 0 .. m - 1 /\ (k # 0 => k - 1 \in 0 .. m /\ k - 1 # m)
        BY <3>2, <1>3
      <4>2. f[k] = IF k = 0 THEN 0 ELSE f[k - 1] + s[k]
        BY <2>2, <4>1
      <4> QED BY <3>2, <4>1, <4>2
    <3> QED BY <3>1, <3>2
  <2>4. Is(g, m)
    <3> HIDE DEF last
    <3>1. g = [k \in 0 .. m |-> g[k]]
      OBVIOUS
    <3> HIDE DEF g
    <3> QED BY <2>3, <3>1
  <2> QED BY <2>4, <1>2
<1> QED BY <1>4, <1>5

\* The sums of numbers are numbers, from 0, of which each adds one number more,
\* and none is greater than the last.
LEMMA SumsFacts ==
    ASSUME NEW s, NEW n \in Nat, Len(s) = n, \A k \in 1 .. n : s[k] \in Nat
    PROVE  /\ Sums(s)[0] = 0 /\ \A k \in 0 .. n : Sums(s)[k] \in Nat
           /\ \A k \in 1 .. n : Sums(s)[k] = Sums(s)[k - 1] + s[k]
           /\ \A k \in 0 .. n : Sums(s)[k] <= Sums(s)[n]
<1> DEFINE sum == Sums(s)
<1>1. sum = [k \in 0 .. n |-> IF k = 0 THEN 0 ELSE sum[k - 1] + s[k]]
  BY SumsDefined DEF Sums
<1> HIDE DEF sum
<1>2. sum[0] = 0 /\ \A k \in 1 .. n : sum[k] = sum[k - 1] + s[k]
  <2>1. \A k \in 0 .. n : sum[k] = IF k = 0 THEN 0 ELSE sum[k - 1] + s[k]
    BY <1>1
  <2>2. \A k \in 1 .. n : k \in 0 .. n /\ k # 0
    OBVIOUS
  <2> QED BY <2>1, <2>2
<1>3. ASSUME NEW k \in 0 .. n PROVE sum[k] \in Nat
  <2> DEFINE S == {m \in 0 .. n : sum[m] \notin Nat}
  <2>1. SUFFICES ASSUME S # {} PROVE FALSE
    OBVIOUS
  <2>2. PICK m \in S : \A j \in S : m <= j
    <3>1. S \in SUBSET Nat
      OBVIOUS
    <3> HIDE DEF S
    <3> QED BY <2>1, <3>1, Least
  <2>3. m \in 1 .. n
    BY <1>2
  <2>4. m - 1 \in 0 .. n /\ m - 1 \notin S
    BY <2>2, <2>3
  <2> QED BY <2>3, <2>4, <1>2
\* Were one greater than the last, so would be the next.
<1>4. ASSUME NEW k \in 0 .. n PROVE sum[k] <= sum[n]
  <2> DEFINE S == {m \in Nat : m <= n /\ ~(sum[n - m] <= sum[n])}
  <2>1. SUFFICES ASSUME S # {} PROVE FALSE
    <3>1. n - k \in Nat /\ n - k <= n /\ n - (n - k) = k
      OBVIOUS
    <3> QED BY <3>1
  <2>2. PICK m \in S : \A j \in S : m <= j
    <3>1. S \in SUBSET Nat
      OBVIOUS
    <3> HIDE DEF S
    <3> QED BY <2>1, <3>1, Least
  <2>3. m \in Nat /\ m <= n /\ ~(sum[n - m] <= sum[n])
    OBVIOUS
  <2>4. m # 0
    BY <2>3, <1>3
  <2>5. m - 1 \notin S /\ m - 1 \in Nat /\ m - 1 <= n
    BY <2>2, <2>3, <2>4
  <2>6. sum[n - (m - 1)] <= sum[n]
    BY <2>5
  <2>7. n - (m - 1) \in 1 .. n /\ n - (m - 1) - 1 = n - m /\ n - m \in 0 .. n
    BY <2>3, <2>4
  <2>8. sum[n - (m - 1)] = sum[n - m] + s[n - (m - 1)]
    BY <2>7, <1>2
  <2> QED BY <2>3, <2>6, <2>7, <2>8, <1>3
<1> QED BY <1>2, <1>3, <1>4 DEF sum

\* Among finitely many integers there is a largest.
LEMMA LargestValue ==
    ASSUME NEW f, NEW i \in Nat, NEW j \in Nat, i <= j, \A k \in i .. j : f[k] \in Int
    PROVE  \E x \in i .. j : \A y \in i .. j : f[y] <= f[x]
<1> DEFINE S == {m \in Nat : i <= m /\ m <= j /\ ~\E x \in i .. m : \A y \in i .. m : f[y] <= f[x]}
<1>1. SUFFICES ASSUME S # {} PROVE FALSE
  OBVIOUS
<1>2. PICK m \in S : \A k \in S : m <= k
  <2>1. S \in SUBSET Nat
    OBVIOUS
  <2> HIDE DEF S
  <2> QED BY <1>1, <2>1, Least
<1>3. m \in i .. j /\ ~\E x \in i .. m : \A y \in i .. m : f[y] <= f[x]
  OBVIOUS
<1>4. m # i
  BY <1>3
<1>5. PICK x \in i .. m - 1 : \A y \in i .. m - 1 : f[y] <= f[x]
  <2>1. m - 1 \in Nat /\ i <= m - 1 /\ m - 1 <= j
    BY <1>3, <1>4
  <2>2. m - 1 \notin S
    <3>1. ~(m <= m - 1)
      BY <1>3
    <3> HIDE DEF S
    <3> QED BY <3>1, <1>2
  <2> QED BY <2>1, <2>2
<1>6. CASE f[m] <= f[x]
  <2>1. x \in i .. m /\ \A y \in i .. m : f[y] <= f[x]
    BY <1>3, <1>5, <1>6
  <2> QED BY <2>1, <1>3
<1>7. CASE ~(f[m] <= f[x])
  <2>1. m \in i .. m /\ \A y \in i .. m : f[y] <= f[m]
    BY <1>3, <1>5, <1>7
  <2> QED BY <2>1, <1>3
<1> QED BY <1>6, <1>7

-----------------------------------------------------------------------------
(* The path                                                                 *)

\* The bytes of a node are those of its characters, and it has some.
LEMMA NodeFacts ==
    ASSUME TextInv, Built, NEW n, NodeOK(n)
    PROVE  UnitOK(n) /\ n.beginByte < n.endByte
<1>1. /\ n.begin \in 0 .. CharLen /\ n.end \in 0 .. CharLen /\ n.begin < n.end
      /\ n.beginByte = ByteOffset(n.begin) /\ n.endByte = ByteOffset(n.end)
  BY DEF NodeOK
<1>2. n.beginByte < n.endByte
  BY <1>1, OffsetsAscend
<1>3. n.beginByte \in 0 .. ByteLen /\ n.endByte \in 0 .. ByteLen /\ ByteLen \in Nat
  BY <1>1, OffsetsAscend
<1>4. n.begin = CharIndex(n.beginByte) /\ n.end = CharIndex(n.endByte)
  BY <1>1, OffsetsAscend
<1> QED BY <1>2, <1>3, <1>4 DEF UnitOK

\* Nodes lie in the order of the path.
LEMMA PathOrder ==
    ASSUME TextInv, Built, Tiles
    PROVE  /\ \A k \in 1 .. Len(nodes) : UnitOK(nodes[k]) /\ nodes[k].beginByte < nodes[k].endByte
           /\ \A k, l \in 1 .. Len(nodes) : k < l => nodes[k].endByte <= nodes[l].beginByte
           /\ \A k \in 1 .. Len(nodes) - 1 : nodes[k].endByte = nodes[k + 1].beginByte
<1>1. \A k \in 1 .. Len(nodes) : UnitOK(nodes[k]) /\ nodes[k].beginByte < nodes[k].endByte
  BY NodeFacts DEF Tiles
<1>2. ASSUME NEW k \in 1 .. Len(nodes), NEW l \in 1 .. Len(nodes), k < l
      PROVE  nodes[k].endByte <= nodes[l].beginByte
  <2>1. NodeOK(nodes[k]) /\ NodeOK(nodes[l]) /\ nodes[k].end <= nodes[l].begin
    BY <1>2 DEF Tiles
  <2>2. /\ nodes[k].end \in 0 .. CharLen /\ nodes[k].endByte = ByteOffset(nodes[k].end)
        /\ nodes[l].begin \in 0 .. CharLen /\ nodes[l].beginByte = ByteOffset(nodes[l].begin)
    BY <2>1 DEF NodeOK
  <2>3. CASE nodes[k].end = nodes[l].begin
    <3>1. nodes[k].endByte = nodes[l].beginByte /\ nodes[k].endByte \in Int
      BY <2>2, <2>3, OffsetsAscend
    <3> QED BY <3>1
  <2>4. CASE nodes[k].end < nodes[l].begin
    BY <2>2, <2>4, OffsetsAscend
  <2> QED BY <2>1, <2>2, <2>3, <2>4, OffsetsAscend
<1>3. ASSUME NEW k \in 1 .. Len(nodes) - 1 PROVE nodes[k].endByte = nodes[k + 1].beginByte
  <2>1. Len(nodes) \in Nat
    BY LenProperties DEF Tiles
  <2>2. k \in 1 .. Len(nodes) /\ k + 1 \in 1 .. Len(nodes)
    BY <2>1
  <2>3. NodeOK(nodes[k]) /\ NodeOK(nodes[k + 1]) /\ nodes[k].end = nodes[k + 1].begin
    BY <2>2 DEF Tiles
  <2> QED BY <2>3 DEF NodeOK
<1> QED BY <1>1, <1>2, <1>3

LEMMA SynthesizedType ==
    ASSUME NEW len \in Int, NEW q \in Nat
    PROVE  Synthesized(len, q) \in WordInfo
<1>1. 2 ^ 16 \in Nat \ {0}
  OBVIOUS
<1>2. len % 2 ^ 16 \in Nat
  BY <1>1
<1>3. <<>> \in Seq(Ids)
  BY EmptySeq
<1> QED BY <1>2, <1>3 DEF Synthesized, WordInfo

LEMMA PathEndType ==
    ASSUME TextInv, Built, Tiles
    PROVE  PathEnd \in 0 .. CharLen /\ \A k \in 1 .. Len(nodes) : nodes[k].end <= PathEnd
<1>1. nodes \in Seq(PathNode) /\ Len(nodes) \in Nat /\ (nodes # <<>> => Len(nodes) \in 1 .. Len(nodes))
  BY LenProperties, EmptySeq DEF Tiles
<1>2. ASSUME NEW k \in 1 .. Len(nodes) PROVE nodes[k].end <= nodes[Len(nodes)].end
  <2>1. Len(nodes) \in 1 .. Len(nodes)
    BY <1>1
  <2>2. NodeOK(nodes[k]) /\ NodeOK(nodes[Len(nodes)])
    BY <2>1 DEF Tiles
  <2>3. k < Len(nodes) => nodes[k].end <= nodes[Len(nodes)].begin
    BY <2>1 DEF Tiles
  <2> QED BY <2>2, <2>3, <1>1 DEF NodeOK
<1>3. nodes # <<>> => nodes[Len(nodes)].end \in 0 .. CharLen
  BY <1>1 DEF Tiles, NodeOK
<1>4. CharLen \in Nat
  BY OffsetsAscend
<1>5. nodes = <<>> => Len(nodes) = 0
  BY <1>1
<1> QED BY <1>1, <1>2, <1>3, <1>4, <1>5 DEF PathEnd

\* toPath puts a node behind the others.
LEMMA TilesAppend ==
    ASSUME TextInv, Built, Tiles, NEW e \in PathEnd + 1 .. CharLen, NEW w \in Ids \cup {Oov},
           NEW info \in WordInfo, nodes' = Append(nodes, NodeTo(e, w, info)), UNCHANGED textVars
    PROVE  Tiles'
<1> DEFINE n == NodeTo(e, w, info)
           len == Len(nodes)
<1>1. /\ PathEnd \in 0 .. CharLen /\ CharLen \in Nat /\ e \in 0 .. CharLen /\ PathEnd < e
      /\ \A k \in 1 .. len : nodes[k].end <= PathEnd
  BY PathEndType, OffsetsAscend
<1>2. ByteOffset(PathEnd) \in Nat /\ ByteOffset(e) \in Nat
  BY <1>1, OffsetsAscend
<1>3. n \in PathNode /\ NodeOK(n) /\ n.begin = PathEnd /\ n.end = e
  BY <1>1, <1>2 DEF NodeTo, PathNode, NodeOK
<1> HIDE DEF n
<1>4. /\ nodes' \in Seq(PathNode) /\ Len(nodes') = len + 1 /\ len \in Nat /\ nodes'[len + 1] = n
      /\ \A k \in 1 .. len : nodes'[k] = nodes[k]
  BY <1>3, AppendProperties, LenProperties DEF Tiles, n
<1>5. \A k \in 1 .. len + 1 : k \in 1 .. len \/ k = len + 1
  BY <1>4
<1>6. \A k \in 1 .. len + 1 : NodeOK(nodes'[k])
  BY <1>3, <1>4, <1>5 DEF Tiles
<1>7. \A k, l \in 1 .. len + 1 : k < l => nodes'[k].end <= nodes'[l].begin
  <2> TAKE k, l \in 1 .. len + 1
  <2> HAVE k < l
  <2>1. k \in 1 .. len
    BY <1>4
  <2> QED BY <2>1, <1>1, <1>3, <1>4, <1>5 DEF Tiles
<1>8. \A k \in 1 .. len : nodes'[k].end = nodes'[k + 1].begin
  <2> TAKE k \in 1 .. len
  <2>1. CASE k = len
    <3>1. nodes # <<>> /\ nodes[k].end = PathEnd
      BY <2>1, <1>4, EmptySeq DEF PathEnd
    <3> QED BY <3>1, <2>1, <1>3, <1>4
  <2>2. CASE k < len
    <3>1. k \in 1 .. len - 1 /\ k + 1 \in 1 .. len
      BY <2>2, <1>4
    <3> QED BY <3>1, <1>4 DEF Tiles
  <2> QED BY <2>1, <2>2, <1>4
<1>9. nodes'[1].begin = 0
  <2>1. CASE nodes = <<>>
    BY <2>1, <1>3, <1>4, EmptySeq DEF PathEnd
  <2>2. CASE nodes # <<>>
    <3>1. 1 \in 1 .. len
      BY <2>2, <1>4, EmptySeq DEF Tiles
    <3>2. nodes[1].begin = 0
      BY <2>2 DEF Tiles
    <3>3. nodes'[1] = nodes[1]
      BY <3>1, <1>4
    <3> QED BY <3>2, <3>3
  <2> QED BY <2>1, <2>2
<1> QED BY <1>4, <1>6, <1>7, <1>8, <1>9 DEF Tiles, NodeOK, CharLen, ByteOffset, textVars

LEMMA ReplaceFacts ==
    ASSUME nodes \in Seq(PathNode), NEW i \in 1 .. Len(nodes), NEW j \in i .. Len(nodes), NEW n \in PathNode
    PROVE  /\ Replace(i, j, n) \in Seq(PathNode) /\ Len(Replace(i, j, n)) = Len(nodes) - (j - i)
           /\ \A k \in 1 .. i - 1 : Replace(i, j, n)[k] = nodes[k]
           /\ Replace(i, j, n)[i] = n
           /\ \A k \in i + 1 .. Len(nodes) - (j - i) : Replace(i, j, n)[k] = nodes[k + (j - i)]
<1> DEFINE len == Len(nodes)
           a == SubSeq(nodes, 1, i - 1)
           b == SubSeq(nodes, j + 1, Len(nodes))
<1>1. len \in Nat /\ i \in Nat /\ j \in Nat /\ \A k \in 1 .. len : nodes[k] \in PathNode
  BY LenProperties, ElementOfSeq
<1>2. a \in Seq(PathNode) /\ Len(a) = i - 1 /\ \A k \in 1 .. i - 1 : a[k] = nodes[k]
  BY <1>1, SubSeqProperties
<1>3. b \in Seq(PathNode) /\ Len(b) = len - j /\ \A k \in 1 .. len - j : b[k] = nodes[j + k]
  <2>1. j + 1 \in Int /\ len \in Int /\ \A k \in j + 1 .. len : nodes[k] \in PathNode
    BY <1>1
  <2>2. /\ b \in Seq(PathNode) /\ Len(b) = IF j + 1 <= len THEN len - (j + 1) + 1 ELSE 0
        /\ \A k \in 1 .. len - (j + 1) + 1 : b[k] = nodes[j + 1 + k - 1]
    BY <2>1, SubSeqProperties
  <2>3. len - (j + 1) + 1 = len - j
    BY <1>1
  <2>4. ASSUME NEW k \in 1 .. len - j PROVE b[k] = nodes[j + k]
    <3>1. j + 1 + k - 1 = j + k /\ k \in 1 .. len - (j + 1) + 1
      BY <1>1
    <3> QED BY <3>1, <2>2
  <2>5. Len(b) = len - j
    BY <2>2, <1>1
  <2> QED BY <2>2, <2>4, <2>5
<1> HIDE DEF a, b
<1>4. <<n>> \in Seq(PathNode) /\ Len(<<n>>) = 1 /\ <<n>>[1] = n
  OBVIOUS
<1>5. /\ a \o <<n>> \in Seq(PathNode) /\ Len(a \o <<n>>) = i
      /\ \A k \in 1 .. i : (a \o <<n>>)[k] = IF k < i THEN nodes[k] ELSE n
  <2>1. /\ a \o <<n>> \in Seq(PathNode) /\ Len(a \o <<n>>) = Len(a) + 1
        /\ \A k \in 1 .. Len(a) + 1 :
               (a \o <<n>>)[k] = IF k <= Len(a) THEN a[k] ELSE <<n>>[k - Len(a)]
    BY <1>2, <1>4, ConcatProperties
  <2> QED BY <2>1, <1>1, <1>2, <1>4
<1>6. /\ (a \o <<n>>) \o b \in Seq(PathNode) /\ Len((a \o <<n>>) \o b) = i + (len - j)
      /\ \A k \in 1 .. i + (len - j) :
             ((a \o <<n>>) \o b)[k] = IF k <= i THEN (a \o <<n>>)[k] ELSE b[k - i]
  <2> DEFINE c == a \o <<n>>
  <2>1. c \in Seq(PathNode) /\ Len(c) = i
    BY <1>5
  <2> HIDE DEF c
  <2>2. /\ c \o b \in Seq(PathNode) /\ Len(c \o b) = Len(c) + Len(b)
        /\ \A k \in 1 .. Len(c) + Len(b) :
               (c \o b)[k] = IF k <= Len(c) THEN c[k] ELSE b[k - Len(c)]
    BY <2>1, <1>3, ConcatProperties
  <2>3. /\ c \o b \in Seq(PathNode) /\ Len(c \o b) = i + (len - j)
        /\ \A k \in 1 .. i + (len - j) : (c \o b)[k] = IF k <= i THEN c[k] ELSE b[k - i]
    BY <2>1, <2>2, <1>3
  <2> QED BY <2>3 DEF c
<1>7. Replace(i, j, n) = (a \o <<n>>) \o b
  BY DEF Replace, a, b
<1>8. ASSUME NEW k \in i + 1 .. len - (j - i)
      PROVE  ((a \o <<n>>) \o b)[k] = nodes[k + (j - i)]
  <2>1. k \in 1 .. i + (len - j) /\ ~(k <= i) /\ k - i \in 1 .. len - j /\ j + (k - i) = k + (j - i)
    BY <1>1
  <2> QED BY <2>1, <1>3, <1>6
<1>9. i \in 1 .. i /\ i \in 1 .. i + (len - j) /\ \A k \in 1 .. i - 1 : k \in 1 .. i + (len - j)
  BY <1>1
<1>10. i + (len - j) = len - (j - i)
  BY <1>1
<1>11. ((a \o <<n>>) \o b)[i] = n /\ \A k \in 1 .. i - 1 : ((a \o <<n>>) \o b)[k] = nodes[k]
  BY <1>1, <1>5, <1>6, <1>9
<1> QED BY <1>6, <1>7, <1>8, <1>10, <1>11

\* What a rewriter puts for nodes i to j.
Whole(n, i, j) ==
    /\ n \in PathNode /\ n.begin = nodes[i].begin /\ n.end = nodes[j].end
    /\ n.beginByte = nodes[i].beginByte /\ n.endByte = nodes[j].endByte
    /\ n.info.unitsA = <<>> /\ n.info.unitsB = <<>>

LEMMA TilesJoin ==
    ASSUME TextInv, Built, Tiles, NEW i \in 1 .. Len(nodes), NEW j \in i .. Len(nodes), NEW n,
           Whole(n, i, j), nodes' = Replace(i, j, n), UNCHANGED textVars
    PROVE  Tiles' /\ PathEnd' = PathEnd
<1> DEFINE len == Len(nodes)
           d == j - i
           size == len - d
<1>1. /\ len \in Nat /\ i \in Nat /\ j \in Nat /\ d \in Nat /\ size \in Nat /\ i <= size
      /\ j \in 1 .. len
  BY LenProperties DEF Tiles
<1>2. /\ nodes' \in Seq(PathNode) /\ Len(nodes') = size /\ nodes'[i] = n
      /\ \A k \in 1 .. i - 1 : nodes'[k] = nodes[k]
      /\ \A k \in i + 1 .. size : nodes'[k] = nodes[k + d]
  BY ReplaceFacts DEF Whole, Tiles
\* Where the node that is now the k-th begins and ends in the old path.
<1> DEFINE fst(k) == IF k <= i THEN k ELSE k + d
           lst(k) == IF k < i THEN k ELSE k + d
<1>3. ASSUME NEW k \in 1 .. size
      PROVE  /\ fst(k) \in 1 .. len /\ lst(k) \in 1 .. len /\ fst(k) <= lst(k)
             /\ nodes'[k].begin = nodes[fst(k)].begin /\ nodes'[k].end = nodes[lst(k)].end
  <2>1. CASE k < i
    <3>1. k \in 1 .. i - 1
      BY <2>1, <1>1
    <3> QED BY <3>1, <2>1, <1>1, <1>2
  <2>2. CASE k = i
    <3>1. k + d = j
      BY <2>2, <1>1
    <3> QED BY <3>1, <2>2, <1>1, <1>2 DEF Whole
  <2>3. CASE k > i
    <3>1. k \in i + 1 .. size /\ k + d \in 1 .. len
      BY <2>3, <1>1
    <3> QED BY <3>1, <2>3, <1>1, <1>2
  <2> QED BY <2>1, <2>2, <2>3, <1>1
<1>4. ASSUME NEW k \in 1 .. size PROVE NodeOK(nodes'[k])
  <2>1. CASE k = i
    <3>1. NodeOK(nodes[i]) /\ NodeOK(nodes[j]) /\ (i < j => nodes[i].end <= nodes[j].begin)
      BY <1>1 DEF Tiles
    <3>2. n.begin < n.end
      BY <3>1, <1>1 DEF Whole, NodeOK
    <3> QED BY <3>1, <3>2, <2>1, <1>2 DEF Whole, NodeOK
  <2>2. CASE k # i
    <3>1. \E m \in 1 .. len : nodes'[k] = nodes[m]
      <4>1. k < i => k \in 1 .. i - 1 /\ k \in 1 .. len
        BY <1>1
      <4>2. k > i => k \in i + 1 .. size /\ k + d \in 1 .. len
        BY <1>1
      <4> QED BY <4>1, <4>2, <2>2, <1>1, <1>2
    <3> QED BY <3>1 DEF Tiles
  <2> QED BY <2>1, <2>2
<1>5. ASSUME NEW k \in 1 .. size, NEW l \in 1 .. size, k < l
      PROVE  nodes'[k].end <= nodes'[l].begin
  <2>1. lst(k) \in 1 .. len /\ fst(l) \in 1 .. len /\ lst(k) < fst(l)
    BY <1>1, <1>3, <1>5
  <2>2. nodes[lst(k)].end <= nodes[fst(l)].begin
    BY <2>1 DEF Tiles
  <2> QED BY <2>2, <1>3
<1>6. ASSUME NEW k \in 1 .. size - 1 PROVE nodes'[k].end = nodes'[k + 1].begin
  <2>1. k \in 1 .. size /\ k + 1 \in 1 .. size
    BY <1>1
  <2>2. lst(k) + 1 = fst(k + 1) /\ lst(k) \in 1 .. len - 1
    <3>1. fst(k + 1) = IF k < i THEN k + 1 ELSE k + 1 + d
      BY <2>1, <1>1
    <3> QED BY <3>1, <2>1, <1>1
  <2>3. nodes[lst(k)].end = nodes[lst(k) + 1].begin
    BY <2>2 DEF Tiles
  <2>4. nodes'[k].end = nodes[lst(k)].end /\ nodes'[k + 1].begin = nodes[fst(k + 1)].begin
    BY <2>1, <1>3
  <2> HIDE DEF fst, lst
  <2> QED BY <2>2, <2>3, <2>4
<1>7. nodes'[1].begin = 0
  <2>1. 1 \in 1 .. size /\ fst(1) = 1
    BY <1>1
  <2>2. nodes # <<>>
    BY <1>1, EmptySeq
  <2>3. nodes'[1].begin = nodes[fst(1)].begin
    BY <2>1, <1>3
  <2> HIDE DEF fst
  <2> QED BY <2>1, <2>2, <2>3 DEF Tiles
<1>8. PathEnd' = PathEnd
  <2>1. size \in 1 .. size /\ lst(size) = len
    BY <1>1
  <2>2. nodes # <<>> /\ nodes' # <<>>
    BY <1>1, <1>2, EmptySeq
  <2>3. nodes'[size].end = nodes[lst(size)].end
    BY <2>1, <1>3
  <2> HIDE DEF lst
  <2> QED BY <2>1, <2>2, <2>3, <1>2 DEF PathEnd
<1> HIDE DEF size
<1>9. Tiles'
  BY <1>2, <1>4, <1>5, <1>6, <1>7 DEF Tiles, NodeOK, CharLen, ByteOffset, textVars
<1> QED BY <1>8, <1>9

LEMMA JoinNodesWhole ==
    ASSUME Tiles, NEW i \in 1 .. Len(nodes), NEW j \in i .. Len(nodes), JoinNodes(i, j)
    PROVE  \E n : Whole(n, i, j) /\ nodes' = Replace(i, j, n)
<1> DEFINE heads == [k \in 1 .. j - i + 1 |-> nodes[i + k - 1].info.head]
           info == Synthesized(Total(heads), nodes[i].info.pos)
           n == Joined(i, j, Oov, info)
<1>1. nodes' = Replace(i, j, n)
  BY DEF JoinNodes
<1>2. \A k \in 1 .. Len(nodes) : nodes[k] \in PathNode
  BY ElementOfSeq DEF Tiles
<1>3. Len(nodes) \in Nat
  BY LenProperties DEF Tiles
<1>4. /\ i \in Nat /\ j \in 1 .. Len(nodes) /\ j - i + 1 \in Nat
      /\ \A k \in 1 .. j - i + 1 : i + k - 1 \in 1 .. Len(nodes)
  BY <1>3
<1>5. \A k \in 1 .. j - i + 1 : nodes[i + k - 1].info.head \in Nat
  BY <1>2, <1>4 DEF PathNode, WordInfo
<1>6. Total(heads) \in Nat
  <2>1. Len(heads) = j - i + 1 /\ \A k \in 1 .. j - i + 1 : heads[k] \in Nat
    BY <1>4, <1>5
  <2> HIDE DEF heads
  <2>2. j - i + 1 \in 0 .. j - i + 1
    BY <1>4
  <2> QED BY <2>1, <2>2, <1>4, SumsFacts DEF Total
<1>7. info \in WordInfo /\ info.unitsA = <<>> /\ info.unitsB = <<>>
  <2> HIDE DEF heads
  <2>1. nodes[i].info.pos \in Nat
    BY <1>2 DEF PathNode, WordInfo
  <2>2. info \in WordInfo
    BY <2>1, <1>6, SynthesizedType
  <2> QED BY <2>2 DEF Synthesized
<1> HIDE DEF info
<1>8. Whole(n, i, j)
  BY <1>2, <1>4, <1>7 DEF Whole, Joined, PathNode
<1> QED BY <1>1, <1>8

LEMMA JoinOOVNodesWhole ==
    ASSUME TextInv, Built, Tiles,
           NEW i \in 1 .. Len(nodes), NEW j \in i .. Len(nodes), JoinOOVNodes(i, j)
    PROVE  \E n : Whole(n, i, j) /\ nodes' = Replace(i, j, n)
<1> DEFINE words == {nodes[k].word : k \in i .. j}
           w == IF Oov \in words THEN Oov ELSE CHOOSE x \in words : \A y \in words : y <= x
           info == InfoOfJoined(w, nodes[j].endByte - nodes[i].beginByte)
           n == Joined(i, j, w, info)
<1>1. nodes' = Replace(i, j, n)
  BY DEF JoinOOVNodes
<1>2. \A k \in 1 .. Len(nodes) : nodes[k] \in PathNode
  BY ElementOfSeq DEF Tiles
<1>3. Len(nodes) \in Nat
  BY LenProperties DEF Tiles
<1>4. i \in Nat /\ j \in Nat /\ i <= j /\ j \in 1 .. Len(nodes) /\ i .. j \subseteq 1 .. Len(nodes)
  BY <1>3
<1>5. w \in Ids \cup {Oov}
  <2>1. words \subseteq Ids \cup {Oov}
    BY <1>2, <1>4 DEF PathNode
  <2>2. ASSUME Oov \notin words PROVE \E x \in words : \A y \in words : y <= x
    <3> DEFINE f == [k \in i .. j |-> nodes[k].word]
    <3>1. \A k \in i .. j : f[k] \in Int
      <4>1. \A k \in i .. j : f[k] \in words
        OBVIOUS
      <4> QED BY <4>1, <2>1, <2>2, MorphemesAssumption
    <3>2. words = {f[k] : k \in i .. j}
      OBVIOUS
    <3> HIDE DEF f, words
    <3>3. \E x \in i .. j : \A y \in i .. j : f[y] <= f[x]
      BY <3>1, <1>4, LargestValue
    <3> QED BY <3>2, <3>3
  <2> HIDE DEF words
  <2> QED BY <2>1, <2>2
<1> HIDE DEF w
<1>6. info \in WordInfo /\ info.unitsA = <<>> /\ info.unitsB = <<>>
  <2>1. nodes[j].endByte - nodes[i].beginByte \in Int
    BY <1>2, <1>4 DEF PathNode
  <2>2. info \in WordInfo
    BY <2>1, SynthesizedType, MorphemesAssumption DEF InfoOfJoined
  <2> QED BY <2>2 DEF Synthesized, InfoOfJoined
<1> HIDE DEF info
<1>7. Whole(n, i, j)
  BY <1>2, <1>4, <1>5, <1>6 DEF Whole, Joined, PathNode
<1> QED BY <1>1, <1>7

-----------------------------------------------------------------------------
(* The units                                                                *)

\* A unit put behind the others, which are left as they are.
Added(u) ==
    /\ Len(out') = Len(out) + 1 /\ out'[Len(out) + 1] = u
    /\ \A k \in 1 .. Len(out) : out'[k] = out[k]

LEMMA UnitsAppend ==
    ASSUME TextInv, Built, Units, NEW u \in PathNode, UnitOK(u), u.beginByte = OutEnd,
           out' = Append(out, u), UNCHANGED textVars
    PROVE  Units' /\ OutEnd' = u.endByte /\ Added(u)
<1> DEFINE len == Len(out)
<1>1. /\ out' \in Seq(PathNode) /\ Len(out') = len + 1 /\ len \in Nat /\ out'[len + 1] = u
      /\ \A k \in 1 .. len : out'[k] = out[k]
  BY AppendProperties, LenProperties DEF Units
<1>2. OutEnd' = u.endByte
  <2>1. out' # <<>>
    BY <1>1, EmptySeq
  <2> QED BY <2>1, <1>1 DEF OutEnd
<1>3. ASSUME NEW k \in 1 .. len + 1 PROVE UnitOK(out'[k]) /\ out'[k].endByte <= u.endByte
  <2>1. CASE k = len + 1
    BY <2>1, <1>1 DEF UnitOK
  <2>2. CASE k \in 1 .. len
    <3>1. UnitOK(out[k]) /\ out[k].endByte <= OutEnd /\ out'[k] = out[k]
      BY <2>2, <1>1 DEF Units
    <3> QED BY <3>1, OffsetsAscend DEF UnitOK
  <2> QED BY <2>1, <2>2, <1>1
<1>4. ASSUME NEW k \in 1 .. len PROVE out'[k].endByte = out'[k + 1].beginByte
  <2>1. CASE k = len
    <3>1. out # <<>>
      BY <1>1, EmptySeq
    <3> QED BY <3>1, <2>1, <1>1 DEF OutEnd
  <2>2. CASE k < len
    <3>1. k \in 1 .. len - 1 /\ k + 1 \in 1 .. len
      BY <2>2, <1>1
    <3> QED BY <3>1, <1>1 DEF Units
  <2> QED BY <2>1, <2>2, <1>1
<1>5. out'[1].beginByte = 0
  <2>1. CASE out = <<>>
    BY <2>1, <1>1, EmptySeq DEF OutEnd
  <2>2. CASE out # <<>>
    <3>1. 1 \in 1 .. len
      BY <2>2, <1>1, EmptySeq DEF Units
    <3> QED BY <3>1, <2>2, <1>1 DEF Units
  <2> QED BY <2>1, <2>2
<1>6. Units'
  BY <1>1, <1>2, <1>3, <1>4, <1>5, SMTT(30) DEF Units, UnitOK, ByteLen, CharIndex, textVars
<1> QED BY <1>1, <1>2, <1>6 DEF Added

\* What is put behind leaves a node treated, unless it has bytes and lies in it.
LEMMA TreatedAppend ==
    ASSUME NEW m, Treated(nodes[m]), out \in Seq(PathNode), NEW u, Added(u), UNCHANGED <<nodes, mode>>,
           Within(u, nodes[m]) => ~(u.beginByte < u.endByte)
    PROVE  Treated(nodes[m])'
<1>1. Len(out) \in Nat
  BY LenProperties
<1>2. \A k \in 1 .. Len(out) : k \in 1 .. Len(out') /\ out'[k] = out[k]
  BY <1>1 DEF Added
<1>3. \A k \in 1 .. Len(out') : k \in 1 .. Len(out) \/ out'[k] = u
  <2>1. \A k \in 1 .. Len(out) + 1 : k \in 1 .. Len(out) \/ k = Len(out) + 1
    BY <1>1
  <2> QED BY <2>1 DEF Added
<1>4. AsLong(nodes[m]) => AsLong(nodes[m])'
  BY <1>2, <1>3 DEF AsLong, Within
<1>5. Fits(nodes[m])' <=> Fits(nodes[m])
  BY DEF Fits, UnitsOf
<1> QED BY <1>2, <1>4, <1>5 DEF Treated

\* Where split is, its result ends in front of every node still to be treated.
LEMMA AllTreatedAppend ==
    ASSUME TextInv, Built, Tiles, Units, NEW here \in 1 .. Len(nodes),
           \A m \in 1 .. here - 1 : Treated(nodes[m]),
           NEW u, Added(u), UNCHANGED <<nodes, mode>>, nodes[here].beginByte <= u.beginByte,
           u.beginByte \in Nat, u.endByte \in Nat
    PROVE  \A m \in 1 .. here - 1 : Treated(nodes[m])'
<1> TAKE m \in 1 .. here - 1
<1>1. m \in 1 .. Len(nodes) /\ m < here
  BY LenProperties DEF Tiles
<1>2. /\ nodes[m].endByte <= nodes[here].beginByte
      /\ nodes[m].endByte \in Int /\ nodes[here].beginByte \in Int
  BY <1>1, PathOrder DEF UnitOK
<1>3. Within(u, nodes[m]) => ~(u.beginByte < u.endByte)
  BY <1>2 DEF Within
<1> QED BY <1>3, TreatedAppend DEF Units

\* A joined node has no units.
LEMMA JoinedNoUnits ==
    ASSUME NEW n, NodeOK(n), n.joined
    PROVE  UnitsOf(n) = <<>>
BY DEF NodeOK, UnitsOf

LEMMA UnitsOfType ==
    ASSUME NEW n \in PathNode
    PROVE  UnitsOf(n) \in Seq(Ids) /\ Len(UnitsOf(n)) \in Nat
<1>1. UnitsOf(n) \in Seq(Ids)
  BY EmptySeq DEF UnitsOf, PathNode, WordInfo
<1> QED BY <1>1, LenProperties

\* The lengths of words that are all known.
LEMMA HeadsFacts ==
    ASSUME NEW u \in Seq(Ids), \A k \in 1 .. Len(u) : u[k] \in DOMAIN Lexicon
    PROVE  /\ Sums(Heads(u))[0] = 0
           /\ \A k \in 0 .. Len(u) : /\ Sums(Heads(u))[k] \in Nat
                                     /\ Sums(Heads(u))[k] <= Total(Heads(u))
           /\ \A k \in 1 .. Len(u) :
                  Sums(Heads(u))[k] = Sums(Heads(u))[k - 1] + Lexicon[u[k]].head
           /\ Total(Heads(u)) = Sums(Heads(u))[Len(u)]
<1>1. Len(u) \in Nat /\ DOMAIN u = 1 .. Len(u)
  BY LenProperties
<1>2. ASSUME NEW k \in 1 .. Len(u) PROVE Lexicon[u[k]].head \in Nat
  <2>1. Lexicon[u[k]] \in WordInfo
    BY MorphemesAssumption
  <2> QED BY <2>1 DEF WordInfo
<1> DEFINE h == Heads(u)
<1>3. h = [k \in 1 .. Len(u) |-> Lexicon[u[k]].head]
  BY <1>1 DEF Heads
<1>4. Len(h) = Len(u) /\ \A k \in 1 .. Len(u) : h[k] = Lexicon[u[k]].head /\ h[k] \in Nat
  BY <1>1, <1>2, <1>3
<1> HIDE DEF h
<1>5. /\ Sums(h)[0] = 0 /\ \A k \in 0 .. Len(u) : Sums(h)[k] \in Nat
      /\ \A k \in 1 .. Len(u) : Sums(h)[k] = Sums(h)[k - 1] + h[k]
      /\ \A k \in 0 .. Len(u) : Sums(h)[k] <= Sums(h)[Len(u)]
  BY <1>1, <1>4, SumsFacts
<1>6. Total(h) = Sums(h)[Len(u)]
  BY <1>4 DEF Total
<1> QED BY <1>4, <1>5, <1>6 DEF h

-----------------------------------------------------------------------------
(* The steps of split                                                       *)

\* While split is among the nodes.
LEMMA SplitFacts ==
    ASSUME MorphemesInv, phase \in {"split", "units"}
    PROVE  /\ TextInv /\ Built /\ Tiles /\ Units /\ mode # "C" /\ PathEnd = CharLen
           /\ splitAt \in 1 .. Len(nodes) + 1 /\ Len(nodes) \in Nat /\ Len(out) \in Nat
           /\ \A m \in 1 .. splitAt - 1 : Treated(nodes[m])
<1>1. Len(nodes) \in Nat /\ Len(out) \in Nat
  BY LenProperties DEF MorphemesInv, Tiles, Units
<1> QED BY <1>1 DEF MorphemesInv, Stages, Splitting

\* Everything before the node at hand ends where the node begins.
LEMMA BehindFacts ==
    ASSUME MorphemesInv, phase = "split", splitAt <= Len(nodes)
    PROVE  splitAt \in 1 .. Len(nodes) /\ OutEnd = nodes[splitAt].beginByte
<1>1. /\ TextInv /\ Built /\ Tiles /\ splitAt \in 1 .. Len(nodes) + 1 /\ Len(nodes) \in Nat
      /\ OutEnd = SplitBehind(splitAt - 1)
  BY SplitFacts DEF MorphemesInv, Splitting
<1>2. splitAt \in 1 .. Len(nodes)
  BY <1>1
<1>3. CASE splitAt = 1
  <2>1. nodes # <<>>
    BY <1>1, <1>2, EmptySeq
  <2>2. nodes[1].begin = 0 /\ NodeOK(nodes[1])
    BY <2>1, <1>2, <1>3 DEF MorphemesInv, Tiles
  <2>3. nodes[1].beginByte = 0
    BY <2>2, <1>1, OffsetsAscend DEF NodeOK
  <2> QED BY <2>3, <1>1, <1>2, <1>3 DEF SplitBehind
<1>4. CASE splitAt # 1
  <2>1. splitAt - 1 \in 1 .. Len(nodes) - 1 /\ splitAt - 1 # 0 /\ splitAt - 1 + 1 = splitAt
    BY <1>1, <1>2, <1>4
  <2>2. nodes[splitAt - 1].endByte = nodes[splitAt - 1 + 1].beginByte
    BY <2>1, <1>1, PathOrder
  <2> QED BY <2>1, <2>2, <1>1, <1>2 DEF SplitBehind
<1> QED BY <1>3, <1>4

LEMMA KeepNodeStep ==
    ASSUME MorphemesInv, KeepNode
    PROVE  Units' /\ Splitting'
<1> DEFINE u == nodes[splitAt]
<1>1. /\ phase = "split" /\ splitAt <= Len(nodes) /\ Len(UnitsOf(u)) <= 1
      /\ out' = Append(out, u) /\ splitAt' = splitAt + 1 /\ phase' = phase
      /\ UNCHANGED <<textVars, mode, nodes>>
  BY DEF KeepNode
<1>2. /\ TextInv /\ Built /\ Tiles /\ Units /\ mode # "C" /\ Len(nodes) \in Nat
      /\ Len(out) \in Nat /\ \A m \in 1 .. splitAt - 1 : Treated(nodes[m])
  BY <1>1, SplitFacts
<1>3. splitAt \in 1 .. Len(nodes) /\ OutEnd = u.beginByte
  BY <1>1, BehindFacts
<1>4. u \in PathNode /\ NodeOK(u) /\ UnitOK(u)
  BY <1>2, <1>3, PathOrder, ElementOfSeq DEF Tiles
<1>5. Units' /\ OutEnd' = u.endByte /\ Added(u)
  BY <1>1, <1>2, <1>3, <1>4, UnitsAppend
<1>6. u.beginByte \in Nat /\ u.endByte \in Nat /\ nodes[splitAt].beginByte <= u.beginByte
  BY <1>4 DEF PathNode
<1>7. \A m \in 1 .. splitAt - 1 : Treated(nodes[m])'
  BY <1>1, <1>2, <1>3, <1>5, <1>6, AllTreatedAppend
<1>8. ASSUME NEW m \in 1 .. splitAt PROVE Treated(nodes[m])'
  <2>1. CASE m = splitAt
    <3>1. Len(out) + 1 \in 1 .. Len(out') /\ out'[Len(out) + 1] = u
      BY <1>2, <1>5 DEF Added
    <3>2. ~Fits(nodes[m])
      <4>1. Len(UnitsOf(u)) \in Nat
        BY <1>4, UnitsOfType
      <4> QED BY <4>1, <2>1, <1>1 DEF Fits
    <3>3. ~Fits(nodes[m])' /\ nodes'[m] = u
      BY <3>2, <2>1, <1>1 DEF Fits, UnitsOf
    <3> QED BY <3>1, <3>3, <1>1 DEF Treated
  <2>2. CASE m # splitAt
    <3>1. m \in 1 .. splitAt - 1
      BY <2>2, <1>3
    <3> QED BY <3>1, <1>7
  <2> QED BY <2>1, <2>2
<1>9. OutEnd' = SplitBehind(splitAt - 1)'
  BY <1>1, <1>3, <1>5 DEF SplitBehind
<1>10. Splitting'
  <2>1. splitAt' \in 1 .. Len(nodes') + 1 /\ splitAt' - 1 = splitAt
    BY <1>1, <1>2, <1>3
  <2> QED BY <2>1, <1>1, <1>2, <1>8, <1>9 DEF Splitting
<1> QED BY <1>5, <1>10

LEMMA StartUnitsStep ==
    ASSUME MorphemesInv, StartUnits
    PROVE  Splitting'
<1> DEFINE n == nodes[splitAt]
           u == UnitsOf(n)
<1>1. /\ phase = "split" /\ splitAt <= Len(nodes) /\ Len(u) > 1 /\ rest' = u
      /\ begin' = n.beginByte /\ phase' = "units"
      /\ UNCHANGED <<textVars, mode, nodes, splitAt, out>>
  BY DEF StartUnits
<1>2. /\ TextInv /\ Built /\ Tiles /\ Units /\ mode # "C" /\ Len(nodes) \in Nat
      /\ splitAt \in 1 .. Len(nodes) + 1 /\ Len(out) \in Nat
      /\ \A m \in 1 .. splitAt - 1 : Treated(nodes[m])
  BY <1>1, SplitFacts
<1>3. splitAt \in 1 .. Len(nodes) /\ OutEnd = n.beginByte
  BY <1>1, BehindFacts
<1>4. /\ n \in PathNode /\ NodeOK(n) /\ n.beginByte < n.endByte
      /\ n.beginByte \in Nat /\ n.endByte \in Nat
  <2>1. n \in PathNode
    BY <1>2, <1>3, ElementOfSeq DEF Tiles
  <2>2. NodeOK(n) /\ n.beginByte < n.endByte
    BY <1>2, <1>3, PathOrder DEF Tiles
  <2> QED BY <2>1, <2>2 DEF PathNode
<1>5. u \in Seq(Ids) /\ Len(u) \in Nat
  BY <1>4, UnitsOfType
<1>6. UnitsOf(n)' = u /\ Fits(n)' = Fits(n) /\ nodes'[splitAt'] = n
  BY <1>1 DEF UnitsOf, Fits
<1>7. ~n.joined
  BY <1>1, <1>4, JoinedNoUnits, EmptySeq
\* What is there already ends in front of the node.
<1>8. AsLong(n)
  <2>1. \A k \in 1 .. Len(out) : /\ out[k].endByte <= n.beginByte
                                 /\ out[k].endByte \in Int /\ out[k].beginByte \in Int
    BY <1>2, <1>3 DEF Units, UnitOK
  <2> QED BY <2>1, <1>4 DEF AsLong, Within
<1>9. AmongUnits'
  <2>1. Done' = 0
    BY <1>1, <1>5, <1>6 DEF Done
  <2>2. \A k \in 1 .. Len(rest') : rest'[k] = u[0 + k]
    BY <1>1, <1>5
  <2>3. rest' # <<>>
    BY <1>1, EmptySeq
  <2>4. begin' \in n.beginByte .. n.endByte /\ OutEnd' = begin'
    BY <1>1, <1>3, <1>4 DEF OutEnd
  <2>5. AsLong(n)'
    BY <1>1, <1>8 DEF AsLong
  <2>6. Fits(n) => begin' = n.beginByte + Sums(Heads(u))[0]
    <3>1. ASSUME Fits(n) PROVE Sums(Heads(u))[0] = 0
      <4>1. \A k \in 1 .. Len(u) : u[k] \in DOMAIN Lexicon
        BY <3>1, <1>5, LenProperties DEF Fits
      <4> QED BY <4>1, <1>5, HeadsFacts
    <3> QED BY <3>1, <1>1, <1>4
  <2> QED BY <2>1, <2>2, <2>3, <2>4, <2>5, <2>6, <1>1, <1>3, <1>5, <1>6, <1>7
         DEF AmongUnits, AsLong, Fits, UnitsOf
<1>10. \A m \in 1 .. splitAt - 1 : Treated(nodes[m])'
  BY <1>1, <1>2 DEF Treated, AsLong, Fits, UnitsOf
<1> QED BY <1>1, <1>2, <1>9, <1>10 DEF Splitting

\* The unit begins where the last ended and does not go past the node; if the
\* units fit, it is as long as its word and the last ends with the node.
LEMMA MakeUnitStep ==
    ASSUME MorphemesInv, MakeUnit
    PROVE  Units' /\ Splitting'
<1> DEFINE n == nodes[splitAt]
           us == UnitsOf(n)
           id == Head(rest)
           end == UnitEnd(n, begin + Lexicon[id].head)
           u == [begin |-> CharIndex(begin), end |-> CharIndex(end), word |-> id,
                 beginByte |-> begin, endByte |-> end, info |-> Lexicon[id], joined |-> FALSE]
<1>1. /\ phase = "units" /\ rest # <<>> /\ id \in DOMAIN Lexicon /\ out' = Append(out, u)
      /\ begin' = end /\ rest' = Tail(rest) /\ phase' = phase
      /\ UNCHANGED <<textVars, mode, nodes, splitAt>>
  BY DEF MakeUnit
<1>2. /\ TextInv /\ Built /\ Tiles /\ Units /\ mode # "C" /\ Len(nodes) \in Nat
      /\ splitAt \in 1 .. Len(nodes) + 1 /\ Len(out) \in Nat
      /\ \A m \in 1 .. splitAt - 1 : Treated(nodes[m])
  BY <1>1, SplitFacts
<1>3. /\ splitAt <= Len(nodes) /\ ~n.joined /\ rest \in Seq(Ids) /\ Done \in Nat
      /\ \A k \in 1 .. Len(rest) : rest[k] = us[Done + k]
      /\ begin \in n.beginByte .. n.endByte /\ OutEnd = begin
      /\ Fits(n) => begin = n.beginByte + Sums(Heads(us))[Done] /\ AsLong(n)
  BY <1>1 DEF MorphemesInv, Splitting, AmongUnits
<1>4. splitAt \in 1 .. Len(nodes)
  BY <1>2, <1>3
<1>5. n \in PathNode /\ n.beginByte \in 0 .. ByteLen /\ n.endByte \in 0 .. ByteLen /\ ByteLen \in Nat
  <2>1. n \in PathNode
    BY <1>2, <1>4, ElementOfSeq DEF Tiles
  <2>2. UnitOK(n)
    BY <1>2, <1>4, PathOrder
  <2> QED BY <2>1, <2>2, <1>2, OffsetsAscend DEF UnitOK
<1>6. us \in Seq(Ids) /\ Len(us) \in Nat /\ Done = Len(us) - Len(rest)
  BY <1>5, UnitsOfType DEF Done
<1>7. /\ Len(rest) \in Nat \ {0} /\ id = rest[1] /\ id \in Ids
      /\ Tail(rest) \in Seq(Ids) /\ Len(Tail(rest)) = Len(rest) - 1
      /\ \A k \in 1 .. Len(rest) - 1 : Tail(rest)[k] = rest[k + 1]
  <2>1. Len(rest) \in Nat /\ Len(rest) # 0
    BY <1>1, <1>3, EmptySeq, LenProperties
  <2>2. /\ Head(rest) \in Ids /\ Tail(rest) \in Seq(Ids) /\ Len(Tail(rest)) = Len(rest) - 1
        /\ \A k \in 1 .. Len(Tail(rest)) : Tail(rest)[k] = rest[k + 1]
    BY <1>1, <1>3, HeadTailProperties
  <2> QED BY <2>1, <2>2, <1>1, <1>3
<1>8. Lexicon[id] \in WordInfo /\ Lexicon[id].head \in Nat
  BY <1>1, MorphemesAssumption DEF WordInfo
<1>9. begin \in Nat /\ end \in begin .. n.endByte /\ (Len(rest) = 1 => end = n.endByte)
  <2>1. begin \in Nat /\ n.endByte \in Nat /\ begin <= n.endByte
    BY <1>3, <1>5
  <2>2. begin + Lexicon[id].head \in Nat /\ begin <= begin + Lexicon[id].head
    BY <2>1, <1>8
  <2> HIDE DEF id, n
  <2>3. end = IF Len(rest) = 1 \/ begin + Lexicon[id].head > n.endByte
              THEN n.endByte ELSE begin + Lexicon[id].head
    BY DEF UnitEnd
  <2> QED BY <2>1, <2>2, <2>3, <1>7
<1>10. Done + 1 \in 1 .. Len(us) /\ us[Done + 1] = id
  BY <1>3, <1>6, <1>7
<1>11. ASSUME Fits(n)
       PROVE  /\ end = begin + Lexicon[id].head
              /\ end = n.beginByte + Sums(Heads(us))[Done + 1]
  <2>1. /\ \A k \in 1 .. Len(us) : us[k] \in DOMAIN Lexicon
        /\ Total(Heads(us)) = n.endByte - n.beginByte
    BY <1>6, <1>11, LenProperties DEF Fits
  <2> DEFINE sum == Sums(Heads(us))
  <2>2. sum[Done + 1] = sum[(Done + 1) - 1] + Lexicon[us[Done + 1]].head
    BY <2>1, <1>6, <1>10, HeadsFacts
  <2>3. Done + 1 \in 0 .. Len(us) /\ (Done + 1) - 1 = Done /\ Done \in 0 .. Len(us)
    BY <1>3, <1>6, <1>7
  <2>4. /\ sum[Done] \in Nat /\ sum[Done + 1] \in Nat
        /\ sum[Done + 1] <= Total(Heads(us)) /\ Total(Heads(us)) = sum[Len(us)]
    BY <2>1, <2>3, <1>6, HeadsFacts
  <2>5. begin = n.beginByte + sum[Done]
    BY <1>3, <1>11
  <2> HIDE DEF sum
  <2>6. begin + Lexicon[id].head = n.beginByte + sum[Done + 1]
    BY <2>2, <2>3, <2>4, <2>5, <1>5, <1>8, <1>10
  <2>7. begin + Lexicon[id].head <= n.endByte
    BY <2>1, <2>4, <2>6, <1>5
  <2>8. Len(rest) = 1 => begin + Lexicon[id].head = n.endByte
    <3>1. Len(rest) = 1 => Done + 1 = Len(us)
      BY <1>3, <1>6
    <3> QED BY <3>1, <2>1, <2>4, <2>6, <1>5
  <2>9. end = begin + Lexicon[id].head
    BY <2>7, <2>8, <1>5, <1>8, <1>9 DEF UnitEnd
  <2> QED BY <2>6, <2>9 DEF sum
<1> HIDE DEF end
<1>12. u \in PathNode /\ UnitOK(u)
  <2>1. begin \in 0 .. ByteLen /\ end \in 0 .. ByteLen /\ begin <= end
    BY <1>5, <1>9
  <2>2. CharIndex(begin) \in Nat /\ CharIndex(end) \in Nat
    BY <2>1, <1>2, OffsetsAscend
  <2> QED BY <2>1, <2>2, <1>7, <1>8 DEF PathNode, UnitOK
<1>13. Units' /\ OutEnd' = end /\ Added(u)
  <2>1. u.beginByte = OutEnd /\ u.endByte = end
    BY <1>3
  <2> HIDE DEF u
  <2> QED BY <2>1, <1>1, <1>2, <1>12, UnitsAppend
<1>14. \A m \in 1 .. splitAt - 1 : Treated(nodes[m])'
  <2>1. nodes[splitAt].beginByte <= u.beginByte /\ u.beginByte \in Nat /\ u.endByte \in Nat
    BY <1>3, <1>5, <1>9
  <2> HIDE DEF u
  <2> QED BY <2>1, <1>1, <1>2, <1>4, <1>13, AllTreatedAppend
<1>15. UnitsOf(n)' = us /\ Fits(n)' = Fits(n) /\ nodes'[splitAt'] = n
  BY <1>1 DEF UnitsOf, Fits
<1>16. ASSUME Fits(n) PROVE AsLong(n)'
  <2>1. /\ Len(out') = Len(out) + 1 /\ out'[Len(out) + 1] = u
        /\ \A k \in 1 .. Len(out) : out'[k] = out[k]
    BY <1>13 DEF Added
  <2>2. ASSUME NEW k \in 1 .. Len(out'),
               Within(out'[k], n), out'[k].beginByte < out'[k].endByte
        PROVE  out'[k].endByte - out'[k].beginByte = Lexicon[out'[k].word].head
    <3>1. CASE k = Len(out) + 1
      BY <3>1, <2>1, <1>8, <1>9, <1>11, <1>16
    <3>2. CASE k # Len(out) + 1
      <4>1. k \in 1 .. Len(out)
        BY <3>2, <2>1, <1>2
      <4> QED BY <4>1, <2>1, <2>2, <1>3, <1>16 DEF AsLong
    <3> QED BY <3>1, <3>2
  <2> QED BY <2>2, <1>1 DEF AsLong, Within
<1>17. AmongUnits'
  <2>1. Done' = Done + 1
    BY <1>1, <1>6, <1>7, <1>15 DEF Done
  <2>2. ASSUME NEW k \in 1 .. Len(rest') PROVE rest'[k] = us[Done + 1 + k]
    <3>1. k \in 1 .. Len(rest) - 1 /\ k + 1 \in 1 .. Len(rest) /\ Done + (k + 1) = Done + 1 + k
      BY <1>1, <1>3, <1>7
    <3>2. rest'[k] = rest[k + 1] /\ rest[k + 1] = us[Done + (k + 1)]
      BY <3>1, <1>1, <1>3, <1>7
    <3> QED BY <3>1, <3>2
  <2>3. rest' = <<>> => begin' = n.endByte
    <3>1. rest' = <<>> => Len(rest) = 1
      BY <1>1, <1>7, EmptySeq
    <3> QED BY <3>1, <1>1, <1>9
  <2>4. begin' \in n.beginByte .. n.endByte /\ OutEnd' = begin'
    BY <1>1, <1>3, <1>5, <1>9, <1>13
  <2>5. Fits(n) => begin' = n.beginByte + Sums(Heads(us))[Done + 1]
    BY <1>1, <1>11
  <2>6. rest' \in Seq(Ids) /\ Done + 1 \in Nat /\ splitAt' <= Len(nodes')
    BY <1>1, <1>3, <1>7
  <2> HIDE DEF u
  <2>7. Fits(n) => AsLong(nodes[splitAt])'
    BY <1>16
  <2> QED BY <2>1, <2>2, <2>3, <2>4, <2>5, <2>6, <2>7, <1>1, <1>3, <1>15 DEF AmongUnits
<1> QED BY <1>1, <1>2, <1>13, <1>14, <1>17 DEF Splitting

LEMMA EndUnitsStep ==
    ASSUME MorphemesInv, EndUnits
    PROVE  Splitting'
<1> DEFINE n == nodes[splitAt]
<1>1. /\ phase = "units" /\ rest = <<>> /\ splitAt' = splitAt + 1 /\ phase' = "split"
      /\ UNCHANGED <<textVars, mode, nodes, out>>
  BY DEF EndUnits
<1>2. /\ TextInv /\ Built /\ Tiles /\ Units /\ mode # "C" /\ Len(nodes) \in Nat
      /\ splitAt \in 1 .. Len(nodes) + 1 /\ Len(out) \in Nat
      /\ \A m \in 1 .. splitAt - 1 : Treated(nodes[m])
  BY <1>1, SplitFacts
<1>3. splitAt \in 1 .. Len(nodes) /\ ~n.joined /\ OutEnd = n.endByte /\ (Fits(n) => AsLong(n))
  BY <1>1, <1>2 DEF MorphemesInv, Splitting, AmongUnits
<1>4. UnitOK(n) /\ n.beginByte < n.endByte
  BY <1>2, <1>3, PathOrder
<1>5. Treated(n)
  <2>1. out # <<>>
    BY <1>2, <1>3, <1>4, OffsetsAscend DEF OutEnd, UnitOK
  <2>2. Len(out) \in 1 .. Len(out) /\ out[Len(out)].endByte = n.endByte
    BY <2>1, <1>2, <1>3, EmptySeq DEF OutEnd, Units
  <2> QED BY <2>2, <1>3 DEF Treated
<1>6. ASSUME NEW m \in 1 .. splitAt PROVE Treated(nodes[m])'
  <2>1. Treated(nodes[m])
    <3>1. m = splitAt \/ m \in 1 .. splitAt - 1
      BY <1>3
    <3> QED BY <3>1, <1>2, <1>5
  <2> QED BY <2>1, <1>1 DEF Treated, AsLong, Fits, UnitsOf
<1>7. OutEnd' = SplitBehind(splitAt - 1)' /\ splitAt' \in 1 .. Len(nodes') + 1 /\ splitAt' - 1 = splitAt
  BY <1>1, <1>2, <1>3 DEF OutEnd, SplitBehind
<1> QED BY <1>1, <1>2, <1>6, <1>7 DEF Splitting

\* The path ends with the text.
LEMMA PathEnds ==
    ASSUME TextInv, Built, Tiles, chars # <<>>, PathEnd = CharLen
    PROVE  /\ nodes # <<>> /\ Len(nodes) \in 1 .. Len(nodes)
           /\ nodes[Len(nodes)].endByte = ByteLen /\ ByteLen # 0
<1>1. CharLen # 0 /\ CharLen \in Nat
  BY OffsetsAscend, EmptySeq DEF CharLen, TextInv, Indexed, TextTypes
<1>2. nodes # <<>>
  BY <1>1 DEF PathEnd
<1>3. Len(nodes) \in 1 .. Len(nodes)
  BY <1>2, EmptySeq, LenProperties DEF Tiles
<1>4. NodeOK(nodes[Len(nodes)]) /\ nodes[Len(nodes)].end = CharLen
  BY <1>2, <1>3 DEF Tiles, PathEnd
<1>5. nodes[Len(nodes)].endByte = ByteLen
  BY <1>4, OffsetsAscend DEF NodeOK
<1>6. ByteOffset(0) < ByteOffset(CharLen)
  BY <1>1, OffsetsAscend
<1> QED BY <1>2, <1>3, <1>5, <1>6, OffsetsAscend

LEMMA EndSplitStep ==
    ASSUME MorphemesInv, EndSplit
    PROVE  Splitting'
<1>1. /\ phase = "split" /\ splitAt > Len(nodes) /\ phase' = "morphemes"
      /\ UNCHANGED <<textVars, mode, nodes, splitVars>>
  BY DEF EndSplit
<1>2. /\ TextInv /\ Built /\ Tiles /\ PathEnd = CharLen /\ Len(nodes) \in Nat
      /\ splitAt \in 1 .. Len(nodes) + 1 /\ chars # <<>>
      /\ \A m \in 1 .. splitAt - 1 : Treated(nodes[m])
  BY <1>1, SplitFacts DEF MorphemesInv, Stages
<1>3. splitAt - 1 = Len(nodes) /\ OutEnd = SplitBehind(splitAt - 1)
  BY <1>1, <1>2 DEF MorphemesInv, Splitting
<1>4. OutEnd = ByteLen
  BY <1>2, <1>3, PathEnds DEF SplitBehind
<1>5. \A m \in 1 .. Len(nodes) : Treated(nodes[m])'
  BY <1>1, <1>2, <1>3 DEF splitVars, Treated, AsLong, Fits, UnitsOf
<1> QED BY <1>1, <1>4, <1>5 DEF Splitting, OutEnd, ByteLen, splitVars, textVars

\* Mode C: the nodes are the units.
LEMMA SkipSplitStep ==
    ASSUME MorphemesInv, SkipSplit
    PROVE  Units' /\ Splitting'
<1>1. /\ phase = "rewrite" /\ mode = "C" /\ out' = nodes /\ phase' = "morphemes"
      /\ UNCHANGED <<textVars, mode, nodes>>
  BY DEF SkipSplit
<1>2. TextInv /\ Built /\ Tiles /\ PathEnd = CharLen /\ chars # <<>>
  BY <1>1 DEF MorphemesInv, Stages
<1>3. /\ nodes # <<>> /\ Len(nodes) \in Nat /\ Len(nodes) \in 1 .. Len(nodes)
      /\ nodes[Len(nodes)].endByte = ByteLen
  BY <1>2, PathEnds, LenProperties DEF Tiles
<1>4. OutEnd' = ByteLen
  BY <1>1, <1>3 DEF OutEnd
<1>5. ASSUME NEW k \in 1 .. Len(nodes) PROVE UnitOK(nodes[k]) /\ nodes[k].endByte <= ByteLen
  <2>1. UnitOK(nodes[k])
    BY <1>2, PathOrder
  <2> QED BY <2>1, <1>2, OffsetsAscend DEF UnitOK
<1>6. nodes[1].beginByte = 0
  <2>1. 1 \in 1 .. Len(nodes)
    BY <1>3
  <2>2. NodeOK(nodes[1]) /\ nodes[1].begin = 0
    BY <2>1, <1>2, <1>3 DEF Tiles
  <2> QED BY <2>2, <1>2, OffsetsAscend DEF NodeOK
<1>7. Units'
  <2>1. nodes \in Seq(PathNode) /\ \A k \in 1 .. Len(nodes) - 1 : nodes[k].endByte = nodes[k + 1].beginByte
    BY <1>2, PathOrder DEF Tiles
  <2> QED BY <2>1, <1>1, <1>4, <1>5, <1>6 DEF Units, UnitOK, ByteLen, CharIndex, textVars
<1>8. \A m \in 1 .. Len(nodes) : Treated(nodes[m])'
  BY <1>1 DEF Treated
<1> QED BY <1>1, <1>4, <1>7, <1>8 DEF Splitting, ByteLen, textVars

-----------------------------------------------------------------------------
(* The invariant is inductive                                               *)

LEMMA MorphemesInvInit == MorphemesInit => MorphemesInv
<1> SUFFICES ASSUME MorphemesInit PROVE MorphemesInv
  OBVIOUS
<1>1. /\ TextInit /\ chars # <<>> /\ mode \in {"A", "B", "C", "other"} /\ phase = "build"
      /\ nodes = <<>> /\ out = <<>> /\ splitAt = 1 /\ ms = <<>>
  BY DEF MorphemesInit, NothingMade
<1>2. TextInv
  BY <1>1, TextInvInit
<1>3. Stages
  BY <1>1 DEF Stages
<1>4. Tiles /\ Units /\ Surfaces
  BY <1>1, EmptySeq DEF Tiles, Units, Surfaces
<1>5. Splitting
  BY <1>1 DEF Splitting
<1> QED BY <1>2, <1>3, <1>4, <1>5 DEF MorphemesInv

\* What a step that leaves the text alone keeps.
LEMMA PathTextKept ==
    ASSUME MorphemesInv, UNCHANGED textVars
    PROVE  /\ TextInv' /\ chars' # <<>> /\ (Built' <=> Built)
           /\ CharLen' = CharLen /\ ByteLen' = ByteLen
           /\ UNCHANGED m2o /\ Mapped => Mapped'
           /\ UNCHANGED nodes => Tiles' /\ PathEnd' = PathEnd
           /\ UNCHANGED out => Units' /\ OutEnd' = OutEnd
<1>1. TextInv'
  BY TextInvStep DEF MorphemesInv
<1>2. chars' # <<>> /\ (Built' <=> Built) /\ CharLen' = CharLen /\ ByteLen' = ByteLen
  BY DEF MorphemesInv, Stages, Built, CharLen, ByteLen, textVars
<1>3. UNCHANGED m2o /\ Mapped => Mapped'
  BY DEF Mapped, ByteLen, textVars
<1>4. UNCHANGED nodes => Tiles' /\ PathEnd' = PathEnd
  BY DEF MorphemesInv, Tiles, NodeOK, CharLen, ByteOffset, textVars, PathEnd
<1>5. UNCHANGED out => Units' /\ OutEnd' = OutEnd
  BY DEF MorphemesInv, Units, UnitOK, OutEnd, ByteLen, CharIndex, textVars
<1> QED BY <1>1, <1>2, <1>3, <1>4, <1>5

LEMMA NoSurfaces ==
    ASSUME ms' = <<>>, out' \in Seq(PathNode), phase' # "done"
    PROVE  Surfaces'
<1>1. Len(out') \in Nat /\ Len(ms') = 0 /\ ms' \in Seq(Morpheme)
  BY LenProperties, EmptySeq
<1> QED BY <1>1 DEF Surfaces

\* The steps before split: they have made no unit yet.
LEMMA BeforeSplitStep ==
    ASSUME MorphemesInv, UNCHANGED textVars, phase \in {"build", "infos", "rewrite"},
           UNCHANGED <<mode, splitAt, out, ms>>, Tiles', Built, Mapped',
           phase' \in {"infos", "rewrite", "failed"}, phase' = "rewrite" => PathEnd' = CharLen
    PROVE  MorphemesInv'
<1>1. /\ TextInv' /\ Built' /\ chars' # <<>> /\ CharLen' = CharLen /\ Units'
      /\ mode' \in {"A", "B", "C", "other"}
  BY PathTextKept DEF MorphemesInv, Stages
<1>2. out = <<>> /\ splitAt = 1 /\ ms = <<>>
  BY DEF MorphemesInv, Splitting, Surfaces
<1>3. Stages'
  BY <1>1 DEF Stages
<1>4. Splitting'
  BY <1>2 DEF Splitting
<1>5. Surfaces'
  BY <1>1, <1>2, NoSurfaces DEF Units
<1> QED BY <1>1, <1>3, <1>4, <1>5 DEF MorphemesInv

\* The steps of split: the path is as it was, and no morpheme is made yet.
LEMMA SplitStep ==
    ASSUME MorphemesInv, UNCHANGED textVars, phase \in {"rewrite", "split", "units"},
           UNCHANGED <<m2o, mode, nodes, ms>>, Units', Splitting',
           phase' \in {"split", "units", "morphemes", "failed"}
    PROVE  MorphemesInv'
<1>1. /\ TextInv' /\ chars' # <<>> /\ CharLen' = CharLen /\ Tiles' /\ PathEnd' = PathEnd
      /\ Built' /\ Mapped' /\ PathEnd = CharLen /\ mode' \in {"A", "B", "C", "other"}
  BY PathTextKept DEF MorphemesInv, Stages
<1>2. Stages'
  BY <1>1 DEF Stages
<1>3. ms = <<>>
  BY DEF MorphemesInv, Surfaces
<1>4. Surfaces'
  BY <1>3, NoSurfaces DEF Units
<1> QED BY <1>1, <1>2, <1>4 DEF MorphemesInv

\* The steps behind split: path and units are as they were.
LEMMA AfterSplitStep ==
    ASSUME MorphemesInv, UNCHANGED textVars, phase = "morphemes",
           UNCHANGED <<m2o, mode, nodes, splitVars>>, Surfaces',
           phase' \in {"morphemes", "failed", "done"}
    PROVE  MorphemesInv'
<1>1. /\ TextInv' /\ chars' # <<>> /\ CharLen' = CharLen /\ ByteLen' = ByteLen
      /\ Tiles' /\ PathEnd' = PathEnd /\ Units' /\ OutEnd' = OutEnd
      /\ Built' /\ Mapped' /\ PathEnd = CharLen /\ mode' \in {"A", "B", "C", "other"}
  BY PathTextKept DEF MorphemesInv, Stages, splitVars
<1>2. Stages'
  BY <1>1 DEF Stages
<1>3. OutEnd = ByteLen /\ \A n \in 1 .. Len(nodes) : Treated(nodes[n])
  BY DEF MorphemesInv, Splitting
<1>4. \A n \in 1 .. Len(nodes) : Treated(nodes[n])'
  BY <1>3 DEF splitVars, Treated, AsLong, Fits, UnitsOf
<1>5. Splitting'
  BY <1>1, <1>3, <1>4 DEF Splitting
<1> QED BY <1>1, <1>2, <1>5 DEF MorphemesInv

LEMMA BuildTextStep ==
    ASSUME MorphemesInv, PrepareText
    PROVE  MorphemesInv'
<1>1. /\ phase = "build" /\ Build /\ phase' = phase
      /\ UNCHANGED <<m2o, mode, nodes, splitVars, ms, joins>>
  BY DEF PrepareText
<1>2. TextInv'
  BY <1>1, TextInvStep DEF MorphemesInv
<1>3. chars' = chars
  BY <1>1 DEF Build, Decode, Terminate, ScanRun, FinishRuns
<1>4. nodes = <<>> /\ out = <<>> /\ splitAt = 1 /\ ms = <<>>
  BY <1>1 DEF MorphemesInv, Stages, Splitting, Surfaces
<1>5. Stages'
  BY <1>1, <1>3 DEF MorphemesInv, Stages
<1>6. Tiles' /\ Units' /\ Surfaces'
  BY <1>1, <1>4, EmptySeq DEF splitVars, Tiles, Units, Surfaces
<1>7. Splitting'
  BY <1>1, <1>4 DEF splitVars, Splitting
<1> QED BY <1>2, <1>5, <1>6, <1>7 DEF MorphemesInv

LEMMA FindPathStep ==
    ASSUME MorphemesInv, FindPath
    PROVE  MorphemesInv'
<1>1. /\ phase = "build" /\ Built /\ phase' = "infos" /\ UNCHANGED <<textVars, mode, nodes, splitVars, ms>>
      /\ m2o' \in UNION {Maps(ByteLen, n) : n \in 0 .. MaxOriginal}
  BY DEF FindPath
<1>2. Tiles' /\ ByteLen' = ByteLen /\ ByteLen \in Nat
  BY <1>1, PathTextKept, OffsetsAscend DEF MorphemesInv
<1>3. Mapped'
  <2>1. PICK n \in 0 .. MaxOriginal : m2o' \in Maps(ByteLen, n)
    BY <1>1
  <2>2. 0 .. n \subseteq Nat
    BY MorphemesAssumption
  <2>3. m2o' \in [1 .. ByteLen + 1 -> Nat]
    BY <2>1, <2>2 DEF Maps
  <2> QED BY <2>1, <2>3, <1>2 DEF Maps, Mapped
<1> QED BY <1>1, <1>2, <1>3, BeforeSplitStep DEF splitVars

LEMMA LookUpInfoStep ==
    ASSUME MorphemesInv, NEW w \in Ids \cup {Oov}, NEW e \in PathEnd + 1 .. CharLen, LookUpInfo(e, w)
    PROVE  MorphemesInv'
<1> DEFINE info == IF w = Oov THEN Synthesized(ByteOffset(e) - ByteOffset(PathEnd), OovPos)
                   ELSE Lexicon[w]
<1>1. /\ phase = "infos" /\ w \in DOMAIN Lexicon \cup {Oov} /\ phase' = phase
      /\ nodes' = Append(nodes, NodeTo(e, w, info))
      /\ UNCHANGED <<textVars, m2o, mode, splitVars, ms>>
  BY DEF LookUpInfo
<1>2. TextInv /\ Built /\ Tiles /\ Mapped
  BY <1>1 DEF MorphemesInv, Stages
<1>3. info \in WordInfo
  <2>1. PathEnd \in 0 .. CharLen /\ e \in 0 .. CharLen
    BY <1>2, PathEndType, OffsetsAscend
  <2>2. ByteOffset(e) - ByteOffset(PathEnd) \in Int
    BY <2>1, <1>2, OffsetsAscend
  <2> QED BY <2>2, <1>1, SynthesizedType, MorphemesAssumption
<1> HIDE DEF info
<1>4. Tiles'
  BY <1>1, <1>2, <1>3, TilesAppend
<1>5. Mapped'
  BY <1>1, <1>2, PathTextKept
<1> QED BY <1>1, <1>2, <1>4, <1>5, BeforeSplitStep DEF splitVars

LEMMA JoinStep ==
    ASSUME MorphemesInv, NEW i \in 1 .. Len(nodes), NEW j \in i .. Len(nodes),
           JoinNodes(i, j) \/ JoinOOVNodes(i, j)
    PROVE  MorphemesInv'
<1>1. /\ phase = "rewrite" /\ phase' = phase /\ UNCHANGED <<textVars, m2o, mode, splitVars, ms>>
  BY DEF JoinNodes, JoinOOVNodes
<1>2. TextInv /\ Built /\ Tiles /\ Mapped /\ PathEnd = CharLen
  BY <1>1 DEF MorphemesInv, Stages
<1>3. PICK n : Whole(n, i, j) /\ nodes' = Replace(i, j, n)
  BY <1>2, JoinNodesWhole, JoinOOVNodesWhole
<1>4. Tiles' /\ PathEnd' = PathEnd
  BY <1>1, <1>2, <1>3, TilesJoin
<1>5. Mapped'
  BY <1>1, <1>2, PathTextKept
<1> QED BY <1>1, <1>2, <1>4, <1>5, BeforeSplitStep DEF splitVars

LEMMA MakeMorphemeStep ==
    ASSUME MorphemesInv, MakeMorpheme
    PROVE  MorphemesInv'
<1> DEFINE len == Len(ms)
           n == out[len + 1]
           m == [begin |-> m2o[n.beginByte + 1], end |-> m2o[n.endByte + 1], oov |-> n.word = Oov]
<1>1. /\ phase = "morphemes" /\ len < Len(out) /\ ms' = Append(ms, m) /\ phase' = phase
      /\ UNCHANGED <<textVars, m2o, mode, nodes, splitVars>>
  BY DEF MakeMorpheme, OriginalRange
<1>2. /\ ms \in Seq(Morpheme) /\ len \in Nat /\ Len(out) \in Nat /\ Units /\ TextInv /\ Built
      /\ Mapped
      /\ \A k \in 1 .. len : /\ ms[k].begin = m2o[out[k].beginByte + 1]
                              /\ ms[k].end = m2o[out[k].endByte + 1]
  BY <1>1, LenProperties DEF MorphemesInv, Surfaces, Units, Stages
<1>3. m \in Morpheme
  <2>1. len + 1 \in 1 .. Len(out)
    BY <1>1, <1>2
  <2>2. UnitOK(n)
    BY <2>1, <1>2 DEF Units
  <2>3. n.beginByte + 1 \in 1 .. ByteLen + 1 /\ n.endByte + 1 \in 1 .. ByteLen + 1
    <3>1. n.beginByte \in 0 .. ByteLen /\ n.endByte \in 0 .. ByteLen
      BY <2>2 DEF UnitOK
    <3> HIDE DEF n
    <3> QED BY <3>1, <1>2, OffsetsAscend, SMTT(30)
  <2>4. m2o[n.beginByte + 1] \in Nat /\ m2o[n.endByte + 1] \in Nat
    BY <2>3, <1>2 DEF Mapped
  <2> QED BY <2>4 DEF Morpheme
<1>4. /\ ms' \in Seq(Morpheme) /\ Len(ms') = len + 1 /\ ms'[len + 1] = m
      /\ \A k \in 1 .. len : ms'[k] = ms[k]
  BY <1>1, <1>2, <1>3, AppendProperties
<1>5. \A k \in 1 .. len + 1 : /\ ms'[k].begin = m2o[out[k].beginByte + 1]
                              /\ ms'[k].end = m2o[out[k].endByte + 1]
  <2>1. \A k \in 1 .. len + 1 : k \in 1 .. len \/ k = len + 1
    BY <1>2
  <2> QED BY <2>1, <1>2, <1>4
<1> HIDE DEF m
<1>6. Surfaces'
  <2>1. len + 1 <= Len(out)
    BY <1>1, <1>2
  <2> QED BY <2>1, <1>1, <1>4, <1>5 DEF Surfaces, splitVars
<1> QED BY <1>1, <1>6, AfterSplitStep

LEMMA MorphemesInvStep == MorphemesInv /\ [MorphemesNext]_morphemesVars => MorphemesInv'
<1> SUFFICES ASSUME MorphemesInv, [MorphemesNext]_morphemesVars PROVE MorphemesInv'
  OBVIOUS
<1>1. CASE PrepareText
  BY <1>1, BuildTextStep
<1>2. CASE FindPath
  BY <1>2, FindPathStep
<1>3. ASSUME NEW w \in Ids \cup {Oov}, NEW e \in PathEnd + 1 .. CharLen, LookUpInfo(e, w)
      PROVE  MorphemesInv'
  BY <1>3, LookUpInfoStep
<1>4. ASSUME NEW w \in Ids \cup {Oov}, LookUpFails(w) PROVE MorphemesInv'
  <2>1. /\ phase = "infos" /\ phase' = "failed"
        /\ UNCHANGED <<textVars, m2o, mode, nodes, splitVars, ms>>
    BY <1>4 DEF LookUpFails
  <2>2. Tiles' /\ Built /\ Mapped'
    BY <2>1, PathTextKept DEF MorphemesInv, Stages
  <2> QED BY <2>1, <2>2, BeforeSplitStep DEF splitVars
<1>5. CASE EndInfos
  <2>1. /\ phase = "infos" /\ PathEnd = CharLen /\ phase' = "rewrite"
        /\ UNCHANGED <<textVars, m2o, mode, nodes, splitVars, ms>>
    BY <1>5 DEF EndInfos
  <2>2. Tiles' /\ Built /\ Mapped' /\ PathEnd' = CharLen
    BY <2>1, PathTextKept DEF MorphemesInv, Stages
  <2> QED BY <2>1, <2>2, BeforeSplitStep DEF splitVars
<1>6. ASSUME NEW i \in DOMAIN nodes, NEW j \in i .. Len(nodes), JoinNodes(i, j) \/ JoinOOVNodes(i, j)
      PROVE  MorphemesInv'
  <2>1. DOMAIN nodes = 1 .. Len(nodes)
    BY LenProperties DEF MorphemesInv, Tiles
  <2> QED BY <2>1, <1>6, JoinStep
<1>7. CASE SkipSplit
  <2>1. Units' /\ Splitting'
    BY <1>7, SkipSplitStep
  <2> QED BY <2>1, <1>7, SplitStep DEF SkipSplit
<1>8. CASE StartSplit
  <2>1. /\ phase = "rewrite" /\ mode # "C" /\ phase' = "split"
        /\ UNCHANGED <<textVars, m2o, mode, nodes, splitVars, ms>>
    BY <1>8 DEF StartSplit
  <2>2. out = <<>> /\ splitAt = 1 /\ Len(nodes) \in Nat
    BY <2>1, LenProperties DEF MorphemesInv, Splitting, Tiles
  <2>3. Units' /\ OutEnd = 0 /\ OutEnd' = OutEnd
    BY <2>1, <2>2, PathTextKept DEF splitVars, OutEnd
  <2>4. Splitting'
    BY <2>1, <2>2, <2>3 DEF Splitting, splitVars, SplitBehind
  <2> QED BY <2>1, <2>3, <2>4, SplitStep
<1>9. CASE KeepNode
  <2>1. Units' /\ Splitting'
    BY <1>9, KeepNodeStep
  <2> QED BY <2>1, <1>9, SplitStep DEF KeepNode
<1>10. CASE StartUnits
  <2>1. Units' /\ Splitting'
    BY <1>10, StartUnitsStep, PathTextKept DEF StartUnits
  <2> QED BY <2>1, <1>10, SplitStep DEF StartUnits
<1>11. CASE MakeUnit
  <2>1. Units' /\ Splitting'
    BY <1>11, MakeUnitStep
  <2> QED BY <2>1, <1>11, SplitStep DEF MakeUnit
<1>12. CASE UnitFails \/ ModeFails
  <2>1. /\ phase \in {"split", "units"} /\ phase' = "failed"
        /\ UNCHANGED <<textVars, m2o, mode, nodes, splitVars, ms>>
    BY <1>12 DEF UnitFails, ModeFails
  <2>2. Units'
    BY <2>1, PathTextKept DEF splitVars
  <2>3. Splitting'
    BY <2>1 DEF Splitting
  <2> QED BY <2>1, <2>2, <2>3, SplitStep
<1>13. CASE EndUnits
  <2>1. Units' /\ Splitting'
    BY <1>13, EndUnitsStep, PathTextKept DEF EndUnits
  <2> QED BY <2>1, <1>13, SplitStep DEF EndUnits
<1>14. CASE EndSplit
  <2>1. Units' /\ Splitting'
    BY <1>14, EndSplitStep, PathTextKept DEF EndSplit, splitVars
  <2> QED BY <2>1, <1>14, SplitStep DEF EndSplit
<1>15. CASE MakeMorpheme
  BY <1>15, MakeMorphemeStep
<1>16. CASE MorphemeFails \/ ReturnMorphemes
  <2>1. /\ phase = "morphemes" /\ UNCHANGED <<textVars, m2o, mode, nodes, splitVars, ms>>
        /\ phase' \in {"failed", "done"} /\ (phase' = "done" => Len(ms) = Len(out))
    BY <1>16 DEF MorphemeFails, ReturnMorphemes
  <2>2. Surfaces'
    BY <2>1 DEF MorphemesInv, Surfaces, splitVars
  <2> QED BY <2>1, <2>2, AfterSplitStep
<1>17. CASE UNCHANGED morphemesVars
  <2>1. UNCHANGED <<textVars, m2o, mode, nodes, splitVars, ms, phase>>
    BY <1>17 DEF morphemesVars
  <2>2. /\ TextInv' /\ chars' # <<>> /\ (Built' <=> Built) /\ CharLen' = CharLen
        /\ ByteLen' = ByteLen /\ Tiles' /\ PathEnd' = PathEnd /\ Units' /\ OutEnd' = OutEnd
        /\ (Mapped => Mapped')
    BY <2>1, PathTextKept DEF splitVars
  <2>3. Stages'
    BY <2>1, <2>2 DEF MorphemesInv, Stages
  <2>4. Splitting'
    BY <2>1, <2>2 DEF MorphemesInv, Splitting, splitVars, Treated, AsLong, Fits, UnitsOf, SplitBehind,
                     AmongUnits, Done
  <2>5. Surfaces'
    BY <2>1 DEF MorphemesInv, Surfaces, splitVars
  <2> QED BY <2>2, <2>3, <2>4, <2>5 DEF MorphemesInv
<1> QED BY <1>1, <1>2, <1>3, <1>4, <1>5, <1>6, <1>7, <1>8, <1>9, <1>10, <1>11, <1>12, <1>13,
           <1>14, <1>15, <1>16, <1>17 DEF MorphemesNext

LEMMA MorphemesInvHolds == MorphemesSpec => []MorphemesInv
<1> QED BY MorphemesInvInit, MorphemesInvStep, PTL DEF MorphemesSpec

-----------------------------------------------------------------------------
(* What follows from it                                                     *)

\* The units that split has made cover the text.
LEMMA UnitsFacts ==
    ASSUME MorphemesInv, phase \in {"morphemes", "done"}
    PROVE  /\ TextInv /\ Built /\ Mapped /\ Units /\ ByteLen \in Nat /\ Len(out) \in Nat
           /\ Len(out) \in 1 .. Len(out) /\ 1 \in 1 .. Len(out)
           /\ out[1].beginByte = 0 /\ out[Len(out)].endByte = ByteLen
<1>1. TextInv /\ Built /\ Tiles /\ PathEnd = CharLen /\ chars # <<>> /\ Mapped /\ Units
  BY DEF MorphemesInv, Stages
<1>2. OutEnd = ByteLen /\ ByteLen # 0 /\ ByteLen \in Nat
  BY <1>1, PathEnds, OffsetsAscend DEF MorphemesInv, Splitting
<1>3. out # <<>> /\ Len(out) \in Nat
  BY <1>1, <1>2, LenProperties DEF OutEnd, Units
<1>4. Len(out) \in 1 .. Len(out) /\ 1 \in 1 .. Len(out)
  BY <1>1, <1>3, EmptySeq DEF Units
<1> QED BY <1>1, <1>2, <1>3, <1>4 DEF Units, OutEnd

LEMMA TilesFollow == MorphemesInv => UnitsTile
<1> SUFFICES ASSUME MorphemesInv PROVE SplitTiles /\ UnitsAsLong
  BY DEF UnitsTile
<1>1. DOMAIN out = 1 .. Len(out) /\ DOMAIN nodes = 1 .. Len(nodes)
  BY LenProperties DEF MorphemesInv, Units, Tiles
<1>2. ASSUME phase \in {"morphemes", "done"}
      PROVE  /\ Meet(out) /\ Covers(out, CharLen)
             /\ \A k \in DOMAIN out : out[k].beginByte <= out[k].endByte
             /\ \A n \in DOMAIN nodes : \E k \in DOMAIN out : out[k].endByte = nodes[n].endByte
  <2>1. /\ TextInv /\ Built /\ Units /\ Len(out) \in Nat /\ Len(out) > 0
        /\ Len(out) \in 1 .. Len(out) /\ 1 \in 1 .. Len(out)
        /\ out[1].beginByte = 0 /\ out[Len(out)].endByte = ByteLen
    BY <1>2, UnitsFacts
  <2>2. \A k \in 1 .. Len(out) : UnitOK(out[k])
    BY <2>1 DEF Units
  <2>3. ASSUME NEW k \in 1 .. Len(out) - 1
        PROVE  out[k].endByte = out[k + 1].beginByte /\ out[k].end = out[k + 1].begin
    <3>1. k \in 1 .. Len(out) /\ k + 1 \in 1 .. Len(out)
      BY <2>1
    <3>2. out[k].endByte = out[k + 1].beginByte
      BY <2>1 DEF Units
    <3> QED BY <3>1, <3>2, <2>2 DEF UnitOK
  <2>4. out[1].begin = 0 /\ out[Len(out)].end = CharLen
    <3>1. CharIndex(0) = 0 /\ CharIndex(ByteLen) = CharLen
      <4>1. CharLen \in Nat
        BY <2>1, OffsetsAscend
      <4>2. 0 \in 0 .. CharLen /\ CharLen \in 0 .. CharLen
        BY <4>1
      <4>3. CharIndex(ByteOffset(0)) = 0 /\ CharIndex(ByteOffset(CharLen)) = CharLen
        BY <4>2, <2>1, OffsetsAscend
      <4> QED BY <4>3, <2>1, OffsetsAscend
    <3> QED BY <3>1, <2>1, <2>2 DEF UnitOK
  <2>5. \A n \in 1 .. Len(nodes) : \E k \in 1 .. Len(out) : out[k].endByte = nodes[n].endByte
    BY <1>2 DEF MorphemesInv, Splitting, Treated
  <2> QED BY <2>1, <2>2, <2>3, <2>4, <2>5, <1>1 DEF Meet, Covers, UnitOK
<1>3. UnitsAsLong
  BY <1>1 DEF UnitsAsLong, MorphemesInv, Splitting, Treated, AsLong
<1> QED BY <1>2, <1>3 DEF SplitTiles

LEMMA SurfacesFollow == MorphemesInv => SurfacesCover
<1> SUFFICES ASSUME MorphemesInv, phase = "done"
             PROVE  /\ Covers(ms, m2o[Len(m2o)])
                    /\ \A k \in DOMAIN ms : ms[k].begin <= ms[k].end
  BY DEF SurfacesCover
<1>1. /\ TextInv /\ Built /\ Mapped /\ Units /\ ByteLen \in Nat /\ Len(out) \in Nat
      /\ Len(out) \in 1 .. Len(out) /\ 1 \in 1 .. Len(out)
      /\ out[1].beginByte = 0 /\ out[Len(out)].endByte = ByteLen
  BY UnitsFacts
<1>2. /\ ms \in Seq(Morpheme) /\ Len(ms) = Len(out)
      /\ \A k \in 1 .. Len(out) : /\ ms[k].begin = m2o[out[k].beginByte + 1]
                                   /\ ms[k].end = m2o[out[k].endByte + 1]
  BY DEF MorphemesInv, Surfaces
<1>3. Len(m2o) = ByteLen + 1 /\ DOMAIN ms = 1 .. Len(out)
  <2>1. m2o \in Seq(Nat) /\ DOMAIN m2o = 1 .. ByteLen + 1
    BY <1>1 DEF Mapped
  <2> QED BY <2>1, <1>1, <1>2, LenProperties
<1>4. ASSUME NEW k \in 1 .. Len(out) PROVE ms[k].begin <= ms[k].end
  <2>1. UnitOK(out[k])
    BY <1>1 DEF Units
  <2>2. /\ out[k].beginByte + 1 \in 1 .. ByteLen + 1 /\ out[k].endByte + 1 \in 1 .. ByteLen + 1
        /\ out[k].beginByte + 1 <= out[k].endByte + 1
    BY <2>1, <1>1 DEF UnitOK
  <2> QED BY <2>2, <1>1, <1>2 DEF Mapped
<1>5. \A k \in 1 .. Len(out) - 1 : ms[k].end = ms[k + 1].begin
  <2> TAKE k \in 1 .. Len(out) - 1
  <2>1. k \in 1 .. Len(out) /\ k + 1 \in 1 .. Len(out) /\ out[k].endByte = out[k + 1].beginByte
    BY <1>1 DEF Units
  <2> QED BY <2>1, <1>2
<1>6. ms[1].begin = 0 /\ ms[Len(out)].end = m2o[ByteLen + 1]
  BY <1>1, <1>2, SMTT(30) DEF Mapped
<1> QED BY <1>1, <1>2, <1>3, <1>4, <1>5, <1>6 DEF Covers

LEMMA WholeFollow == MorphemesInv => JoinedStayWhole
<1> SUFFICES ASSUME MorphemesInv, phase = "done", NEW n \in DOMAIN nodes, nodes[n].joined
             PROVE  \E k \in DOMAIN out : out[k] = nodes[n]
  BY DEF JoinedStayWhole
<1>1. DOMAIN out = 1 .. Len(out) /\ DOMAIN nodes = 1 .. Len(nodes)
  BY LenProperties DEF MorphemesInv, Units, Tiles
<1> QED BY <1>1 DEF MorphemesInv, Splitting, Treated

\* For every text, dictionary and map to the original, however the rewriters join:
\* what split makes of the path tiles the text, no unit lies across the border of
\* two nodes, and units that fit their word are as long as the dictionary says
\* (tokenizer.go:166-206).
THEOREM SpecUnitsTile == MorphemesSpec => []UnitsTile
BY MorphemesInvHolds, TilesFollow, PTL

\* For every such text the surfaces of the morphemes, put end to end, are the
\* original (tokenizer.go:208-234, text.go OriginalRange).
THEOREM SpecSurfacesCover == MorphemesSpec => []SurfacesCover
BY MorphemesInvHolds, SurfacesFollow, PTL

\* A word that a rewriter has joined is one morpheme in every mode, also with the
\* id of a dictionary word that has units (path.go:66).
THEOREM SpecJoinedStayWhole == MorphemesSpec => []JoinedStayWhole
BY MorphemesInvHolds, WholeFollow, PTL
=============================================================================
