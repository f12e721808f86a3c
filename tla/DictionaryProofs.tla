-------------------------- MODULE DictionaryProofs --------------------------
(***************************************************************************)
(* For every file, whatever its numbers are: a dictionary that opens has its *)
(* sections in the file, whole and in order, and no lookup reads outside the *)
(* section it is about. Of every dictionary and every trie a builder makes  *)
(* of it, a lookup yields the words that begin the text and no other.       *)
(***************************************************************************)
EXTENDS DictionaryFile, SequenceLemmas

Reader == [pos : Nat, err : BOOLEAN]

\* Until the reader has failed, what it has read is laid out and behind it.
MatrixRead == sections["matrix"].len = 2 * numLeft * numRight
Behind ==
    ~r.err =>
        /\ stage = "trie" => Ends("matrix") <= r.pos /\ MatrixRead
        /\ stage \in {"table", "words"} => Ends("matrix") <= sections["trie"].at /\ MatrixRead
        /\ stage = "table" => Ends("trie") <= r.pos
        /\ stage = "words" => /\ Ends("trie") <= sections["table"].at
                              /\ Ends("table") <= r.pos

\* Nobody looks anything up before Parse has returned the dictionary.
Unused == stage # "open" => info = NoWord /\ access = NoAccess

IInv == TypeOK /\ Behind /\ LaidOut /\ Unused /\ AccessInside

-----------------------------------------------------------------------------
(* The reader *)

LEMMA TakeFacts ==
    ASSUME size \in Nat, NEW rd \in Reader, NEW n \in Nat
    PROVE  /\ Take(rd, n) \in Reader
           /\ rd.pos <= size => Take(rd, n).pos <= size
           /\ ~Take(rd, n).err => /\ ~rd.err /\ Take(rd, n).pos = rd.pos + n
                                  /\ Take(rd, n).pos <= size
                                  /\ Taken(rd, n) = [at |-> rd.pos, len |-> n]
           /\ Taken(rd, n) \in Slice
           /\ \A v \in Nat : Number(rd, n, v) \in Nat
<1>1. CASE rd.err \/ rd.pos + n > size
      BY <1>1 DEF Take, Taken, Number, Reader, Slice, Nil
<1>2. CASE ~(rd.err \/ rd.pos + n > size)
      BY <1>2 DEF Take, Taken, Number, Reader, Slice, Nil
<1> QED BY <1>1, <1>2

LEMMA TakeMoves ==
    ASSUME size \in Nat, NEW rd \in Reader, NEW n \in Nat
    PROVE  /\ Take(rd, n) \in Reader
           /\ rd.pos <= size => Take(rd, n).pos <= size
           /\ ~Take(rd, n).err => rd.pos <= Take(rd, n).pos /\ Take(rd, n).pos <= size
<1>1. rd.pos \in Nat
      BY DEF Reader
<1>2. CASE rd.err \/ rd.pos + n > size
      BY <1>2 DEF Take, Reader
<1>3. CASE ~(rd.err \/ rd.pos + n > size)
      BY <1>1, <1>3 DEF Take, Reader
<1> QED BY <1>2, <1>3

\* A string or an array: two takes.
LEMMA TakesFacts ==
    ASSUME size \in Nat, NEW rd \in Reader, NEW k \in Nat, NEW n \in Nat
    PROVE  LET last == Take(Take(rd, k), n)
           IN  /\ last \in Reader
               /\ rd.pos <= size => last.pos <= size
               /\ ~last.err => /\ ~rd.err /\ last.pos = rd.pos + k + n /\ last.pos <= size
<1>1. Take(rd, k) \in Reader
      BY TakeFacts
<1>2. rd.pos \in Nat
      BY DEF Reader
<1> QED BY <1>1, <1>2, TakeFacts

LEMMA TakeStringFacts ==
    ASSUME size \in Nat, NEW rd \in Reader, NEW k \in 1 .. 2, NEW n \in Nat
    PROVE  /\ TakeString(rd, k, n) \in Reader
           /\ rd.pos <= size => TakeString(rd, k, n).pos <= size
           /\ ~TakeString(rd, k, n).err =>
                  rd.pos <= TakeString(rd, k, n).pos /\ TakeString(rd, k, n).pos <= size
<1> DEFINE m == 2 * Number(rd, k, n)
<1>1. k \in Nat /\ Number(rd, k, n) \in Nat
  <2>1. k \in Nat
      OBVIOUS
  <2> QED BY <2>1, TakeFacts
<1>2. m \in Nat /\ rd.pos \in Nat
      BY <1>1 DEF Reader
<1>3. TakeString(rd, k, n) = Take(Take(rd, k), m)
      BY DEF TakeString
<1> HIDE DEF m
<1>4. LET last == Take(Take(rd, k), m)
      IN  /\ last \in Reader
          /\ rd.pos <= size => last.pos <= size
          /\ ~last.err => /\ ~rd.err /\ last.pos = rd.pos + k + m /\ last.pos <= size
      BY <1>1, <1>2, TakesFacts
<1> QED BY <1>1, <1>2, <1>3, <1>4

LEMMA TakeArrayFacts ==
    ASSUME size \in Nat, NEW rd \in Reader, NEW n \in Nat
    PROVE  /\ TakeArray(rd, n) \in Reader
           /\ ~TakeArray(rd, n).err =>
                  rd.pos <= TakeArray(rd, n).pos /\ TakeArray(rd, n).pos <= size
<1> DEFINE m == 4 * Number(rd, 1, n)
<1>1. Number(rd, 1, n) \in Nat
      BY TakeFacts
<1>2. m \in Nat /\ rd.pos \in Nat
      BY <1>1 DEF Reader
<1>3. TakeArray(rd, n) = Take(Take(rd, 1), m)
      BY DEF TakeArray
<1> HIDE DEF m
<1>4. LET last == Take(Take(rd, 1), m)
      IN  /\ last \in Reader
          /\ ~last.err => /\ ~rd.err /\ last.pos = rd.pos + 1 + m /\ last.pos <= size
      BY <1>2, TakesFacts
<1> QED BY <1>2, <1>3, <1>4

\* The provers know of products only where no variable is primed.
LEMMA ProductsAreNat ==
    \A x, y \in Nat : 2 * x * y \in Nat /\ 4 * x \in Nat /\ 6 * x \in Nat
OBVIOUS

-----------------------------------------------------------------------------
LEMMA InitIInv == Init => IInv
<1> SUFFICES ASSUME Init PROVE IInv
    OBVIOUS
<1>1. size \in Nat
      BY NumbersAssumption DEF Init
<1>2. TypeOK
  <2>1. /\ r \in [pos : 0 .. size, err : BOOLEAN] /\ sections \in [Sections -> Slice]
        /\ stage \in Stages
        BY <1>1 DEF Init, Slice, Nil, Stages
  <2>2. info \in [num : Nat, field : 0 .. 11, pos : Nat, err : BOOLEAN, base : BOOLEAN, form : Int]
        BY DEF Init, NoWord
  <2>3. access \in [of : Sections \cup {"file"}, at : Nat, len : Nat]
        BY DEF Init, NoAccess
  <2> QED BY <1>1, <2>1, <2>2, <2>3 DEF Init, TypeOK
<1>3. Behind /\ LaidOut /\ Unused
      BY DEF Init, Behind, LaidOut, Unused
<1>4. AccessInside
      BY <1>1 DEF Init, AccessInside, NoAccess
<1> QED BY <1>2, <1>3, <1>4 DEF IInv

\* A step of Parse: nothing is looked up, so only the type and the layout
\* are in question.
LEMMA StepOfParse ==
    ASSUME IInv, stage # "open", UNCHANGED <<size, info, access>>,
           TypeOK', Behind', LaidOut'
    PROVE  IInv'
<1>1. Unused'
      BY DEF IInv, Unused
<1>2. AccessInside'
      BY DEF IInv, Unused, AccessInside, NoAccess, TypeOK
<1> QED BY <1>1, <1>2 DEF IInv

LEMMA ReaderType == ASSUME TypeOK PROVE r \in Reader /\ r.pos <= size /\ size \in Nat
BY DEF TypeOK, Reader

LEMMA ReadUnitsFacts ==
    ASSUME TypeOK, NEW section \in Sections, NEW unit \in Nat, NEW n \in Nat,
           ReadUnits(section, unit, n)
    PROVE  /\ sections' \in [Sections -> Slice] /\ r' \in Reader /\ r'.pos <= size
           /\ \A s \in Sections \ {section} : sections'[s] = sections[s]
           /\ ~r'.err => /\ ~r.err /\ r.pos <= sections'[section].at
                         /\ sections'[section].at + sections'[section].len = r'.pos
<1> DEFINE rd == Take(r, 4)
           len == unit * Number(r, 4, n)
<1>1. r \in Reader /\ r.pos <= size /\ size \in Nat /\ r.pos \in Nat
      BY ReaderType DEF Reader
<1>0. Number(r, 4, n) \in Nat
      BY <1>1, TakeFacts
<1>2. /\ rd \in Reader /\ rd.pos <= size /\ len \in Nat
      /\ ~rd.err => ~r.err /\ rd.pos = r.pos + 4
  <2>1. len \in Nat
        BY <1>0
  <2> QED BY <1>1, <2>1, TakeFacts
<1>3. sections' = [sections EXCEPT ![section] = Taken(rd, len)] /\ r' = Take(rd, len)
      BY DEF ReadUnits
<1> HIDE DEF rd, len
<1>4. /\ Taken(rd, len) \in Slice /\ Take(rd, len) \in Reader /\ Take(rd, len).pos <= size
      /\ ~Take(rd, len).err => /\ ~rd.err /\ Take(rd, len).pos = rd.pos + len
                               /\ Taken(rd, len) = [at |-> rd.pos, len |-> len]
      BY <1>1, <1>2, TakeFacts
<1>5. sections \in [Sections -> Slice]
      BY DEF TypeOK
<1>6. /\ sections' \in [Sections -> Slice] /\ sections'[section] = Taken(rd, len)
      /\ \A s \in Sections \ {section} : sections'[s] = sections[s]
      BY <1>3, <1>4, <1>5
<1>7. rd.pos \in Nat
      BY <1>2 DEF Reader
<1> QED BY <1>1, <1>2, <1>3, <1>4, <1>6, <1>7

-----------------------------------------------------------------------------
LEMMA ParseIInv ==
    ASSUME IInv,
           ReadHeader \/ CountPOS \/ ReadPOSName \/ ReadMatrix \/ ReadTrie \/ ReadTable \/ ReadWords
    PROVE  IInv'
<1> USE NumbersAssumption
<1>0. TypeOK /\ r \in Reader /\ r.pos <= size /\ size \in Nat /\ r.pos \in Nat
      BY ReaderType DEF IInv, Reader
<1>1. CASE ReadHeader
  <2>1. /\ r' \in Reader /\ r'.pos <= size
    <3> DEFINE rd == Take(Take(r, 8), 8)
    <3>1. rd \in Reader /\ rd.pos <= size
          BY <1>0, TakesFacts
    <3>2. r' = Take(rd, descriptionSize) /\ descriptionSize \in Nat
          BY <1>1 DEF ReadHeader, descriptionSize
    <3> HIDE DEF rd
    <3>3. Take(rd, descriptionSize) \in Reader /\ Take(rd, descriptionSize).pos <= size
          BY <1>0, <3>1, <3>2, TakeMoves
    <3> QED BY <3>2, <3>3
  <2>2. TypeOK'
        BY <1>0, <1>1, <2>1 DEF ReadHeader, TypeOK, Reader, Stages
  <2>3. Behind' /\ LaidOut'
        BY <1>1 DEF ReadHeader, Behind, LaidOut
  <2> QED BY <1>1, <2>2, <2>3, StepOfParse DEF ReadHeader
<1>2. CASE CountPOS
  <2>1. /\ r' \in Reader /\ r'.pos <= size
        BY <1>0, <1>2, TakeFacts DEF CountPOS
  <2>2. \A n \in U16s : Number(r, 2, n) \in Nat
        BY <1>0, TakeFacts
  <2>3. TypeOK'
        BY <1>0, <1>2, <2>1, <2>2 DEF CountPOS, TypeOK, Reader, Stages, POSDepth
  <2>4. Behind' /\ LaidOut'
        BY <1>2 DEF CountPOS, Behind, LaidOut
  <2> QED BY <1>2, <2>3, <2>4, StepOfParse DEF CountPOS
<1>3. CASE ReadPOSName
  <2>1. /\ r' \in Reader /\ r'.pos <= size
        BY <1>0, <1>3, TakeStringFacts DEF ReadPOSName
  <2>2. TypeOK'
        BY <1>0, <1>3, <2>1 DEF ReadPOSName, TypeOK, Reader
  <2>3. Behind' /\ LaidOut'
        BY <1>3 DEF ReadPOSName, Behind, LaidOut
  <2> QED BY <1>3, <2>2, <2>3, StepOfParse DEF ReadPOSName
<1>4. CASE ReadMatrix
  <2> DEFINE rd == Take(Take(r, 2), 2)
             len == 2 * numLeft' * numRight'
  <2>1. /\ rd \in Reader /\ rd.pos <= size /\ Take(r, 2) \in Reader
        BY <1>0, TakesFacts, TakeFacts
  <2>2. numLeft' \in Nat /\ numRight' \in Nat
        BY <1>0, <1>4, <2>1, TakeFacts DEF ReadMatrix
  <2>3. len \in Nat
        BY <2>2, ProductsAreNat
  <2>4. sections' = [sections EXCEPT !["matrix"] = Taken(rd, len)] /\ r' = Take(rd, len)
        BY <1>4 DEF ReadMatrix
  <2> HIDE DEF rd
  <2>5. /\ Taken(rd, len) \in Slice /\ r' \in Reader /\ r'.pos <= size
        /\ ~r'.err => r'.pos = rd.pos + len /\ Taken(rd, len) = [at |-> rd.pos, len |-> len]
        BY <1>0, <2>1, <2>3, <2>4, TakeFacts
  <2>6. sections["matrix"] \in Slice /\ sections' \in [Sections -> Slice]
        /\ sections'["matrix"] = Taken(rd, len)
        BY <1>0, <2>4, <2>5 DEF TypeOK, Sections
  <2>7. TypeOK'
        BY <1>0, <1>4, <2>2, <2>5, <2>6 DEF ReadMatrix, TypeOK, Reader, Stages
  <2>8. ~r'.err => Ends("matrix")' = r'.pos /\ MatrixRead'
    <3> SUFFICES ASSUME ~r'.err PROVE Ends("matrix")' = r'.pos /\ MatrixRead'
        OBVIOUS
    <3>1. sections'["matrix"].at = rd.pos /\ sections'["matrix"].len = len /\ r'.pos = rd.pos + len
          BY <2>5, <2>6
    <3>2. Ends("matrix")' = rd.pos + len
          BY <3>1 DEF Ends
    <3> QED BY <3>1, <3>2 DEF MatrixRead
  <2>9. r'.pos \in Nat
        BY <2>5 DEF Reader
  <2>10. Behind' /\ LaidOut'
        BY <1>4, <2>8, <2>9 DEF ReadMatrix, Behind, LaidOut
  <2> QED BY <1>4, <2>7, <2>10, StepOfParse DEF ReadMatrix
<1>5. CASE ReadTrie
  <2> PICK n \in U32s : ReadUnits("trie", 4, n)
        BY <1>5 DEF ReadTrie
  <2>1. /\ sections' \in [Sections -> Slice] /\ r' \in Reader /\ r'.pos <= size
        /\ sections'["matrix"] = sections["matrix"]
        /\ ~r'.err => /\ ~r.err /\ r.pos <= sections'["trie"].at
                      /\ sections'["trie"].at + sections'["trie"].len = r'.pos
        BY <1>0, ReadUnitsFacts DEF Sections
  <2>2. TypeOK'
        BY <1>0, <1>5, <2>1 DEF ReadTrie, TypeOK, Reader, Stages
  <2>3. sections["matrix"] \in Slice /\ sections'["trie"] \in Slice
        BY <1>0, <2>1 DEF TypeOK, Sections
  <2>4. Behind' /\ LaidOut'
        BY <1>0, <1>5, <2>1, <2>3 DEF ReadTrie, IInv, Behind, LaidOut, Ends, MatrixRead, Slice
  <2> QED BY <1>5, <2>2, <2>4, StepOfParse DEF ReadTrie
<1>6. CASE ReadTable
  <2> PICK n \in U32s : ReadUnits("table", 1, n)
        BY <1>6 DEF ReadTable
  <2>1. /\ sections' \in [Sections -> Slice] /\ r' \in Reader /\ r'.pos <= size
        /\ sections'["matrix"] = sections["matrix"] /\ sections'["trie"] = sections["trie"]
        /\ ~r'.err => /\ ~r.err /\ r.pos <= sections'["table"].at
                      /\ sections'["table"].at + sections'["table"].len = r'.pos
        BY <1>0, ReadUnitsFacts DEF Sections
  <2>2. TypeOK'
        BY <1>0, <1>6, <2>1 DEF ReadTable, TypeOK, Reader, Stages
  <2>3. /\ sections["matrix"] \in Slice /\ sections["trie"] \in Slice
        /\ sections'["table"] \in Slice
        BY <1>0, <2>1 DEF TypeOK, Sections
  <2>4. Behind' /\ LaidOut'
        BY <1>0, <1>6, <2>1, <2>3 DEF ReadTable, IInv, Behind, LaidOut, Ends, MatrixRead, Slice
  <2> QED BY <1>6, <2>2, <2>4, StepOfParse DEF ReadTable
<1>7. CASE ReadWords
  <2> DEFINE rd == Take(r, 4)
             pl == 6 * numWords'
             ol == 4 * numWords'
             mid == Take(rd, pl)
  <2>1. /\ rd \in Reader /\ rd.pos <= size
        /\ ~rd.err => ~r.err /\ r.pos <= rd.pos
    <3>1. /\ rd \in Reader /\ rd.pos <= size
          /\ ~rd.err => ~r.err /\ rd.pos = r.pos + 4
          BY <1>0, TakeFacts
    <3> QED BY <1>0, <3>1
  <2>2. numWords' \in Nat
        BY <1>0, <1>7, TakeFacts DEF ReadWords
  <2>3. pl \in Nat /\ ol \in Nat
        BY <2>2, ProductsAreNat
  <2>4. /\ sections' = [sections EXCEPT !["params"] = Taken(rd, pl), !["offsets"] = Taken(mid, ol)]
        /\ r' = Take(mid, ol)
        BY <1>7 DEF ReadWords
  <2> HIDE DEF rd
  <2>5. /\ Taken(rd, pl) \in Slice /\ mid \in Reader /\ mid.pos <= size
        /\ ~mid.err => /\ ~rd.err /\ mid.pos = rd.pos + pl
                       /\ Taken(rd, pl) = [at |-> rd.pos, len |-> pl]
        BY <1>0, <2>1, <2>3, TakeFacts
  <2> HIDE DEF mid
  <2>6. /\ Taken(mid, ol) \in Slice /\ r' \in Reader /\ r'.pos <= size
        /\ ~r'.err => /\ ~mid.err /\ r'.pos = mid.pos + ol
                      /\ Taken(mid, ol) = [at |-> mid.pos, len |-> ol]
        BY <1>0, <2>3, <2>4, <2>5, TakeFacts
  <2>7. /\ sections' \in [Sections -> Slice]
        /\ sections'["params"] = Taken(rd, pl) /\ sections'["offsets"] = Taken(mid, ol)
        /\ sections'["matrix"] = sections["matrix"] /\ sections'["trie"] = sections["trie"]
        /\ sections'["table"] = sections["table"]
    <3>1. sections \in [Sections -> Slice]
          BY <1>0 DEF TypeOK
    <3> HIDE DEF pl, ol
    <3> QED BY <3>1, <2>4, <2>5, <2>6 DEF Sections
  <2>8. TypeOK'
        BY <1>0, <1>7, <2>2, <2>6, <2>7 DEF ReadWords, TypeOK, Reader, Stages
  <2>9. /\ sections["matrix"] \in Slice /\ sections["trie"] \in Slice /\ sections["table"] \in Slice
        BY <1>0 DEF TypeOK, Sections
  <2>10. rd.pos \in Nat /\ mid.pos \in Nat
        BY <2>1, <2>5 DEF Reader
  <2>11. LaidOut'
    <3> SUFFICES ASSUME stage' = "open" PROVE LaidOut'
        BY DEF LaidOut
    <3>1. ~r'.err /\ sections["trie"].len # 0
          BY <1>7 DEF ReadWords, Accepted
    <3>2. /\ Ends("matrix") <= sections["trie"].at /\ MatrixRead
          /\ Ends("trie") <= sections["table"].at /\ Ends("table") <= r.pos
          BY <1>7, <2>1, <2>5, <2>6, <3>1 DEF IInv, Behind, ReadWords
    <3>3. /\ numLeft' = numLeft /\ numRight' = numRight /\ size' = size
          BY <1>7 DEF ReadWords
    <3>4. /\ sections'["params"] = [at |-> rd.pos, len |-> pl]
          /\ sections'["offsets"] = [at |-> mid.pos, len |-> ol]
          /\ r.pos <= rd.pos /\ mid.pos = rd.pos + pl /\ mid.pos + ol <= size
          BY <2>1, <2>5, <2>6, <2>7, <3>1
    <3>5. /\ Ends("matrix")' = Ends("matrix") /\ Ends("trie")' = Ends("trie")
          /\ Ends("table")' = Ends("table")
          /\ Ends("params")' = rd.pos + pl /\ Ends("offsets")' = mid.pos + ol
          BY <2>7, <3>4 DEF Ends
    <3>6. sections["matrix"].len = 2 * numLeft * numRight
          BY <3>2 DEF MatrixRead
    <3>7. sections["trie"].len > 0 /\ Ends("table") \in Nat
          BY <2>9, <3>1 DEF Slice, Ends
    <3>8. /\ sections'["params"].len = 6 * numWords' /\ sections'["offsets"].len = 4 * numWords'
          /\ sections'["params"].at = rd.pos /\ sections'["offsets"].at = mid.pos
          BY <3>4
    <3> HIDE DEF pl, ol
    <3> QED BY <1>0, <2>3, <2>7, <2>10, <3>2, <3>3, <3>4, <3>5, <3>6, <3>7, <3>8 DEF LaidOut
  <2>12. Behind'
        BY <1>7 DEF ReadWords, Behind
  <2> QED BY <1>7, <2>8, <2>11, <2>12, StepOfParse DEF ReadWords
<1> QED BY <1>1, <1>2, <1>3, <1>4, <1>5, <1>6, <1>7

-----------------------------------------------------------------------------
(* The lookups *)

Opened == stage = "open" /\ UNCHANGED parsed

LEMMA OpenedKeeps ==
    ASSUME IInv, Opened,
           info' \in [num : Nat, field : 0 .. 11, pos : Nat, err : BOOLEAN, base : BOOLEAN, form : Int],
           access' \in [of : Sections \cup {"file"}, at : Nat, len : Nat], AccessInside'
    PROVE  IInv'
<1>1. TypeOK'
      BY DEF IInv, Opened, parsed, TypeOK
<1>2. Behind' /\ LaidOut'
      BY DEF IInv, Opened, parsed, Behind, LaidOut, Ends, MatrixRead
<1>3. Unused'
      BY DEF Opened, parsed, Unused
<1> QED BY <1>1, <1>2, <1>3 DEF IInv

\* A lookup that reads len bytes of a section at an offset, or nothing.
LEMMA AccessKeeps ==
    ASSUME IInv, Opened, NEW of \in Sections, NEW at \in Nat, NEW len \in Nat,
           \/ Access(of, at, len) /\ at + len <= sections[of].len
           \/ access' = NoAccess
    PROVE  /\ access' \in [of : Sections \cup {"file"}, at : Nat, len : Nat] /\ AccessInside'
<1>1. size \in Nat /\ size' = size /\ sections' = sections /\ "file" \notin Sections
      BY DEF IInv, TypeOK, Opened, parsed, Sections
<1>2. CASE access' = NoAccess
      BY <1>1, <1>2 DEF NoAccess, AccessInside
<1>3. CASE Access(of, at, len) /\ at + len <= sections[of].len
      BY <1>1, <1>3 DEF Access, AccessInside
<1> QED BY <1>2, <1>3

\* An offset that wraps is not further on than one that does not.
LEMMA AtFacts == ASSUME NEW num \in Nat PROVE At(num) \in Nat /\ At(num) <= 4 * num
<1> DEFINE m == 4 * num
<1>1. m \in Nat /\ TwoTo32 \in Nat \ {0}
      BY NumbersAssumption
<1> HIDE DEF m
<1>2. m % TwoTo32 \in Nat /\ m % TwoTo32 <= m
  <2>1. CASE m < TwoTo32
        BY <1>1, <2>1
  <2>2. CASE m >= TwoTo32
        BY <1>1, <2>2
  <2> QED BY <1>1, <2>1, <2>2
<1> QED BY <1>2 DEF At, m

LEMMA SimpleLookups ==
    ASSUME IInv, ConnectCost \/ Param \/ Unit \/ WordIDs
    PROVE  IInv'
<1> USE NumbersAssumption
<1>1. /\ Opened /\ info' = info
      /\ info \in [num : Nat, field : 0 .. 11, pos : Nat, err : BOOLEAN, base : BOOLEAN, form : Int]
      /\ \A s \in Sections : sections[s].len \in Nat
      /\ numLeft \in Nat
      BY DEF ConnectCost, Param, Unit, WordIDs, Idle, Opened, IInv, TypeOK, Slice
<1>2. CASE ConnectCost
  <2> PICK left \in U16s, right \in U16s :
          IF InMatrix(Cell(left, right)) THEN Access("matrix", Cell(left, right), 2) ELSE access' = NoAccess
      BY <1>2 DEF ConnectCost
  <2>1. left \in Nat /\ right \in Nat
        OBVIOUS
  <2>2. right * numLeft \in Nat
        BY <1>1, <2>1
  <2>3. Cell(left, right) \in Nat
        BY <2>1, <2>2 DEF Cell
  <2>4. "matrix" \in Sections
        BY DEF Sections
  <2> QED BY <1>1, <2>3, <2>4, AccessKeeps, OpenedKeeps DEF InMatrix
<1>3. CASE Param
  <2> PICK num \in U32s : IF 6 * num + 6 <= sections["params"].len
                          THEN Access("params", 6 * num, 6) ELSE access' = NoAccess
      BY <1>3 DEF Param
  <2>0. num \in Nat
        OBVIOUS
  <2>1. 6 * num \in Nat /\ "params" \in Sections
        BY <2>0 DEF Sections
  <2> QED BY <1>1, <2>1, AccessKeeps, OpenedKeeps
<1>4. CASE Unit
  <2> PICK i \in U32s : IF i < sections["trie"].len \div 4
                        THEN Access("trie", At(i), 4) ELSE access' = NoAccess
      BY <1>4 DEF Unit
  <2>0. i \in Nat
        OBVIOUS
  <2>1. At(i) \in Nat /\ At(i) <= 4 * i /\ "trie" \in Sections
        BY <2>0, AtFacts DEF Sections
  <2>2. i < sections["trie"].len \div 4 => At(i) + 4 <= sections["trie"].len
    <3> DEFINE len == sections["trie"].len
    <3>1. len \in Nat /\ i \in Nat
          BY <1>1, <2>0, <2>1
    <3> HIDE DEF len
    <3>2. i < len \div 4 => 4 * i + 4 <= len
          BY <3>1
    <3> QED BY <2>1, <3>1, <3>2 DEF len
  <2> QED BY <1>1, <2>1, <2>2, AccessKeeps, OpenedKeeps
<1>5. CASE WordIDs
  <2> DEFINE len == sections["table"].len
  <2> PICK i \in U32s, n \in U8s :
          LET rest == (len - i - 1) \div 4
          IN  IF i < len THEN Access("table", i, 1 + 4 * (IF n < rest THEN n ELSE rest))
              ELSE access' = NoAccess
      BY <1>5 DEF WordIDs
  <2> DEFINE rest == (len - i - 1) \div 4
             k == IF n < rest THEN n ELSE rest
  <2>1. "table" \in Sections
        BY DEF Sections
  <2>2. len \in Nat /\ i \in Nat /\ n \in Nat
        BY <1>1, <2>1
  <2> HIDE DEF len
  <2>3. i < len => rest \in Nat /\ 4 * rest <= len - i - 1
        BY <2>2
  <2>4. i < len => k \in Nat /\ k <= rest
        BY <2>2, <2>3
  <2> HIDE DEF k
  <2>5. CASE i < len
    <3>1. /\ 1 + 4 * k \in Nat /\ i + (1 + 4 * k) <= len
          BY <2>2, <2>3, <2>4, <2>5
    <3>2. Access("table", i, 1 + 4 * k)
          BY <2>5 DEF k
    <3>3. access' \in [of : Sections \cup {"file"}, at : Nat, len : Nat] /\ AccessInside'
          BY <1>1, <2>1, <2>2, <3>1, <3>2, AccessKeeps DEF len
    <3> QED BY <1>1, <3>3, OpenedKeeps
  <2>6. CASE ~(i < len)
    <3>1. access' = NoAccess
          BY <2>6
    <3>2. access' \in [of : Sections \cup {"file"}, at : Nat, len : Nat] /\ AccessInside'
          BY <1>1, <2>1, <2>2, <3>1, AccessKeeps
    <3> QED BY <1>1, <3>2, OpenedKeeps
  <2> QED BY <2>5, <2>6
<1> QED BY <1>2, <1>3, <1>4, <1>5

\* What Info has read of a word is at info.pos or more to the left.
InfoType == [num : Nat, field : 0 .. 11, pos : Nat, err : BOOLEAN, base : BOOLEAN, form : Int]

LEMMA StartInfoFacts ==
    ASSUME IInv, Opened, NEW num \in Nat, NEW base \in BOOLEAN, StartInfo(num, base)
    PROVE  IInv'
<1> USE NumbersAssumption
<1>0. "offsets" \in Sections /\ At(num) \in Nat /\ At(num) <= 4 * num /\ NoWord \in InfoType
      BY AtFacts DEF Sections, NoWord, InfoType
<1>1. CASE num < numWords
  <2>1. PICK off \in U32s :
            info' = [NoWord EXCEPT !.num = num, !.field = 1, !.pos = off, !.base = base]
        BY <1>1 DEF StartInfo
  <2>0. off \in Nat
        OBVIOUS
  <2>2. info' \in InfoType
    <3>1. info' = [num |-> num, field |-> 1, pos |-> off, err |-> FALSE, base |-> base, form |-> -1]
          BY <2>1 DEF NoWord
    <3> QED BY <2>0, <3>1 DEF InfoType
  <2>3. sections["offsets"].len = 4 * numWords /\ numWords \in Nat
        BY DEF IInv, LaidOut, Opened, TypeOK
  <2>4. At(num) + 4 <= sections["offsets"].len
        BY <1>0, <1>1, <2>3
  <2>5. Access("offsets", At(num), 4)
        BY <1>1 DEF StartInfo
  <2> QED BY <1>0, <2>2, <2>4, <2>5, AccessKeeps, OpenedKeeps DEF InfoType
<1>2. CASE ~(num < numWords)
  <2>1. access' = NoAccess /\ info' = NoWord
        BY <1>2 DEF StartInfo
  <2> QED BY <1>0, <2>1, AccessKeeps, OpenedKeeps DEF InfoType
<1> QED BY <1>1, <1>2

LEMMA InfoLookups ==
    ASSUME IInv, Info \/ ReadField \/ EndInfo
    PROVE  IInv'
<1> USE NumbersAssumption
<1>0. Opened /\ info \in InfoType /\ size \in Nat
      BY DEF Info, ReadField, EndInfo, Reading, Opened, IInv, TypeOK, InfoType
<1>1. CASE Info
  <2> PICK num \in U32s : StartInfo(num, FALSE)
      BY <1>1 DEF Info
  <2>1. num \in Nat
        OBVIOUS
  <2> QED BY <1>0, <2>1, StartInfoFacts
<1>2. CASE ReadField
  <2> DEFINE kind == Fields[info.field]
             at == [pos |-> info.pos, err |-> info.err]
  <2>1. PICK bytes \in 1 .. 2, n \in StringLengths, k \in U8s, form \in U32s \cup {-1} :
            LET rd == CASE kind = "string" -> TakeString(at, bytes, n)
                        [] kind = "length" -> Take(at, bytes)
                        [] kind = "u16"    -> Take(at, 2)
                        [] kind = "form"   -> Take(at, 4)
                        [] OTHER           -> TakeArray(at, k)
            IN  /\ info' = [info EXCEPT !.field = @ + 1, !.pos = rd.pos, !.err = rd.err,
                                        !.form = IF kind = "form" THEN form ELSE @]
                /\ IF rd.err THEN access' = NoAccess ELSE Access("file", at.pos, rd.pos - at.pos)
        BY <1>2 DEF ReadField
  <2> DEFINE rd == CASE kind = "string" -> TakeString(at, bytes, n)
                     [] kind = "length" -> Take(at, bytes)
                     [] kind = "u16"    -> Take(at, 2)
                     [] kind = "form"   -> Take(at, 4)
                     [] OTHER           -> TakeArray(at, k)
  <2>2. /\ info' = [info EXCEPT !.field = @ + 1, !.pos = rd.pos, !.err = rd.err,
                                !.form = IF kind = "form" THEN form ELSE @]
        /\ IF rd.err THEN access' = NoAccess ELSE Access("file", at.pos, rd.pos - at.pos)
        BY <2>1
  <2>3. at \in Reader /\ n \in Nat /\ k \in Nat /\ bytes \in Nat
    <3>1. n \in Nat /\ k \in Nat /\ bytes \in Nat
        BY NumbersAssumption
    <3>2. at \in Reader
        BY <1>0 DEF InfoType, Reader
    <3> QED BY <3>1, <3>2
  <2> HIDE DEF at, kind
  <2>4. at.pos \in Nat
        BY <2>3 DEF Reader
  <2>5. rd \in Reader /\ (~rd.err => at.pos <= rd.pos /\ rd.pos <= size)
    <3>1. /\ TakeString(at, bytes, n) \in Reader
          /\ ~TakeString(at, bytes, n).err => /\ at.pos <= TakeString(at, bytes, n).pos
                                              /\ TakeString(at, bytes, n).pos <= size
          BY <1>0, <2>3, TakeStringFacts
    <3>2. /\ TakeArray(at, k) \in Reader
          /\ ~TakeArray(at, k).err => at.pos <= TakeArray(at, k).pos /\ TakeArray(at, k).pos <= size
          BY <1>0, <2>3, TakeArrayFacts
    <3>3. \A m \in {bytes, 2, 4} :
              /\ Take(at, m) \in Reader
              /\ ~Take(at, m).err => at.pos <= Take(at, m).pos /\ Take(at, m).pos <= size
          BY <1>0, <2>3, TakeMoves
    <3> QED BY <3>1, <3>2, <3>3
  <2> HIDE DEF rd
  <2>6. rd.pos \in Nat /\ rd.err \in BOOLEAN /\ form \in Int
        BY <2>5 DEF Reader
  <2>7. info.field + 1 \in 0 .. 11
    <3>1. info.field \in 0 .. 11 /\ LastField <= 10 /\ LastField \in Nat
          BY <1>0 DEF LastField, InfoType
    <3>2. info.field <= LastField
          BY <1>2 DEF ReadField
    <3> QED BY <3>1, <3>2
  <2>8. info' \in InfoType
        BY <1>0, <2>2, <2>6, <2>7 DEF InfoType
  <2>9. /\ access' \in [of : Sections \cup {"file"}, at : Nat, len : Nat]
        /\ AccessInside'
    <3>1. "file" \notin Sections /\ size' = size
          BY <1>0 DEF Sections, Opened, parsed
    <3>2. CASE rd.err
          BY <1>0, <2>2, <3>1, <3>2 DEF NoAccess, AccessInside
    <3>3. CASE ~rd.err
      <4>1. rd.pos - at.pos \in Nat /\ at.pos + (rd.pos - at.pos) <= size
            BY <1>0, <2>4, <2>5, <2>6, <3>3
      <4>2. access' = [of |-> "file", at |-> at.pos, len |-> rd.pos - at.pos]
            BY <2>2, <3>3 DEF Access
      <4> QED BY <2>4, <3>1, <4>1, <4>2 DEF AccessInside
    <3> QED BY <3>2, <3>3
  <2> QED BY <1>0, <2>8, <2>9, OpenedKeeps DEF InfoType
<1>3. CASE EndInfo
  <2>1. CASE info.form >= 0 /\ StartInfo(info.form, TRUE)
    <3>1. info.form \in Nat
          BY <1>0, <2>1 DEF InfoType
    <3> QED BY <1>0, <2>1, <3>1, StartInfoFacts
  <2>2. CASE info' = NoWord /\ access' = NoAccess
    <3>1. NoWord \in InfoType /\ "matrix" \in Sections
          BY DEF NoWord, InfoType, Sections
    <3>2. access' \in [of : Sections \cup {"file"}, at : Nat, len : Nat] /\ AccessInside'
          BY <1>0, <2>2, <3>1, AccessKeeps
    <3> QED BY <1>0, <2>2, <3>1, <3>2, OpenedKeeps DEF InfoType
  <2> QED BY <1>3, <2>1, <2>2 DEF EndInfo
<1> QED BY <1>1, <1>2, <1>3

-----------------------------------------------------------------------------
LEMMA NextIInv == IInv /\ [Next]_vars => IInv'
<1> SUFFICES ASSUME IInv, [Next]_vars PROVE IInv'
    OBVIOUS
<1>1. CASE UNCHANGED vars
      BY <1>1 DEF vars, parsed, IInv, TypeOK, Behind, LaidOut, Ends, MatrixRead, Unused, AccessInside
<1> QED BY <1>1, ParseIInv, SimpleLookups, InfoLookups DEF Next

LEMMA SpecIInv == Spec => []IInv
<1> QED BY InitIInv, NextIInv, PTL DEF Spec

\* The reader stays in the file, and every number keeps its type.
THEOREM TypeCorrect == Spec => []TypeOK
<1>1. IInv => TypeOK
      BY DEF IInv
<1> QED BY <1>1, SpecIInv, PTL

\* Whatever the file holds, a dictionary that opens is laid out in it.
THEOREM OpenLaidOut == Spec => []LaidOut
<1>1. IInv => LaidOut
      BY DEF IInv
<1> QED BY <1>1, SpecIInv, PTL

\* No lookup in it reads outside the section it is about, whatever it is for.
THEOREM LookupsInside == Spec => []AccessInside
<1>1. IInv => AccessInside
      BY DEF IInv
<1> QED BY <1>1, SpecIInv, PTL

-----------------------------------------------------------------------------
(* The walk of the trie: prefixes of keys                                   *)

LEMMA PrefixCut ==
    ASSUME NEW S, NEW s \in Seq(S), NEW l \in 0 .. Len(s)
    PROVE  /\ SubSeq(s, 1, l) \in Seq(S) /\ Len(SubSeq(s, 1, l)) = l
           /\ \A m \in 1 .. l : SubSeq(s, 1, l)[m] = s[m]
<1>1. l \in Int /\ 1 \in Int /\ Len(s) \in Nat
  BY LenProperties
<1>2. \A m \in 1 .. l : s[m] \in S
  BY <1>1, ElementOfSeq
<1>3. /\ SubSeq(s, 1, l) \in Seq(S)
      /\ Len(SubSeq(s, 1, l)) = IF 1 <= l THEN l - 1 + 1 ELSE 0
      /\ \A m \in 1 .. l - 1 + 1 : SubSeq(s, 1, l)[m] = s[1 + m - 1]
  BY <1>1, <1>2, SubSeqProperties
<1> QED BY <1>1, <1>3

\* What is in front of a last element, and the element.
LEMMA FrontLast ==
    ASSUME NEW S, NEW s \in Seq(S), NEW c \in S
    PROVE  Lookup!Front(Append(s, c)) = s /\ Lookup!Last(Append(s, c)) = c
<1> DEFINE t == Append(s, c)
<1>1. /\ t \in Seq(S) /\ Len(t) = Len(s) + 1 /\ Len(s) \in Nat /\ t[Len(s) + 1] = c
      /\ \A m \in 1 .. Len(s) : t[m] = s[m]
  BY AppendProperties, LenProperties
<1> HIDE DEF t
<1>2. Lookup!Front(t) = SubSeq(t, 1, Len(s))
  <2>1. Len(t) - 1 = Len(s)
    BY <1>1
  <2> QED BY <2>1 DEF Lookup!Front
<1>3. Lookup!Front(t) = s
  <2>1. Len(s) \in 0 .. Len(t)
    BY <1>1
  <2>2. /\ SubSeq(t, 1, Len(s)) \in Seq(S) /\ Len(SubSeq(t, 1, Len(s))) = Len(s)
        /\ \A m \in 1 .. Len(s) : SubSeq(t, 1, Len(s))[m] = t[m]
    BY <1>1, <2>1, PrefixCut
  <2> QED BY <1>1, <1>2, <2>2, SeqEqual
<1> QED BY <1>1, <1>3 DEF Lookup!Last, t

LEMMA CutOfCut ==
    ASSUME NEW S, NEW s \in Seq(S), NEW l \in 0 .. Len(s), NEW m \in 0 .. l
    PROVE  SubSeq(SubSeq(s, 1, l), 1, m) = SubSeq(s, 1, m)
<1> DEFINE t == SubSeq(s, 1, l)
<1>1. t \in Seq(S) /\ Len(t) = l /\ \A j \in 1 .. l : t[j] = s[j]
  BY PrefixCut
<1> HIDE DEF t
<1>2. m \in 0 .. Len(t) /\ m \in 0 .. Len(s)
  BY <1>1, LenProperties
<1>3. /\ SubSeq(t, 1, m) \in Seq(S) /\ Len(SubSeq(t, 1, m)) = m
      /\ \A j \in 1 .. m : SubSeq(t, 1, m)[j] = t[j]
  BY <1>1, <1>2, PrefixCut
<1>4. /\ SubSeq(s, 1, m) \in Seq(S) /\ Len(SubSeq(s, 1, m)) = m
      /\ \A j \in 1 .. m : SubSeq(s, 1, m)[j] = s[j]
  BY <1>2, PrefixCut
<1>5. \A j \in 1 .. m : SubSeq(t, 1, m)[j] = SubSeq(s, 1, m)[j]
  BY <1>1, <1>3, <1>4
<1>6. SubSeq(t, 1, m) = SubSeq(s, 1, m)
  BY <1>3, <1>4, <1>5, SeqEqual
<1> QED BY <1>6 DEF t

LEMMA PrefixesFinite ==
    ASSUME NEW S, NEW s \in Seq(S)
    PROVE  IsFiniteSet(Lookup!Prefixes(s))
<1> DEFINE D == 0 .. Len(s)
           f == [l \in D |-> SubSeq(s, 1, l)]
<1>1. IsFiniteSet(D)
  <2>1. 0 \in Int /\ Len(s) \in Int
    BY LenProperties
  <2> QED BY <2>1, FS_Interval
<1>2. f \in Surjection(D, Lookup!Prefixes(s))
  BY DEF Surjection, Lookup!Prefixes
<1> HIDE DEF D, f
<1> QED BY <1>1, <1>2, FS_Surjection

\* The states are the beginnings of keys: finitely many, the empty one among
\* them, and each other one is one byte longer than another.
LEMMA StatesAre ==
    ASSUME Lookup!LexiconsAssumption, NEW ks \in Lexicons
    PROVE  /\ Lookup!States(ks) \subseteq Seq(Bytes) /\ IsFiniteSet(Lookup!States(ks))
           /\ <<>> \in Lookup!States(ks) /\ ks \subseteq Lookup!States(ks)
           /\ \A p \in Lookup!States(ks) : p # <<>> =>
                  /\ Lookup!Front(p) \in Lookup!States(ks) /\ Lookup!Last(p) \in Bytes
                  /\ p = Append(Lookup!Front(p), Lookup!Last(p))
           /\ \A key \in ks : \A s : Lookup!IsPrefix(s, key) /\ s \in Seq(Bytes) => s \in Lookup!States(ks)
<1>1. ks # {} /\ IsFiniteSet(ks) /\ \A key \in ks : key \in Seq(Bytes)
  <2>1. ks # {} /\ IsFiniteSet(ks) /\ Lookup!IsFiniteSet(ks) /\ ks \subseteq Seq(Bytes)
    BY DEF Lookup!LexiconsAssumption, Lookup!IsFiniteSet, IsFiniteSet
  <2> QED BY <2>1
<1>2. \A p : p \in Lookup!States(ks) <=> \E key \in ks : \E l \in 0 .. Len(key) : p = SubSeq(key, 1, l)
  BY DEF Lookup!States, Lookup!Prefixes
<1>3. Lookup!States(ks) \subseteq Seq(Bytes)
  BY <1>1, <1>2, PrefixCut
<1>4. IsFiniteSet(Lookup!States(ks))
  <2> DEFINE P == {Lookup!Prefixes(key) : key \in ks}
             f == [key \in ks |-> Lookup!Prefixes(key)]
  <2>1. f \in Surjection(ks, P)
    BY DEF Surjection
  <2>2. \A T \in P : IsFiniteSet(T)
    BY <1>1, PrefixesFinite
  <2>3. Lookup!States(ks) = UNION P
    BY DEF Lookup!States
  <2> HIDE DEF P, f
  <2>4. IsFiniteSet(P)
    BY <1>1, <2>1, FS_Surjection
  <2> QED BY <2>2, <2>3, <2>4, FS_UNION
<1>5. <<>> \in Lookup!States(ks)
  <2>1. PICK key \in ks : key \in Seq(Bytes)
    BY <1>1
  <2>2. 0 \in 0 .. Len(key) /\ 0 \in Int /\ 1 \in Int /\ 0 < 1
    BY <2>1, LenProperties
  <2>3. SubSeq(key, 1, 0) = <<>>
    BY <2>2, SubSeqEmpty
  <2> QED BY <1>2, <2>1, <2>2, <2>3
<1>6. ks \subseteq Lookup!States(ks)
  <2>1. ASSUME NEW key \in ks PROVE key \in Lookup!States(ks)
    <3>1. key \in Seq(Bytes) /\ SubSeq(key, 1, Len(key)) = key /\ Len(key) \in 0 .. Len(key)
      BY <1>1, SubSeqFull, LenProperties
    <3> QED BY <1>2, <3>1
  <2> QED BY <2>1
<1>7. ASSUME NEW p \in Lookup!States(ks), p # <<>>
      PROVE  /\ Lookup!Front(p) \in Lookup!States(ks) /\ Lookup!Last(p) \in Bytes
             /\ p = Append(Lookup!Front(p), Lookup!Last(p))
  <2>0. PICK key \in ks : \E l \in 0 .. Len(key) : p = SubSeq(key, 1, l)
    BY <1>2
  <2>1. PICK l \in 0 .. Len(key) : p = SubSeq(key, 1, l)
    BY <2>0
  <2>2. key \in Seq(Bytes) /\ p \in Seq(Bytes)
    BY <1>1, <1>3
  <2>3. PICK s \in Seq(Bytes), c \in Bytes : p = Append(s, c)
    BY <1>7, <2>2, SequenceEmptyOrAppend
  <2>4. Lookup!Front(p) = s /\ Lookup!Last(p) = c
    BY <2>3, FrontLast
  <2>5. Len(p) = l /\ Len(p) = Len(s) + 1 /\ Len(s) \in Nat
    BY <2>1, <2>2, <2>3, PrefixCut, AppendProperties, LenProperties
  <2>6. l - 1 \in 0 .. l /\ l - 1 \in 0 .. Len(key) /\ Len(p) - 1 = l - 1
    BY <2>2, <2>5, LenProperties
  <2>7. SubSeq(p, 1, l - 1) = SubSeq(key, 1, l - 1)
    BY <2>1, <2>2, <2>6, CutOfCut
  <2>8. Lookup!Front(p) = SubSeq(key, 1, l - 1)
    BY <2>6, <2>7 DEF Lookup!Front
  <2>9. Lookup!Front(p) \in Lookup!States(ks)
    BY <1>2, <2>6, <2>8
  <2> QED BY <2>3, <2>4, <2>9
<1>8. ASSUME NEW key \in ks, NEW s \in Seq(Bytes), Lookup!IsPrefix(s, key)
      PROVE  s \in Lookup!States(ks)
  <2>1. Len(s) <= Len(key) /\ SubSeq(s, 1, Len(s)) = SubSeq(key, 1, Len(s))
    BY <1>8 DEF Lookup!IsPrefix
  <2>2. SubSeq(s, 1, Len(s)) = s
    BY SubSeqFull
  <2>3. Len(s) \in 0 .. Len(key)
    BY <1>1, <2>1, LenProperties
  <2> QED BY <1>2, <2>1, <2>2, <2>3
<1> QED BY <1>3, <1>4, <1>5, <1>6, <1>7, <1>8

-----------------------------------------------------------------------------
\* An arrangement gives no place twice.
LEMMA PlacesApart ==
    ASSUME Lookup!LexiconsAssumption, NEW ks \in Lexicons,
           NEW base \in [Lookup!States(ks) -> Lookup!Places], Lookup!Arranged(ks, base)
    PROVE  /\ \A p, q \in Lookup!States(ks) : Lookup!UnitAt(p, base) = Lookup!UnitAt(q, base) => p = q
           /\ \A p, q \in Lookup!States(ks) : base[p] = base[q] => p = q
           /\ \A p \in Lookup!States(ks) : \A key \in ks : Lookup!UnitAt(p, base) # base[key]
           /\ \A p \in Lookup!States(ks) : Lookup!UnitAt(p, base) \in Lookup!Places
<1> DEFINE S == Lookup!States(ks)
           A == {Lookup!UnitAt(p, base) : p \in S}
           B == {base[key] : key \in ks}
           f == [p \in S |-> Lookup!UnitAt(p, base)]
           g == [key \in ks |-> base[key]]
<1>1. IsFiniteSet(S) /\ IsFiniteSet(ks) /\ ks \subseteq S
  BY StatesAre DEF Lookup!LexiconsAssumption, Lookup!IsFiniteSet, IsFiniteSet
<1>2. /\ A \cup B \subseteq Lookup!Places
      /\ Cardinality(A \cup B) = Cardinality(S) + Cardinality(ks)
      /\ \A p, q \in S : base[p] = base[q] => p = q
  <2>1. Lookup!Used(ks, base) = A \cup B
    BY DEF Lookup!Used
  <2>2. \A X : Lookup!Cardinality(X) = Cardinality(X)
    BY DEF Lookup!Cardinality, Cardinality
  <2>3. DOMAIN base = S
    OBVIOUS
  <2> HIDE DEF A, B, S
  <2> QED BY <2>1, <2>2, <2>3 DEF Lookup!Arranged, Lookup!IsInjective
<1>3. f \in Surjection(S, A) /\ g \in Surjection(ks, B)
  BY DEF Surjection
<1>4. (\A p \in S : f[p] = Lookup!UnitAt(p, base)) /\ \A key \in ks : g[key] = base[key]
  OBVIOUS
<1>5. (\A p \in S : Lookup!UnitAt(p, base) \in A) /\ \A key \in ks : base[key] \in B
  OBVIOUS
<1> HIDE DEF S, A, B, f, g
<1>6. /\ IsFiniteSet(A) /\ Cardinality(A) <= Cardinality(S)
      /\ Cardinality(A) = Cardinality(S) <=> f \in Injection(S, A)
  BY <1>1, <1>3, FS_Surjection
<1>7. IsFiniteSet(B) /\ Cardinality(B) <= Cardinality(ks)
  BY <1>1, <1>3, FS_Surjection
<1>8. Cardinality(A \cup B) = Cardinality(A) + Cardinality(B) - Cardinality(A \cap B)
  BY <1>6, <1>7, FS_Union
<1>9. IsFiniteSet(A \cap B)
  BY <1>6, FS_Intersection
<1>10. /\ Cardinality(A) \in Nat /\ Cardinality(B) \in Nat /\ Cardinality(A \cap B) \in Nat
       /\ Cardinality(S) \in Nat /\ Cardinality(ks) \in Nat
  BY <1>1, <1>6, <1>7, <1>9, FS_CardinalityType
<1>11. Cardinality(A) = Cardinality(S) /\ Cardinality(A \cap B) = 0
  BY <1>2, <1>6, <1>7, <1>8, <1>10
<1>12. A \cap B = {}
  BY <1>9, <1>11, FS_EmptySet
<1>13. \A p, q \in S : f[p] = f[q] => p = q
  BY <1>6, <1>11 DEF Injection, IsInjective
<1>14. \A p, q \in S : Lookup!UnitAt(p, base) = Lookup!UnitAt(q, base) => p = q
  BY <1>4, <1>13
<1>15. \A p \in S : \A key \in ks : Lookup!UnitAt(p, base) # base[key]
  BY <1>5, <1>12
<1>16. \A p \in S : Lookup!UnitAt(p, base) \in Lookup!Places
  BY <1>2, <1>5
<1> QED BY <1>2, <1>14, <1>15, <1>16 DEF S

\* A trie that a builder has made of the keys, from the bases of their
\* beginnings; free is a base none of them has.
Made(base, free) ==
    /\ keys \in Lexicons /\ base \in [Lookup!States(keys) -> Lookup!Places]
    /\ Lookup!Arranged(keys, base) /\ free \in Lookup!Places \ Lookup!Range(base)
    /\ trie = [i \in Lookup!Places |-> Lookup!UnitOf(keys, base, free, i)]

\* The unit of a beginning of a key tells its last byte, its base and whether it
\* is a key; the unit at the base of a key has the key, and any other unit is
\* labelled as a child of the free base.
LEMMA UnitsTell ==
    ASSUME Lookup!LexiconsAssumption, NEW base, NEW free, Made(base, free)
    PROVE  /\ \A p \in Lookup!States(keys) :
                  LET unit == trie[Lookup!UnitAt(p, base)]
                  IN  /\ Lookup!UnitAt(p, base) \in Lookup!Places
                      /\ unit.label = IF p = <<>> THEN Lookup!NoByte ELSE Lookup!Last(p)
                      /\ unit.offset = BitXor(Lookup!UnitAt(p, base), base[p])
                      /\ unit.leaf <=> p \in keys
           /\ \A key \in keys : trie[base[key]].value = key /\ trie[base[key]].label = Lookup!NoByte
           /\ \A i \in Lookup!Places :
                  (\A p \in Lookup!States(keys) : Lookup!UnitAt(p, base) # i)
                  /\ (\A key \in keys : base[key] # i) => trie[i].label = BitXor(i, free)
<1> USE DEF Made
<1> DEFINE S == Lookup!States(keys)
<1>1. /\ \A p, q \in S : Lookup!UnitAt(p, base) = Lookup!UnitAt(q, base) => p = q
      /\ \A p, q \in S : base[p] = base[q] => p = q
      /\ \A p \in S : \A key \in keys : Lookup!UnitAt(p, base) # base[key]
      /\ \A p \in S : Lookup!UnitAt(p, base) \in Lookup!Places
  BY PlacesApart
<1>2. keys \subseteq S /\ base \in [S -> Lookup!Places]
  BY StatesAre
<1>3. ASSUME NEW p \in S
      PROVE  LET unit == trie[Lookup!UnitAt(p, base)]
             IN  /\ unit.label = IF p = <<>> THEN Lookup!NoByte ELSE Lookup!Last(p)
                 /\ unit.offset = BitXor(Lookup!UnitAt(p, base), base[p])
                 /\ unit.leaf <=> p \in keys
  <2> DEFINE i == Lookup!UnitAt(p, base)
             states == {q \in S : Lookup!UnitAt(q, base) = i}
             values == {key \in keys : base[key] = i}
             unit == [label |-> Lookup!NoByte, offset |-> 0, leaf |-> FALSE, value |-> <<>>]
             x == CHOOSE q \in states : TRUE
  <2>1. states = {p} /\ values = {}
    BY <1>1
  <2>2. x = p
    BY <2>1
  <2>3. i \in Lookup!Places
    BY <1>1
  <2>4. Lookup!UnitOf(keys, base, free, i) =
            IF values # {} THEN [unit EXCEPT !.value = CHOOSE key \in values : TRUE]
            ELSE IF states = {} THEN [unit EXCEPT !.label = BitXor(i, free)]
            ELSE [unit EXCEPT !.label = IF x = <<>> THEN Lookup!NoByte ELSE Lookup!Last(x),
                              !.offset = BitXor(i, base[x]), !.leaf = x \in keys]
    BY DEF Lookup!UnitOf
  <2> HIDE DEF i, states, values, x
  <2>5. Lookup!UnitOf(keys, base, free, i) =
            [unit EXCEPT !.label = IF p = <<>> THEN Lookup!NoByte ELSE Lookup!Last(p),
                         !.offset = BitXor(i, base[p]), !.leaf = p \in keys]
    BY <2>1, <2>2, <2>4
  <2>6. trie[i] = [unit EXCEPT !.label = IF p = <<>> THEN Lookup!NoByte ELSE Lookup!Last(p),
                               !.offset = BitXor(i, base[p]), !.leaf = p \in keys]
    BY <2>3, <2>5
  <2>7. /\ trie[i].label = IF p = <<>> THEN Lookup!NoByte ELSE Lookup!Last(p)
        /\ trie[i].offset = BitXor(i, base[p]) /\ (trie[i].leaf <=> p \in keys)
    BY <2>6
  <2> QED BY <2>7 DEF i
<1>4. ASSUME NEW key \in keys
      PROVE  trie[base[key]].value = key /\ trie[base[key]].label = Lookup!NoByte
  <2> DEFINE i == base[key]
             values == {y \in keys : base[y] = i}
             unit == [label |-> Lookup!NoByte, offset |-> 0, leaf |-> FALSE, value |-> <<>>]
             x == CHOOSE y \in values : TRUE
  <2>1. values = {key}
    BY <1>1, <1>2
  <2>2. x = key /\ i \in Lookup!Places
    BY <1>2, <2>1
  <2>3. values # {} => Lookup!UnitOf(keys, base, free, i) = [unit EXCEPT !.value = x]
    BY DEF Lookup!UnitOf
  <2> HIDE DEF i, values, x
  <2>4. trie[i] = [unit EXCEPT !.value = key]
    BY <2>1, <2>2, <2>3
  <2> QED BY <2>4 DEF i
<1>5. ASSUME NEW i \in Lookup!Places, \A p \in S : Lookup!UnitAt(p, base) # i,
             \A key \in keys : base[key] # i
      PROVE  trie[i].label = BitXor(i, free)
  <2>1. {p \in S : Lookup!UnitAt(p, base) = i} = {} /\ {key \in keys : base[key] = i} = {}
    BY <1>5
  <2> DEFINE unit == [label |-> Lookup!NoByte, offset |-> 0, leaf |-> FALSE, value |-> <<>>]
  <2>2. Lookup!UnitOf(keys, base, free, i) = [unit EXCEPT !.label = BitXor(i, free)]
    BY <2>1 DEF Lookup!UnitOf
  <2> QED BY <2>2
<1> QED BY <1>1, <1>3, <1>4, <1>5

LEMMA PlacesNumbered ==
    ASSUME Lookup!LexiconsAssumption
    PROVE  Lookup!Places \subseteq Lookup!Uint32 /\ Lookup!Uint32 \subseteq Nat /\ 0 \in Lookup!Uint32
BY DEF Lookup!LexiconsAssumption, Lookup!Places, Lookup!Uint32

\* The walk matches a byte exactly where a key goes on with it.
LEMMA MatchesRight ==
    ASSUME Lookup!LexiconsAssumption, NEW base, NEW free, Made(base, free),
           NEW s \in Lookup!States(keys), NEW c \in Bytes
    PROVE  LET child == BitXor(base[s], c)
               t == Append(s, c)
           IN  /\ base[s] \in Lookup!Uint32 /\ child \in Lookup!Uint32
               /\ Lookup!Matches(child, c) <=> t \in Lookup!States(keys)
               /\ t \in Lookup!States(keys) =>
                      /\ child = Lookup!UnitAt(t, base) /\ base[t] \in Lookup!Places
                      /\ BitXor(child, trie[child].offset) = base[t]
                      /\ trie[child].leaf <=> t \in keys
<1> DEFINE S == Lookup!States(keys)
           t == Append(s, c)
           child == BitXor(base[s], c)
<1>0. /\ keys \in Lexicons /\ base \in [S -> Lookup!Places]
      /\ free \in Lookup!Places \ Lookup!Range(base)
      /\ trie = [i \in Lookup!Places |-> Lookup!UnitOf(keys, base, free, i)]
      /\ Lookup!Arranged(keys, base)
  BY DEF Made
<1>1. /\ Lookup!Places \subseteq Lookup!Uint32 /\ Bytes \subseteq Lookup!Uint32
      /\ \A a, b \in Lookup!Uint32 : BitXor(a, b) \in Lookup!Uint32
      /\ \A a, b \in Lookup!Uint32 : BitXor(a, b) = BitXor(b, a) /\ BitXor(a, BitXor(a, b)) = b
      /\ Lookup!Uint32 \subseteq Nat
  BY DEF Lookup!LexiconsAssumption, Lookup!Places, Lookup!Uint32
<1>2. /\ S \subseteq Seq(Bytes) /\ keys \subseteq S
      /\ \A p \in S : p # <<>> => /\ Lookup!Front(p) \in S /\ Lookup!Last(p) \in Bytes
                                 /\ p = Append(Lookup!Front(p), Lookup!Last(p))
  BY <1>0, StatesAre
<1>3. /\ \A p \in S :
             LET unit == trie[Lookup!UnitAt(p, base)]
             IN  /\ Lookup!UnitAt(p, base) \in Lookup!Places
                 /\ unit.label = IF p = <<>> THEN Lookup!NoByte ELSE Lookup!Last(p)
                 /\ unit.offset = BitXor(Lookup!UnitAt(p, base), base[p])
                 /\ unit.leaf <=> p \in keys
      /\ \A key \in keys : trie[base[key]].value = key /\ trie[base[key]].label = Lookup!NoByte
      /\ \A i \in Lookup!Places :
             (\A p \in S : Lookup!UnitAt(p, base) # i)
             /\ (\A key \in keys : base[key] # i) => trie[i].label = BitXor(i, free)
  BY UnitsTell
<1>4. \A p, q \in S : base[p] = base[q] => p = q
  BY <1>0, PlacesApart
<1> HIDE DEF S
<1>5. /\ base[s] \in Lookup!Places /\ base[s] \in Lookup!Uint32 /\ c \in Lookup!Uint32
      /\ child \in Lookup!Uint32 /\ s \in Seq(Bytes) /\ s \in S
  BY <1>0, <1>1, <1>2 DEF S
<1>6. t # <<>> /\ Lookup!Front(t) = s /\ Lookup!Last(t) = c
  <2>1. t # <<>>
    BY <1>5, AppendProperties, LenProperties
  <2> QED BY <1>5, <2>1, FrontLast
<1> HIDE DEF t
<1>7. Lookup!UnitAt(t, base) = child
  BY <1>6 DEF Lookup!UnitAt
<1> HIDE DEF child
<1>8. ASSUME t \in S
      PROVE  /\ Lookup!Matches(child, c) /\ base[t] \in Lookup!Places
             /\ BitXor(child, trie[child].offset) = base[t]
             /\ trie[child].leaf <=> t \in keys
  <2>1. /\ child \in Lookup!Places /\ trie[child].label = c
        /\ trie[child].offset = BitXor(child, base[t]) /\ (trie[child].leaf <=> t \in keys)
    BY <1>3, <1>6, <1>7, <1>8
  <2>2. base[t] \in Lookup!Places
    BY <1>0, <1>8
  <2>3. BitXor(child, BitXor(child, base[t])) = base[t]
    BY <1>1, <1>5, <2>2
  <2> QED BY <2>1, <2>2, <2>3 DEF Lookup!Matches, Lookup!HasUnit
<1>9. ASSUME Lookup!Matches(child, c), t \notin S PROVE FALSE
  <2>1. child \in Lookup!Places /\ trie[child].label = c
    BY <1>9 DEF Lookup!Matches, Lookup!HasUnit
  <2>2. c # Lookup!NoByte
    BY <1>1, <1>5 DEF Lookup!NoByte
  <2>3. \A key \in keys : base[key] # child
    BY <1>3, <2>1, <2>2
  <2>4. CASE \E p \in S : Lookup!UnitAt(p, base) = child
    <3>1. PICK p \in S : Lookup!UnitAt(p, base) = child
      BY <2>4
    <3>2. p # <<>> /\ Lookup!Last(p) = c
      BY <1>3, <2>1, <2>2, <3>1
    <3> DEFINE q == Lookup!Front(p)
    <3>3. q \in S /\ p = Append(q, c) /\ child = BitXor(base[q], c)
      BY <1>2, <3>1, <3>2 DEF Lookup!UnitAt
    <3> HIDE DEF q
    <3>4. base[q] \in Lookup!Uint32
      BY <1>0, <1>1, <3>3
    <3>5. BitXor(c, BitXor(c, base[q])) = base[q] /\ BitXor(c, BitXor(c, base[s])) = base[s]
          /\ BitXor(base[q], c) = BitXor(c, base[q]) /\ BitXor(base[s], c) = BitXor(c, base[s])
      BY <1>1, <1>5, <3>4
    <3>6. base[q] = base[s]
      BY <3>3, <3>5 DEF child
    <3>7. q = s
      BY <1>4, <1>5, <3>3, <3>6
    <3> QED BY <1>9, <3>3, <3>7 DEF t
  <2>5. CASE \A p \in S : Lookup!UnitAt(p, base) # child
    <3>1. BitXor(child, free) = c
      BY <1>3, <2>1, <2>3, <2>5
    <3>2. free \in Lookup!Uint32
      BY <1>0, <1>1
    <3>3. BitXor(child, BitXor(child, free)) = free /\ BitXor(c, BitXor(c, base[s])) = base[s]
          /\ BitXor(c, child) = BitXor(child, c) /\ BitXor(base[s], c) = BitXor(c, base[s])
      BY <1>1, <1>5, <3>2
    <3>4. free = base[s]
      BY <3>1, <3>3 DEF child
    <3>5. base[s] \in Lookup!Range(base)
      BY <1>0, <1>5 DEF Lookup!Range
    <3> QED BY <1>0, <3>4, <3>5
  <2> QED BY <2>4, <2>5
<1> QED BY <1>5, <1>7, <1>8, <1>9 DEF S, t, child

-----------------------------------------------------------------------------
(* What a lookup yields                                                     *)

Found == [end : Nat, word : Seq(Bytes) \X Nat]

\* The first n words of a key.
Words(key, n) == [j \in 1 .. n |-> [end |-> Len(key), word |-> <<key, j>>]]

LEMMA WordsTyped ==
    ASSUME NEW key \in Seq(Bytes), NEW n \in Nat
    PROVE  /\ Words(key, n) \in Seq(Found) /\ Len(Words(key, n)) = n
           /\ Words(key, n + 1) = Append(Words(key, n), [end |-> Len(key), word |-> <<key, n + 1>>])
<1> DEFINE W(m) == Words(key, m)
           last == [end |-> Len(key), word |-> <<key, n + 1>>]
<1>1. ASSUME NEW m \in Nat
      PROVE  W(m) \in Seq(Found) /\ Len(W(m)) = m
             /\ \A j \in 1 .. m : W(m)[j] = [end |-> Len(key), word |-> <<key, j>>]
  <2>1. \A j \in 1 .. m : [end |-> Len(key), word |-> <<key, j>>] \in Found
    BY LenProperties DEF Found
  <2>2. W(m) \in [1 .. m -> Found]
    BY <2>1 DEF Words
  <2>3. \A j \in 1 .. m : W(m)[j] = [end |-> Len(key), word |-> <<key, j>>]
    BY DEF Words
  <2> HIDE DEF W
  <2>4. W(m) \in Seq(Found) /\ Len(W(m)) = m
    <3> HIDE DEF Found
    <3> QED BY <2>2, SeqDef, LenProperties
  <2> QED BY <2>3, <2>4
<1>2. last \in Found
  BY LenProperties DEF Found
<1>3. n + 1 \in Nat
  OBVIOUS
<1> HIDE DEF W
<1>4. W(n) \in Seq(Found) /\ Len(W(n)) = n /\ W(n + 1) \in Seq(Found) /\ Len(W(n + 1)) = n + 1
      /\ W(n + 1)[n + 1] = last /\ \A j \in 1 .. n : W(n + 1)[j] = W(n)[j]
  <2>1. W(n) \in Seq(Found) /\ Len(W(n)) = n
        /\ \A j \in 1 .. n : W(n)[j] = [end |-> Len(key), word |-> <<key, j>>]
    BY <1>1
  <2>2. W(n + 1) \in Seq(Found) /\ Len(W(n + 1)) = n + 1
        /\ \A j \in 1 .. n + 1 : W(n + 1)[j] = [end |-> Len(key), word |-> <<key, j>>]
    BY <1>1, <1>3
  <2>3. n + 1 \in 1 .. n + 1 /\ \A j \in 1 .. n : j \in 1 .. n + 1
    OBVIOUS
  <2>4. W(n + 1)[n + 1] = last
    BY <2>2, <2>3
  <2>5. \A j \in 1 .. n : W(n + 1)[j] = W(n)[j]
    BY <2>1, <2>2, <2>3
  <2> QED BY <2>1, <2>2, <2>4, <2>5
<1> HIDE DEF last
<1>5. /\ Append(W(n), last) \in Seq(Found) /\ Len(Append(W(n), last)) = n + 1
      /\ Append(W(n), last)[n + 1] = last /\ \A j \in 1 .. n : Append(W(n), last)[j] = W(n)[j]
  BY <1>2, <1>4, AppendProperties
<1>6. \A j \in 1 .. n + 1 : W(n + 1)[j] = Append(W(n), last)[j]
  <2>1. \A j \in 1 .. n + 1 : j \in 1 .. n \/ j = n + 1
    OBVIOUS
  <2> QED BY <1>4, <1>5, <2>1
<1>7. W(n + 1) = Append(W(n), last)
  BY <1>4, <1>5, <1>6, SeqEqual
<1> QED BY <1>4, <1>7 DEF W, last

LEMMA HomographsCounted ==
    ASSUME NEW key
    PROVE  Lookup!Homographs(key) \in Nat /\ Lookup!Homographs(key) \in 0 .. 2
BY DEF Lookup!Homographs

\* Of no text there is nothing to yield.
LEMMA WantedOfNone == Lookup!Wanted(<<>>) = <<>>
<1> DEFINE wordsTo(n) == LET key == SubSeq(<<>>, 1, n)
                         IN  IF key \notin keys THEN <<>>
                             ELSE [j \in 1 .. Lookup!Homographs(key) |->
                                      [end |-> n, word |-> <<key, j>>]]
           each == [n \in 1 .. Len(<<>>) |-> wordsTo(n)]
<1>1. Lookup!Wanted(<<>>) = FlattenSeq(each)
  BY DEF Lookup!Wanted, Lookup!FlattenSeq, FlattenSeq
<1> HIDE DEF wordsTo
<1>2. each = <<>>
  OBVIOUS
<1>3. FlattenSeq(<<>>) = <<>>
  BY EmptySeq DEF FlattenSeq
<1> QED BY <1>1, <1>2, <1>3

\* A byte more adds the words of the key that ends with it.
LEMMA WantedGrows ==
    ASSUME NEW s \in Seq(Bytes), NEW c \in Bytes
    PROVE  LET t == Append(s, c)
           IN  /\ Lookup!Wanted(s) \in Seq(Found)
               /\ t \notin keys => Lookup!Wanted(t) = Lookup!Wanted(s)
               /\ t \in keys => Lookup!Wanted(t) = Lookup!Wanted(s) \o Words(t, Lookup!Homographs(t))
<1> DEFINE wordsTo(u, n) == LET key == SubSeq(u, 1, n)
                            IN  IF key \notin keys THEN <<>>
                                ELSE [j \in 1 .. Lookup!Homographs(key) |->
                                         [end |-> n, word |-> <<key, j>>]]
           each(u) == [n \in 1 .. Len(u) |-> wordsTo(u, n)]
           t == Append(s, c)
<1>1. \A u : Lookup!Wanted(u) = FlattenSeq(each(u))
  BY DEF Lookup!Wanted, Lookup!FlattenSeq, FlattenSeq
<1>2. ASSUME NEW u \in Seq(Bytes), NEW n \in 1 .. Len(u)
      PROVE  /\ wordsTo(u, n) = IF SubSeq(u, 1, n) \notin keys THEN <<>>
                                ELSE Words(SubSeq(u, 1, n), Lookup!Homographs(SubSeq(u, 1, n)))
             /\ wordsTo(u, n) \in Seq(Found)
  <2> DEFINE key == SubSeq(u, 1, n)
  <2>1. n \in 0 .. Len(u)
    BY LenProperties
  <2>2. key \in Seq(Bytes) /\ Len(key) = n
    BY <2>1, PrefixCut
  <2> HIDE DEF key
  <2>3. Words(key, Lookup!Homographs(key)) \in Seq(Found)
    BY <2>2, HomographsCounted, WordsTyped
  <2>4. wordsTo(u, n) = IF key \notin keys THEN <<>> ELSE Words(key, Lookup!Homographs(key))
    BY <2>2 DEF key, Words
  <2>5. <<>> \in Seq(Found)
    BY EmptySeq
  <2> HIDE DEF wordsTo
  <2> QED BY <2>3, <2>4, <2>5 DEF key
<1>3. ASSUME NEW u \in Seq(Bytes)
      PROVE  /\ each(u) \in Seq(Seq(Found)) /\ Len(each(u)) = Len(u)
             /\ \A n \in 1 .. Len(u) : each(u)[n] = wordsTo(u, n)
  <2>1. \A n \in 1 .. Len(u) : wordsTo(u, n) \in Seq(Found)
    BY <1>2
  <2>2. Len(u) \in Nat
    BY LenProperties
  <2> HIDE DEF wordsTo
  <2>3. each(u) \in [1 .. Len(u) -> Seq(Found)]
    BY <2>1
  <2>4. \A n \in 1 .. Len(u) : each(u)[n] = wordsTo(u, n)
    OBVIOUS
  <2> HIDE DEF each
  <2>5. each(u) \in Seq(Seq(Found)) /\ Len(each(u)) = Len(u)
    <3> DEFINE Q == Seq(Found)
    <3>1. each(u) \in [1 .. Len(u) -> Q]
      BY <2>3
    <3> HIDE DEF Q
    <3>2. each(u) \in Seq(Q) /\ Len(each(u)) = Len(u)
      BY <2>2, <3>1, SeqDef, LenProperties
    <3> QED BY <3>2 DEF Q
  <2> QED BY <2>4, <2>5
<1>5. /\ t \in Seq(Bytes) /\ Len(t) = Len(s) + 1 /\ Len(s) \in Nat
      /\ \A m \in 1 .. Len(s) : t[m] = s[m]
  BY AppendProperties, LenProperties
<1>6. \A n \in 1 .. Len(s) : SubSeq(t, 1, n) = SubSeq(s, 1, n)
  <2> HIDE DEF t
  <2>1. SUFFICES ASSUME NEW n \in 1 .. Len(s) PROVE SubSeq(t, 1, n) = SubSeq(s, 1, n)
    OBVIOUS
  <2>2. n \in 0 .. Len(s) /\ n \in 0 .. Len(t)
    BY <1>5
  <2>3. /\ SubSeq(t, 1, n) \in Seq(Bytes) /\ Len(SubSeq(t, 1, n)) = n
        /\ \A m \in 1 .. n : SubSeq(t, 1, n)[m] = t[m]
    BY <1>5, <2>2, PrefixCut
  <2>4. /\ SubSeq(s, 1, n) \in Seq(Bytes) /\ Len(SubSeq(s, 1, n)) = n
        /\ \A m \in 1 .. n : SubSeq(s, 1, n)[m] = s[m]
    BY <2>2, PrefixCut
  <2>5. \A m \in 1 .. n : SubSeq(t, 1, n)[m] = SubSeq(s, 1, n)[m]
    BY <1>5, <2>3, <2>4
  <2> QED BY <2>3, <2>4, <2>5, SeqEqual
<1>7. SubSeq(t, 1, Len(s) + 1) = t
  BY <1>5, SubSeqFull
<1>8. \A n \in 1 .. Len(s) : each(t)[n] = each(s)[n]
  <2>1. \A n \in 1 .. Len(s) : n \in 1 .. Len(t)
    BY <1>5
  <2>2. \A n \in 1 .. Len(s) : wordsTo(t, n) = wordsTo(s, n)
    BY <1>6
  <2> HIDE DEF each, t, wordsTo
  <2> QED BY <1>3, <1>5, <2>1, <2>2
<1>9. /\ each(s) \in Seq(Seq(Found)) /\ Len(each(s)) = Len(s)
      /\ each(t) \in Seq(Seq(Found)) /\ Len(each(t)) = Len(s) + 1
  <2> HIDE DEF each, t
  <2> QED BY <1>3, <1>5
<1>10. /\ each(t)[Len(s) + 1] = IF t \notin keys THEN <<>> ELSE Words(t, Lookup!Homographs(t))
       /\ each(t)[Len(s) + 1] \in Seq(Found)
  <2>1. Len(s) + 1 \in 1 .. Len(t)
    BY <1>5
  <2> HIDE DEF each, t, wordsTo
  <2>2. each(t)[Len(s) + 1] = wordsTo(t, Len(s) + 1)
    BY <1>3, <1>5, <2>1
  <2> QED BY <1>2, <1>5, <1>7, <2>1, <2>2
<1> HIDE DEF each, t
<1>11. FlattenSeq(each(t)) = FlattenSeq(each(s)) \o each(t)[Len(s) + 1]
  BY <1>5, <1>8, <1>9, FlattenAppend
<1>12. FlattenSeq(each(s)) \in Seq(Found)
  BY <1>5, <1>9, FlattenElements
<1>13. FlattenSeq(each(s)) \o <<>> = FlattenSeq(each(s))
  BY <1>12, ConcatEmptySeq
<1> QED BY <1>1, <1>10, <1>11, <1>12, <1>13 DEF t

-----------------------------------------------------------------------------
(* The walk                                                                 *)

\* Where the walk is: as long as a key begins with what it has read, at the base
\* of it, and what it has yielded is what it should; from a key it yields the
\* words of the key, one by one.
Walk(base) ==
    /\ read \in Seq(Bytes) /\ node \in Lookup!Uint32 /\ tK \in Nat
    /\ tPc \in {"root", "byte", "words", "stopped", "end"}
    /\ tPc = "root" => read = <<>> /\ out = <<>>
    /\ tPc \in {"byte", "words", "end"} => read \in Lookup!States(keys) /\ node = base[read]
    /\ tPc # "words" => tK = 0
    /\ tPc \in {"byte", "stopped", "end"} => out = Lookup!Wanted(read)
    /\ tPc = "stopped" => read \notin Lookup!States(keys)
    /\ tPc = "words" =>
           /\ read \in keys /\ tK \in 0 .. Lookup!Homographs(read)
           /\ \E s \in Seq(Bytes), c \in Bytes :
                  read = Append(s, c) /\ out = Lookup!Wanted(s) \o Words(read, tK)

WalkInv == \E base, free : Made(base, free) /\ Walk(base)

\* What a lookup starts from: the root, and nothing yielded.
LEMMA RootTells ==
    ASSUME Lookup!LexiconsAssumption, NEW base, NEW free, Made(base, free)
    PROVE  /\ <<>> \in Lookup!States(keys) /\ trie[0].offset = base[<<>>]
           /\ base[<<>>] \in Lookup!Uint32
<1>1. <<>> \in Lookup!States(keys) /\ base \in [Lookup!States(keys) -> Lookup!Places]
  BY StatesAre DEF Made
<1>2. base[<<>>] \in Lookup!Places /\ base[<<>>] \in Lookup!Uint32
  BY <1>1 DEF Lookup!LexiconsAssumption, Lookup!Places, Lookup!Uint32
<1>3. Lookup!UnitAt(<<>>, base) = 0
  BY DEF Lookup!UnitAt
<1>4. trie[0].offset = BitXor(0, base[<<>>])
  BY <1>1, <1>3, UnitsTell
<1> QED BY <1>1, <1>2, <1>4 DEF Lookup!LexiconsAssumption

LEMMA WalkStarts ==
    ASSUME Lookup!LexiconsAssumption, Lookup!Init
    PROVE  WalkInv
<1> DEFINE B == [Lookup!States(keys) -> Lookup!Places]
<1>1. PICK base \in B :
          /\ Lookup!Arranged(keys, base)
          /\ \E free \in Lookup!Places \ Lookup!Range(base) :
                 trie = [i \in Lookup!Places |-> Lookup!UnitOf(keys, base, free, i)]
  BY DEF Lookup!Init
<1>2. PICK free \in Lookup!Places \ Lookup!Range(base) :
          trie = [i \in Lookup!Places |-> Lookup!UnitOf(keys, base, free, i)]
  BY <1>1
<1>3. Made(base, free)
  BY <1>1, <1>2 DEF Made, Lookup!Init
<1>4. /\ read = <<>> /\ node = 0 /\ tPc = "root" /\ tK = 0 /\ out = <<>>
      /\ 0 \in Lookup!Uint32 /\ <<>> \in Seq(Bytes)
  BY EmptySeq DEF Lookup!Init, Lookup!LexiconsAssumption, Lookup!Uint32
<1>5. Walk(base)
  BY <1>4 DEF Walk
<1> QED BY <1>3, <1>5 DEF WalkInv

LEMMA WalkKept ==
    ASSUME Lookup!LexiconsAssumption, WalkInv, [Lookup!Next]_Lookup!vars
    PROVE  WalkInv'
<1>1. PICK base, free : Made(base, free) /\ Walk(base)
  BY DEF WalkInv
<1>2. keys' = keys /\ trie' = trie
  BY DEF Lookup!Next, Lookup!vars, Lookup!Root, Lookup!ReadByte, Lookup!TextEnds,
         Lookup!YieldWord, Lookup!EndWords
<1>3. Made(base, free)'
  BY <1>1, <1>2 DEF Made
<1>4. SUFFICES Walk(base)'
  BY <1>3 DEF WalkInv
<1>5. /\ Lookup!States(keys') = Lookup!States(keys)
      /\ \A s : Lookup!Wanted(s)' = Lookup!Wanted(s)
  BY <1>2 DEF Lookup!Wanted
<1>6. CASE Lookup!Root
  <2>1. tPc = "root" /\ node' = trie[0].offset /\ tPc' = "byte" /\ read' = read /\ tK' = tK /\ out' = out
    BY <1>6 DEF Lookup!Root
  <2>2. read = <<>> /\ out = <<>> /\ tK = 0 /\ read \in Seq(Bytes)
    BY <1>1, <2>1 DEF Walk
  <2>3. read \in Lookup!States(keys) /\ node' = base[read] /\ node' \in Lookup!Uint32
    BY <1>1, <2>1, <2>2, RootTells
  <2>4. out = Lookup!Wanted(read)
    BY <2>2, WantedOfNone
  <2> QED BY <1>2, <1>5, <2>1, <2>2, <2>3, <2>4 DEF Walk
<1>7. ASSUME NEW c \in Bytes, Lookup!ReadByte(c) PROVE Walk(base)'
  <2> DEFINE t == Append(read, c)
             child == BitXor(node, c)
  <2>1. /\ tPc = "byte" /\ read' = t /\ tK' = tK /\ out' = out
        /\ IF Lookup!Matches(child, c)
           THEN /\ node' = BitXor(child, trie[child].offset)
                /\ tPc' = IF ~trie[child].leaf THEN "byte"
                          ELSE IF Lookup!HasUnit(node') THEN "words" ELSE "stopped"
           ELSE node' = child /\ tPc' = "stopped"
    BY <1>7 DEF Lookup!ReadByte, Lookup!AfterMatch
  <2>2. /\ read \in Lookup!States(keys) /\ node = base[read] /\ tK = 0
        /\ out = Lookup!Wanted(read) /\ read \in Seq(Bytes)
    BY <1>1, <2>1 DEF Walk
  <2>3. /\ child \in Lookup!Uint32
        /\ Lookup!Matches(child, c) <=> t \in Lookup!States(keys)
        /\ t \in Lookup!States(keys) =>
               /\ base[t] \in Lookup!Places
               /\ BitXor(child, trie[child].offset) = base[t]
               /\ trie[child].leaf <=> t \in keys
    BY <1>1, <2>2, MatchesRight
  <2>4. /\ Lookup!Wanted(read) \in Seq(Found)
        /\ t \notin keys => Lookup!Wanted(t) = Lookup!Wanted(read)
        /\ t \in Seq(Bytes)
    BY <2>2, WantedGrows, AppendProperties
  <2>5. keys \subseteq Lookup!States(keys)
    BY <1>1, StatesAre DEF Made
  <2> HIDE DEF child
  <2>6. CASE t \notin Lookup!States(keys)
    <3>1. node' = child /\ tPc' = "stopped" /\ t \notin keys
      BY <2>1, <2>3, <2>5, <2>6
    <3> HIDE DEF t
    <3> QED BY <1>2, <1>5, <2>1, <2>2, <2>3, <2>4, <2>6, <3>1 DEF Walk
  <2>7. CASE t \in Lookup!States(keys)
    <3>1. /\ node' = base[t] /\ base[t] \in Lookup!Places /\ base[t] \in Lookup!Uint32
          /\ tPc' = IF t \in keys THEN "words" ELSE "byte"
      <4>1. node' = base[t] /\ base[t] \in Lookup!Places
        BY <2>1, <2>3, <2>7
      <4>2. base[t] \in Lookup!Uint32
        BY <4>1, PlacesNumbered
      <4>3. Lookup!HasUnit(node')
        BY <4>1 DEF Lookup!HasUnit
      <4> QED BY <2>1, <2>3, <2>7, <4>1, <4>2, <4>3
    <3>2. CASE t \notin keys
      <4> HIDE DEF t
      <4> QED BY <1>2, <1>5, <2>1, <2>2, <2>4, <2>7, <3>1, <3>2 DEF Walk
    <3>3. CASE t \in keys
      <4>1. Words(t, 0) = <<>>
        <5> HIDE DEF t
        <5>1. t \in Seq(Bytes) /\ 0 \in Nat
          BY <2>4
        <5>2. Words(t, 0) \in Seq(Found) /\ Len(Words(t, 0)) = 0
          BY <5>1, WordsTyped
        <5> QED BY <5>2, EmptySeq
      <4>2. out = Lookup!Wanted(read) \o Words(t, 0)
        BY <2>2, <2>4, <4>1, ConcatEmptySeq
      <4>3. 0 \in 0 .. Lookup!Homographs(t)
        BY HomographsCounted
      <4>4. \E s \in Seq(Bytes), b \in Bytes : t = Append(s, b) /\ out = Lookup!Wanted(s) \o Words(t, 0)
        BY <2>2, <4>2
      <4> HIDE DEF t
      <4> QED BY <1>2, <1>5, <2>1, <2>2, <2>4, <2>7, <3>1, <3>3, <4>3, <4>4 DEF Walk
    <3> QED BY <3>2, <3>3
  <2> QED BY <2>6, <2>7
<1>8. CASE Lookup!TextEnds
  <2>1. tPc = "byte" /\ tPc' = "end" /\ UNCHANGED <<read, node, tK, out>>
    BY <1>8 DEF Lookup!TextEnds
  <2> QED BY <1>1, <1>2, <1>5, <2>1 DEF Walk
<1>9. ASSUME Lookup!YieldWord \/ Lookup!EndWords PROVE Walk(base)'
  <2>1. tPc = "words" /\ UNCHANGED <<read, node>>
    BY <1>9 DEF Lookup!YieldWord, Lookup!EndWords
  <2>2. /\ read \in Lookup!States(keys) /\ node = base[read] /\ node \in Lookup!Uint32
        /\ read \in keys /\ tK \in 0 .. Lookup!Homographs(read)
        /\ read \in Seq(Bytes)
    BY <1>1, <2>1 DEF Walk
  <2>3. PICK s \in Seq(Bytes) : \E c \in Bytes :
            read = Append(s, c) /\ out = Lookup!Wanted(s) \o Words(read, tK)
    BY <1>1, <2>1 DEF Walk
  <2>4. PICK c \in Bytes : read = Append(s, c) /\ out = Lookup!Wanted(s) \o Words(read, tK)
    BY <2>3
  <2>5. trie[node].value = read
    BY <1>1, <2>2, UnitsTell
  <2>6. Lookup!Wanted(s) \in Seq(Found)
    BY <2>4, WantedGrows
  <2>7. CASE Lookup!YieldWord
    <3>1. /\ tK < Lookup!Homographs(read) /\ tK' = tK + 1 /\ tPc' = "words"
          /\ out' = Append(out, [end |-> Len(read), word |-> <<read, tK + 1>>])
      BY <2>1, <2>5, <2>7 DEF Lookup!YieldWord
    <3>2. tK \in Nat /\ tK + 1 \in 0 .. Lookup!Homographs(read) /\ tK + 1 \in Nat
      BY <2>2, <3>1, HomographsCounted
    <3> DEFINE last == [end |-> Len(read), word |-> <<read, tK + 1>>]
    <3>3. /\ Words(read, tK) \in Seq(Found)
          /\ Words(read, tK + 1) = Append(Words(read, tK), last)
      BY <2>2, <3>2, WordsTyped
    <3>4. last \in Found
      BY <2>2, <3>2, LenProperties DEF Found
    <3> HIDE DEF last
    <3>5. Append(Lookup!Wanted(s) \o Words(read, tK), last)
              = Lookup!Wanted(s) \o Append(Words(read, tK), last)
      <4> DEFINE u == Lookup!Wanted(s)
                 w == Words(read, tK)
      <4>1. u \in Seq(Found) /\ w \in Seq(Found) /\ u \o w \in Seq(Found)
        BY <2>6, <3>3, ConcatProperties
      <4> HIDE DEF u, w
      <4>2. <<last>> \in Seq(Found)
        BY <3>4, EmptySeq, AppendProperties
      <4>3. Append(u \o w, last) = (u \o w) \o <<last>> /\ Append(w, last) = w \o <<last>>
        BY <3>4, <4>1, AppendIsConcat
      <4>4. (u \o w) \o <<last>> = u \o (w \o <<last>>)
        BY <4>1, <4>2, ConcatAssociative
      <4> QED BY <4>3, <4>4 DEF u, w
    <3>6. out' = Lookup!Wanted(s) \o Words(read, tK + 1)
      BY <2>4, <3>1, <3>3, <3>5 DEF last
    <3>7. \E u \in Seq(Bytes), b \in Bytes :
              read = Append(u, b) /\ out' = Lookup!Wanted(u) \o Words(read, tK + 1)
      BY <2>4, <3>6
    <3> QED BY <1>2, <1>5, <2>1, <2>2, <3>1, <3>2, <3>7 DEF Walk
  <2>8. CASE Lookup!EndWords
    <3>1. tK = Lookup!Homographs(read) /\ tPc' = "byte" /\ tK' = 0 /\ out' = out
      BY <2>1, <2>5, <2>8 DEF Lookup!EndWords
    <3>2. out = Lookup!Wanted(read)
      BY <2>2, <2>4, <3>1, WantedGrows
    <3> QED BY <1>2, <1>5, <2>1, <2>2, <3>1, <3>2 DEF Walk
  <2> QED BY <1>9, <2>7, <2>8
<1>10. CASE UNCHANGED Lookup!vars
  <2>1. UNCHANGED <<read, node, tPc, tK, out>>
    BY <1>10 DEF Lookup!vars
  <2> QED BY <1>1, <1>2, <1>5, <2>1 DEF Walk
<1> QED BY <1>6, <1>7, <1>8, <1>9, <1>10 DEF Lookup!Next

LEMMA WalkRight ==
    ASSUME Lookup!LexiconsAssumption, WalkInv
    PROVE  FoundInOrder /\ Lookup!TypeOK
<1>1. PICK base, free : Made(base, free) /\ Walk(base)
  BY DEF WalkInv
<1>2. ASSUME tPc = "stopped", NEW key \in keys PROVE ~Lookup!IsPrefix(read, key)
  <2>1. read \notin Lookup!States(keys) /\ read \in Seq(Bytes) /\ keys \in Lexicons
    BY <1>1, <1>2 DEF Walk, Made
  <2> QED BY <2>1, StatesAre
<1>3. tPc \in {"byte", "stopped", "end"} => out = Lookup!Wanted(read)
  BY <1>1 DEF Walk
<1>4. FoundInOrder
  BY <1>2, <1>3 DEF FoundInOrder, Lookup!FoundInOrder
<1>5. /\ read \in Seq(Bytes) /\ node \in Lookup!Uint32 /\ tK \in Nat
      /\ tPc \in {"root", "byte", "words", "stopped", "end"}
      /\ tPc # "words" => tK = 0
      /\ tPc = "words" => tK \in 0 .. Lookup!Homographs(read)
  BY <1>1 DEF Walk
<1>6. tK \in 0 .. 2 /\ node \in Nat
  <2>1. node \in Nat
    BY <1>5, PlacesNumbered
  <2>2. CASE tPc = "words"
    <3>1. tK \in 0 .. Lookup!Homographs(read) /\ Lookup!Homographs(read) \in 0 .. 2
      BY <1>5, <2>2, HomographsCounted
    <3> QED BY <2>1, <3>1
  <2> QED BY <1>5, <2>1, <2>2
<1>7. Lookup!TypeOK
  BY <1>5, <1>6 DEF Lookup!TypeOK
<1> QED BY <1>4, <1>7

\* A lookup yields the words that begin the text, all of them and no other, the
\* shorter first, wherever the units of other words lie (trie.go:23,
\* dictionary.go:248).
THEOREM SpecFoundInOrder ==
    ASSUME Lookup!LexiconsAssumption
    PROVE  Lookup!Spec => []FoundInOrder
<1>1. Lookup!Init => WalkInv
  BY WalkStarts
<1>2. WalkInv /\ [Lookup!Next]_Lookup!vars => WalkInv'
  BY WalkKept
<1>3. WalkInv => FoundInOrder
  BY WalkRight
<1> QED BY <1>1, <1>2, <1>3, PTL DEF Lookup!Spec

\* In a lookup of a file of any content and in a walk of any trie a builder has
\* made, every variable keeps its type: the reader stays in the file, the walk
\* at numbers of units, and each leaf is started at its first word.
THEOREM SpecTypesOK ==
    ASSUME Lookup!LexiconsAssumption
    PROVE  Spec /\ Lookup!Spec => []TypesOK
<1>1. IInv => TypeOK
      BY DEF IInv
<1>2. Lookup!Init => WalkInv
      BY WalkStarts
<1>3. WalkInv /\ [Lookup!Next]_Lookup!vars => WalkInv'
      BY WalkKept
<1>4. WalkInv => Lookup!TypeOK
      BY WalkRight
<1>5. TypeOK /\ Lookup!TypeOK => TypesOK
      BY DEF TypesOK
<1> QED BY <1>1, <1>2, <1>3, <1>4, <1>5, SpecIInv, PTL DEF Lookup!Spec
=============================================================================
