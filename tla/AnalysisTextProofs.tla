------------------------- MODULE AnalysisTextProofs -------------------------
(***************************************************************************)
(* Theorems about Build, for every set of texts: the indexes from bytes to  *)
(* characters and back agree, and the runs of categories are sound.         *)
(*                                                                         *)
(* Characters, bytes and entries count from 1 here, as in the sequences.    *)
(***************************************************************************)
EXTENDS AnalysisText, SequenceLemmas

-----------------------------------------------------------------------------
(* The invariant                                                            *)

TextTypes ==
    /\ chars \in Seq(Character) /\ c2b \in Seq(Nat) /\ b2c \in Seq(Nat)
    /\ bow \in Seq(BOOLEAN) /\ catRun \in Seq(Nat)
    /\ prev \subseteq Categories /\ nextBOW \in BOOLEAN /\ common \subseteq Categories
    /\ stage \in {"decode", "runs", "built"}

\* The characters decoded so far.
Decoded == IF stage = "decode" THEN Len(c2b) ELSE Len(chars)

\* How long the indexes are, and that the sentinels are each other's.
IndexLengths ==
    /\ stage = "decode" => Len(c2b) <= Len(chars) /\ Len(b2c) = Len(bow)
    /\ stage # "decode" => /\ Len(c2b) = Len(chars) + 1 /\ c2b[Len(chars) + 1] = Len(bow)
                           /\ Len(b2c) = Len(bow) + 1 /\ b2c[Len(bow) + 1] = Len(chars)

\* The first n characters begin at bytes of their own, and each of the first
\* len bytes is of the character that begins last at it or before it.
Agree(c, m, n, len) ==
    /\ \A k \in 1 .. n : c[k] < len /\ m[c[k] + 1] = k - 1
    /\ \A j \in 1 .. len : /\ m[j] < n /\ c[m[j] + 1] < j
                           /\ m[j] + 1 < n => j <= c[m[j] + 2]

Indexed == TextTypes /\ IndexLengths /\ Agree(c2b, b2c, Decoded, Len(bow))

\* The n characters from a share category x.
Sharing(x, a, n) == \A k \in a .. a + n - 1 : x \in chars[k].cats

\* The characters before the runs.
Unscanned == Len(chars) - Len(catRun)

\* What CatRunSound says of run j of the runs t of all characters but the first
\* before.
RunSound(t, before, j) ==
    /\ t[j] >= 1 /\ before + j + t[j] <= Len(chars) + 1
    /\ t[j] > 1 => \E x \in Named : Sharing(x, before + j, t[j])
    /\ t[j] = 1 /\ j < Len(t) => \A x \in Named : ~Sharing(x, before + j, t[j + 1] + 1)

\* The runs done so far are sound, and common is what the characters of the last
\* one share.
Scanned ==
    /\ Len(catRun) <= Len(chars)
    /\ stage = "decode" => catRun = <<>>
    /\ stage = "built" => Len(catRun) = Len(chars)
    /\ \A j \in 1 .. Len(catRun) : RunSound(catRun, Unscanned, j)
    /\ catRun # <<>> => \A x \in Named : x \in common <=> Sharing(x, Unscanned + 1, catRun[1])

\* What BOWMatchesText says of character i.
MayStart(i) ==
    /\ JoinersBefore(i) % 2 = 0
    /\ ~Has(Category(i), {NoOOVBOW, NoOOVBOW2})
    /\ Has(Category(i), NonStarting) => i = 0 \/ ~Has(Category(i), Category(i - 1))

\* The bytes decoded so far may begin a word where the text says, and what Build
\* carries to the next character is what the text says of it.
Started ==
    /\ stage = "decode" => /\ nextBOW <=> JoinersBefore(Len(c2b)) % 2 = 0
                           /\ prev = IF Len(c2b) = 0 THEN {} ELSE chars[Len(c2b)].cats
    /\ \A j \in 1 .. Len(bow) : bow[j] <=> c2b[b2c[j] + 1] = j - 1 /\ MayStart(b2c[j])

-----------------------------------------------------------------------------
(* The indexes                                                              *)

\* An iteration of the first loop keeps them in agreement: the character
\* begins behind all bytes before it, and its bytes are its own.
LEMMA AgreeDecoded ==
    ASSUME NEW n \in Nat, NEW len \in Nat, NEW next \in Nat, NEW size \in Nat,
           NEW c, NEW m, NEW d, NEW o,
           next = n + 1, len < size, Agree(c, m, n, len),
           \A k \in 1 .. n : c[k] \in Nat, \A j \in 1 .. len : m[j] \in Nat,
           \A k \in 1 .. n : d[k] = c[k], d[n + 1] = len,
           \A j \in 1 .. len : o[j] = m[j], \A j \in len + 1 .. size : o[j] = n
    PROVE  Agree(d, o, next, size)
<1>1. ASSUME NEW k \in 1 .. n + 1 PROVE d[k] < size /\ o[d[k] + 1] = k - 1
  <2>1. CASE k \in 1 .. n
    BY <2>1 DEF Agree
  <2>2. CASE k = n + 1
    BY <2>2
  <2> QED BY <2>1, <2>2
<1>2. ASSUME NEW j \in 1 .. size
      PROVE  o[j] < n + 1 /\ d[o[j] + 1] < j /\ (o[j] + 1 < n + 1 => j <= d[o[j] + 2])
  <2>1. CASE j \in 1 .. len
    <3>1. o[j] = m[j] /\ m[j] \in Nat /\ m[j] < n /\ d[m[j] + 1] = c[m[j] + 1]
      BY <2>1 DEF Agree
    <3>2. CASE m[j] + 1 < n
      <4>1. d[m[j] + 2] = c[m[j] + 2]
        BY <3>1, <3>2
      <4> QED BY <4>1, <2>1, <3>1, <3>2 DEF Agree
    <3>3. CASE m[j] + 1 = n
      <4>1. d[m[j] + 2] = len
        BY <3>1, <3>3
      <4> QED BY <4>1, <2>1, <3>1, <3>3 DEF Agree
    <3> QED BY <3>1, <3>2, <3>3
  <2>2. CASE j \in len + 1 .. size
    BY <2>2
  <2> QED BY <2>1, <2>2
<1> QED BY <1>1, <1>2 DEF Agree

\* The sentinels disturb nothing.
LEMMA AgreeTerminated ==
    ASSUME NEW n \in Nat, NEW len \in Nat, NEW c, NEW m, NEW d, NEW o,
           Agree(c, m, n, len),
           \A k \in 1 .. n : c[k] \in Nat, \A j \in 1 .. len : m[j] \in Nat,
           \A k \in 1 .. n : d[k] = c[k], \A j \in 1 .. len : o[j] = m[j]
    PROVE  Agree(d, o, n, len)
<1>1. \A k \in 1 .. n : d[k] < len /\ o[d[k] + 1] = k - 1
  BY DEF Agree
<1>2. ASSUME NEW j \in 1 .. len
      PROVE  o[j] < n /\ d[o[j] + 1] < j /\ (o[j] + 1 < n => j <= d[o[j] + 2])
  <2>1. o[j] = m[j] /\ m[j] \in Nat /\ m[j] < n /\ d[m[j] + 1] = c[m[j] + 1]
    BY DEF Agree
  <2>2. ASSUME m[j] + 1 < n PROVE j <= d[m[j] + 2]
    <3>1. d[m[j] + 2] = c[m[j] + 2]
      BY <2>1, <2>2
    <3> QED BY <3>1, <2>1, <2>2 DEF Agree
  <2> QED BY <2>1, <2>2 DEF Agree
<1> QED BY <1>1, <1>2 DEF Agree

\* What Decode appends, entry by entry: character i + 1, of w bytes, to len bytes.
Appended(i, w, len) ==
    /\ i \in Nat /\ len \in Nat /\ w \in 1 .. 4 /\ i < Len(chars) /\ Len(chars) \in Nat
    /\ chars[i + 1] \in Character
    /\ c2b' \in Seq(Nat) /\ Len(c2b') = i + 1
    /\ \A k \in 1 .. i : c2b'[k] = c2b[k] /\ c2b[k] \in Nat
    /\ c2b'[i + 1] = len
    /\ b2c' \in Seq(Nat) /\ Len(b2c') = len + w
    /\ \A j \in 1 .. len : b2c'[j] = b2c[j] /\ b2c[j] \in Nat
    /\ \A j \in len + 1 .. len + w : b2c'[j] = i
    /\ bow' \in Seq(BOOLEAN) /\ Len(bow') = len + w
    /\ \A j \in 1 .. len : bow'[j] = bow[j]
    /\ \A j \in len + 1 .. len + w : bow'[j] <=> j = len + 1 /\ CanStart(chars[i + 1].cats)

LEMMA DecodeAppends ==
    ASSUME Indexed, Decode
    PROVE  Appended(Len(c2b), chars[Len(c2b) + 1].width, Len(bow))
<1> DEFINE i == Len(c2b)
           w == chars[i + 1].width
           len == Len(bow)
           can == CanStart(chars[i + 1].cats)
           added == IndexOf(w, i)
           starts == BowOf(w, can)
<1>1. /\ chars \in Seq(Character) /\ c2b \in Seq(Nat) /\ b2c \in Seq(Nat)
      /\ bow \in Seq(BOOLEAN) /\ Len(b2c) = len
  BY DEF Indexed, TextTypes, IndexLengths, Decode
<1>2. i \in Nat /\ len \in Nat /\ Len(chars) \in Nat
  BY <1>1, LenProperties
<1>3. /\ i < Len(chars) /\ c2b' = Append(c2b, len) /\ b2c' = b2c \o added
      /\ bow' = bow \o starts
  BY DEF Decode
<1>4. chars[i + 1] \in Character
  BY <1>1, <1>2, <1>3, ElementOfSeq
<1>5. w \in 1 .. 4
  BY <1>4 DEF Character
<1>6. /\ c2b' \in Seq(Nat) /\ Len(c2b') = i + 1
      /\ \A k \in 1 .. i : c2b'[k] = c2b[k] /\ c2b[k] \in Nat
      /\ c2b'[i + 1] = len
  BY <1>1, <1>2, <1>3, AppendProperties, ElementOfSeq
<1> HIDE DEF i, w, len
<1>7. added \in Seq(Nat) /\ Len(added) = w /\ \A j \in 1 .. w : added[j] = i
  BY <1>2, <1>5 DEF IndexOf
<1>8. can \in BOOLEAN
  BY DEF CanStart
<1> HIDE DEF can, added
<1>9. starts \in Seq(BOOLEAN) /\ Len(starts) = w /\ \A j \in 1 .. w : starts[j] <=> j = 1 /\ can
  <2>1. starts = [j \in 1 .. w |-> j = 1 /\ can]
    BY DEF BowOf
  <2>2. \A j \in 1 .. w : starts[j] = (j = 1 /\ can)
    BY <2>1, Zenon
  <2>3. starts \in [1 .. w -> BOOLEAN]
    BY <2>1, Zenon
  <2>4. starts \in Seq(BOOLEAN) /\ Len(starts) = w
    <3> HIDE DEF starts
    <3>1. w \in Nat
      BY <1>5
    <3> QED BY <2>3, <3>1
  <2> QED BY <2>2, <2>4, Zenon
<1> HIDE DEF starts
<1>10. /\ b2c' \in Seq(Nat) /\ Len(b2c') = len + w
       /\ \A j \in 1 .. len + w : b2c'[j] = IF j <= len THEN b2c[j] ELSE added[j - len]
  BY <1>1, <1>3, <1>7, ConcatProperties
<1>11. /\ bow' \in Seq(BOOLEAN) /\ Len(bow') = len + w
       /\ \A j \in 1 .. len + w : bow'[j] = IF j <= len THEN bow[j] ELSE starts[j - len]
  <2>1. Len(bow) = len
    BY DEF len
  <2>2. /\ bow \o starts \in Seq(BOOLEAN) /\ Len(bow \o starts) = Len(bow) + Len(starts)
        /\ \A j \in 1 .. Len(bow) + Len(starts) :
               (bow \o starts)[j] = IF j <= Len(bow) THEN bow[j] ELSE starts[j - Len(bow)]
    BY <1>1, <1>9, ConcatProperties, Zenon
  <2> QED BY <2>1, <2>2, <1>3, <1>9, Zenon
<1>12. ASSUME NEW j \in 1 .. len
       PROVE  b2c'[j] = b2c[j] /\ b2c[j] \in Nat /\ bow'[j] = bow[j]
  <2>1. j \in 1 .. len + w /\ j <= len
    BY <1>2, <1>5
  <2> QED BY <2>1, <1>1, <1>10, <1>11, ElementOfSeq
<1>13. ASSUME NEW j \in len + 1 .. len + w
       PROVE  b2c'[j] = i /\ (bow'[j] <=> j = len + 1 /\ can)
  <2>1. j \in 1 .. len + w /\ ~(j <= len) /\ j - len \in 1 .. w /\ (j - len = 1 <=> j = len + 1)
    BY <1>2, <1>5
  <2>2. b2c'[j] = added[j - len] /\ bow'[j] = starts[j - len]
    BY <2>1, <1>10, <1>11
  <2> QED BY <2>1, <2>2, <1>7, <1>9
<1>14. Appended(i, w, len)
  BY <1>2, <1>3, <1>4, <1>5, <1>6, <1>10, <1>11, <1>12, <1>13 DEF Appended, can
<1> QED BY <1>14 DEF i, w, len

\* Decode and Terminate keep the indexes in agreement.
LEMMA IndexedStep ==
    ASSUME Indexed, Decode \/ Terminate
    PROVE  Indexed'
<1>1. /\ chars \in Seq(Character) /\ c2b \in Seq(Nat) /\ b2c \in Seq(Nat)
      /\ bow \in Seq(BOOLEAN) /\ catRun \in Seq(Nat) /\ stage = "decode"
      /\ Len(c2b) <= Len(chars) /\ Len(b2c) = Len(bow)
      /\ Agree(c2b, b2c, Len(c2b), Len(bow))
  BY DEF Indexed, TextTypes, IndexLengths, Decoded, Decode, Terminate
<1>2. Len(c2b) \in Nat /\ Len(b2c) \in Nat /\ Len(bow) \in Nat /\ Len(chars) \in Nat
  BY <1>1, LenProperties
<1>3. /\ \A k \in 1 .. Len(c2b) : c2b[k] \in Nat
      /\ \A j \in 1 .. Len(bow) : b2c[j] \in Nat
  BY <1>1, ElementOfSeq
\* The entry Terminate appends to the offsets.
<1>4. /\ Append(c2b, Len(bow)) \in Seq(Nat) /\ Len(Append(c2b, Len(bow))) = Len(c2b) + 1
      /\ \A k \in 1 .. Len(c2b) : Append(c2b, Len(bow))[k] = c2b[k]
      /\ Append(c2b, Len(bow))[Len(c2b) + 1] = Len(bow)
  BY <1>1, <1>2, AppendProperties
<1>5. CASE Decode
  <2> DEFINE i == Len(c2b)
             w == chars[i + 1].width
             len == Len(bow)
  <2>1. /\ w \in 1 .. 4 /\ i < Len(chars) /\ chars[i + 1] \in Character
        /\ c2b' \in Seq(Nat) /\ Len(c2b') = i + 1
        /\ \A k \in 1 .. i : c2b'[k] = c2b[k]
        /\ c2b'[i + 1] = len
        /\ b2c' \in Seq(Nat) /\ Len(b2c') = len + w
        /\ \A j \in 1 .. len : b2c'[j] = b2c[j]
        /\ \A j \in len + 1 .. len + w : b2c'[j] = i
        /\ bow' \in Seq(BOOLEAN) /\ Len(bow') = len + w
    BY <1>5, DecodeAppends DEF Appended
  <2>2. /\ UNCHANGED <<chars, catRun, common, stage>>
        /\ prev' = chars[i + 1].cats /\ nextBOW' = NextBOW(chars[i + 1].cats)
    BY <1>5 DEF Decode
  <2>3. i \in Nat /\ len \in Nat
    BY <1>2
  <2>4. \A k \in 1 .. i : c2b[k] \in Nat
    BY <1>3
  <2>5. \A j \in 1 .. len : b2c[j] \in Nat
    BY <1>3
  <2>6. Agree(c2b, b2c, i, len)
    BY <1>1
  <2>7. prev' \subseteq Categories /\ nextBOW' \in BOOLEAN
    <3>1. chars[i + 1].cats \subseteq Categories
      BY <2>1 DEF Character
    <3> QED BY <3>1, <2>2 DEF NextBOW
  <2> HIDE DEF i, w, len
  <2>8. Agree(c2b', b2c', i + 1, len + w)
    <3>1. i + 1 \in Nat /\ len + w \in Nat /\ len < len + w
      BY <2>1, <2>3
    <3>2. ASSUME NEW next \in Nat, next = i + 1, NEW size \in Nat, size = len + w
          PROVE  Agree(c2b', b2c', next, size)
      <4>1. (\A j \in len + 1 .. size : b2c'[j] = i) /\ (\A j \in 1 .. len : b2c'[j] = b2c[j])
        BY <2>1, <3>2
      <4>2. (\A k \in 1 .. i : c2b'[k] = c2b[k]) /\ c2b'[i + 1] = len
        BY <2>1
      <4>3. next = i + 1 /\ len < size
        BY <3>1, <3>2
      <4> QED BY <4>1, <4>2, <4>3, <2>3, <2>4, <2>5, <2>6, AgreeDecoded
    <3> QED BY <3>1, <3>2
  <2>9. stage' = "decode" /\ Decoded' = i + 1
    BY <1>1, <2>1, <2>2 DEF Decoded
  <2>10. i + 1 <= Len(chars)
    BY <1>2, <2>1, <2>3
  <2>11. TextTypes'
    BY <1>1, <2>1, <2>2, <2>7, Zenon DEF Indexed, TextTypes
  <2>12. IndexLengths'
    BY <2>1, <2>2, <2>9, <2>10 DEF IndexLengths
  <2> QED BY <2>1, <2>8, <2>9, <2>11, <2>12 DEF Indexed
<1>6. CASE Terminate
  <2>1. /\ Len(c2b) = Len(chars) /\ c2b' = Append(c2b, Len(bow))
        /\ b2c' = Append(b2c, Len(chars)) /\ stage' = "runs"
        /\ UNCHANGED <<chars, bow, prev, nextBOW, catRun, common>>
    BY <1>6 DEF Terminate
  <2>2. /\ b2c' \in Seq(Nat) /\ Len(b2c') = Len(bow) + 1
        /\ \A j \in 1 .. Len(bow) : b2c'[j] = b2c[j]
        /\ b2c'[Len(bow) + 1] = Len(chars)
    BY <1>1, <1>2, <2>1, AppendProperties
  <2>3. Agree(c2b', b2c', Len(c2b), Len(bow))
    <3>1. \A k \in 1 .. Len(c2b) : c2b'[k] = c2b[k]
      BY <1>4, <2>1
    <3> QED BY <1>1, <1>2, <1>3, <2>2, <3>1, AgreeTerminated
  <2>4. TextTypes' /\ IndexLengths'
    BY <1>1, <1>4, <2>1, <2>2 DEF Indexed, TextTypes, IndexLengths
  <2> QED BY <2>1, <2>3, <2>4 DEF Indexed, Decoded
<1> QED BY <1>5, <1>6

-----------------------------------------------------------------------------
(* Where a word may begin                                                   *)

\* n characters before i are joiners, and not one more.
Joiners(i, n) ==
    /\ \A m \in 1 .. n : NoOOVBOW2 \in Category(i - m)
    /\ n = i \/ NoOOVBOW2 \notin Category(i - n - 1)

\* The CHOOSE of JoinersBefore has one thing to choose from.
LEMMA JoinersBeforeIs ==
    ASSUME NEW i \in Nat
    PROVE  /\ JoinersBefore(i) \in 0 .. i /\ Joiners(i, JoinersBefore(i))
           /\ \A n \in 0 .. i : Joiners(i, n) => n = JoinersBefore(i)
<1>1. \E n \in 0 .. i : Joiners(i, n)
  <2> DEFINE S == {n \in 0 .. i : n = i \/ NoOOVBOW2 \notin Category(i - n - 1)}
  <2>1. S \in SUBSET Nat /\ i \in S
    OBVIOUS
  <2>2. PICK n \in S : \A k \in S : n <= k
    BY <2>1, Least
  <2>3. ASSUME NEW m \in 1 .. n PROVE NoOOVBOW2 \in Category(i - m)
    <3>1. m - 1 \in 0 .. i /\ m - 1 \notin S /\ i - (m - 1) - 1 = i - m
      BY <2>2
    <3> QED BY <3>1
  <2> QED BY <2>2, <2>3 DEF Joiners
<1>2. JoinersBefore(i) \in 0 .. i /\ Joiners(i, JoinersBefore(i))
  BY <1>1 DEF JoinersBefore, Joiners
<1>3. ASSUME NEW n \in 0 .. i, NEW m \in 0 .. i, Joiners(i, n), Joiners(i, m), n < m
      PROVE  FALSE
  <2>1. n + 1 \in 1 .. m /\ i - (n + 1) = i - n - 1
    BY <1>3
  <2> QED BY <2>1, <1>3 DEF Joiners
<1>4. \A n \in 0 .. i : Joiners(i, n) => n = JoinersBefore(i)
  BY <1>2, <1>3
<1> QED BY <1>2, <1>4

\* How the number of joiners goes on.
LEMMA JoinersAfter ==
    ASSUME NEW i \in Nat
    PROVE  /\ JoinersBefore(i) \in Nat /\ JoinersBefore(0) = 0
           /\ JoinersBefore(i + 1) = IF NoOOVBOW2 \in Category(i)
                                     THEN JoinersBefore(i) + 1 ELSE 0
<1> DEFINE n == JoinersBefore(i)
<1>1. n \in 0 .. i /\ Joiners(i, n)
  BY JoinersBeforeIs
<1>2. JoinersBefore(0) = 0
  BY 0 \in Nat, JoinersBeforeIs
<1> HIDE DEF n
<1>3. CASE NoOOVBOW2 \in Category(i)
  <2>1. ASSUME NEW m \in 1 .. n + 1 PROVE NoOOVBOW2 \in Category(i + 1 - m)
    <3>1. CASE m = 1
      <4>1. i + 1 - m = i
        BY <3>1
      <4> QED BY <4>1, <1>3
    <3>2. CASE m # 1
      <4>1. m - 1 \in 1 .. n /\ i + 1 - m = i - (m - 1)
        BY <3>2, <1>1
      <4> QED BY <4>1, <1>1 DEF Joiners
    <3> QED BY <3>1, <3>2
  <2>2. n + 1 = i + 1 \/ NoOOVBOW2 \notin Category(i + 1 - (n + 1) - 1)
    <3>1. i + 1 - (n + 1) - 1 = i - n - 1
      BY <1>1
    <3> QED BY <3>1, <1>1 DEF Joiners
  <2>3. Joiners(i + 1, n + 1) /\ n + 1 \in 0 .. i + 1 /\ i + 1 \in Nat
    BY <2>1, <2>2, <1>1 DEF Joiners
  <2>4. n + 1 = JoinersBefore(i + 1)
    BY <2>3, JoinersBeforeIs
  <2> QED BY <2>4, <1>1, <1>2, <1>3 DEF n
<1>4. CASE NoOOVBOW2 \notin Category(i)
  <2>1. i + 1 - 0 - 1 = i
    OBVIOUS
  <2>2. Joiners(i + 1, 0) /\ 0 \in 0 .. i + 1 /\ i + 1 \in Nat
    BY <2>1, <1>4 DEF Joiners
  <2>3. 0 = JoinersBefore(i + 1)
    BY <2>2, JoinersBeforeIs
  <2> QED BY <2>3, <1>1, <1>2, <1>4 DEF n
<1> QED BY <1>3, <1>4

\* What the text says of its characters stays.
LEMMA StartedKept ==
    ASSUME Started, UNCHANGED <<chars, c2b, b2c, bow, prev, nextBOW>>,
           stage' = "decode" => stage = "decode"
    PROVE  Started'
<1>1. /\ \A k : JoinersBefore(k)' = JoinersBefore(k)
      /\ \A k : MayStart(k)' <=> MayStart(k)
  BY DEF MayStart, JoinersBefore, Category
<1>2. (nextBOW <=> JoinersBefore(Len(c2b)) % 2 = 0)'
         <=> (nextBOW <=> JoinersBefore(Len(c2b)) % 2 = 0)
  BY <1>1
<1>3. ASSUME NEW j \in 1 .. Len(bow)
      PROVE  bow'[j] <=> c2b'[b2c'[j] + 1] = j - 1 /\ MayStart(b2c[j])'
  BY <1>1 DEF Started
<1> QED BY <1>2, <1>3 DEF Started

LEMMA StartedStep ==
    ASSUME Indexed, Started, Decode \/ Terminate
    PROVE  Started'
<1>1. CASE Decode
  <2> DEFINE i == Len(c2b)
             w == chars[i + 1].width
             len == Len(bow)
             c == chars[i + 1].cats
  <2>1. Appended(i, w, len)
    BY <1>1, DecodeAppends
  <2>2. /\ stage = "decode" /\ UNCHANGED <<chars, stage>>
        /\ prev' = c /\ nextBOW' = NextBOW(c)
    BY <1>1 DEF Decode
  <2>3. (nextBOW <=> JoinersBefore(i) % 2 = 0) /\ prev = IF i = 0 THEN {} ELSE chars[i].cats
    BY <2>2 DEF Started
  <2>4. Agree(c2b, b2c, i, len)
    BY <2>2 DEF Indexed, Decoded
  <2>5. \A j \in 1 .. len : bow[j] <=> c2b[b2c[j] + 1] = j - 1 /\ MayStart(b2c[j])
    BY DEF Started
  <2> HIDE DEF i, w, len
  <2>6. i \in Nat /\ len \in Nat /\ w \in 1 .. 4 /\ Len(c2b') = i + 1 /\ Len(bow') = len + w
    BY <2>1 DEF Appended
  <2>7. \A k \in Nat : JoinersBefore(k)' = JoinersBefore(k) /\ (MayStart(k)' <=> MayStart(k))
    BY <2>2 DEF JoinersBefore, MayStart, Category
  <2>8. c = Category(i) /\ (i > 0 => chars[i].cats = Category(i - 1))
    BY <2>6 DEF Category
  <2>9. nextBOW' <=> JoinersBefore(Len(c2b))' % 2 = 0
    <3>1. /\ JoinersBefore(i) \in Nat
          /\ JoinersBefore(i + 1) = IF NoOOVBOW2 \in c THEN JoinersBefore(i) + 1 ELSE 0
      BY <2>6, <2>8, JoinersAfter
    <3>2. JoinersBefore(Len(c2b))' = JoinersBefore(i + 1)
      BY <2>6, <2>7
    <3>3. nextBOW' <=> (nextBOW => NoOOVBOW2 \notin c)
      BY <2>2 DEF NextBOW
    <3> HIDE DEF c
    <3> QED BY <3>1, <3>2, <3>3, <2>3
  <2>10. CanStart(c) <=> MayStart(i)
    <3>1. CASE i = 0
      <4>1. ~Has(c, prev)
        BY <3>1, <2>3 DEF Has
      <4> QED BY <4>1, <3>1, <2>3, <2>8 DEF CanStart, MayStart
    <3>2. CASE i # 0
      <4>1. prev = Category(i - 1)
        BY <3>2, <2>3, <2>6, <2>8
      <4> QED BY <4>1, <3>2, <2>3, <2>8 DEF CanStart, MayStart
    <3> QED BY <3>1, <3>2
  <2>11. ASSUME NEW j \in 1 .. len + w
         PROVE  bow'[j] <=> c2b'[b2c'[j] + 1] = j - 1 /\ MayStart(b2c[j])'
    <3>1. CASE j \in 1 .. len
      <4>1. b2c'[j] = b2c[j] /\ b2c[j] \in Nat /\ b2c[j] < i /\ (bow'[j] <=> bow[j])
        BY <3>1, <2>1, <2>4 DEF Appended, Agree
      <4>2. b2c[j] + 1 \in 1 .. i
        BY <4>1, <2>6
      <4>3. c2b'[b2c[j] + 1] = c2b[b2c[j] + 1]
        BY <4>2, <2>1 DEF Appended
      <4>4. MayStart(b2c[j])' <=> MayStart(b2c[j])
        BY <4>1, <2>7
      <4> QED BY <4>1, <4>3, <4>4, <3>1, <2>5
    <3>2. CASE j \in len + 1 .. len + w
      <4>1. b2c'[j] = i /\ (bow'[j] <=> j = len + 1 /\ CanStart(c)) /\ c2b'[i + 1] = len
        BY <3>2, <2>1 DEF Appended
      <4>2. j - 1 = len <=> j = len + 1
        BY <2>6
      <4>3. MayStart(b2c[j])' <=> MayStart(i)
        BY <4>1, <2>6, <2>7
      <4> QED BY <4>1, <4>2, <4>3, <2>10
    <3> QED BY <3>1, <3>2, <2>6
  <2>12. prev' = chars'[Len(c2b')].cats /\ Len(c2b') # 0
    BY <2>2, <2>6
  <2> QED BY <2>6, <2>9, <2>11, <2>12 DEF Started
<1>2. CASE Terminate
  <2>1. /\ Len(c2b) = Len(chars) /\ c2b' = Append(c2b, Len(bow))
        /\ b2c' = Append(b2c, Len(chars)) /\ stage = "decode" /\ stage' = "runs"
        /\ UNCHANGED <<chars, bow>>
    BY <1>2 DEF Terminate
  <2>2. /\ c2b \in Seq(Nat) /\ b2c \in Seq(Nat) /\ bow \in Seq(BOOLEAN) /\ Len(b2c) = Len(bow)
        /\ Agree(c2b, b2c, Len(c2b), Len(bow))
    BY <2>1 DEF Indexed, TextTypes, IndexLengths, Decoded
  <2>3. Len(c2b) \in Nat /\ Len(bow) \in Nat
    BY <2>2, LenProperties
  <2>4. ASSUME NEW j \in 1 .. Len(bow)
        PROVE  bow'[j] <=> c2b'[b2c'[j] + 1] = j - 1 /\ MayStart(b2c[j])'
    <3>1. b2c'[j] = b2c[j] /\ b2c[j] \in Nat /\ b2c[j] < Len(c2b)
      <4>1. j \in 1 .. Len(b2c) /\ Len(c2b) \in Nat
        BY <2>2, <2>3
      <4>2. b2c'[j] = b2c[j]
        <5>1. Len(chars) \in Nat
          BY <2>1, <2>3
        <5> QED BY <2>1, <2>2, <4>1, <5>1, AppendProperties
      <4>3. b2c[j] \in Nat
        BY <2>2, <4>1, ElementOfSeq
      <4>4. b2c[j] < Len(c2b)
        BY <2>2 DEF Agree
      <4> QED BY <4>2, <4>3, <4>4
    <3>2. b2c[j] + 1 \in 1 .. Len(c2b)
      BY <3>1, <2>3
    <3>3. c2b'[b2c[j] + 1] = c2b[b2c[j] + 1]
      BY <3>2, <2>1, <2>2, <2>3, AppendProperties
    <3>4. MayStart(b2c[j])' <=> MayStart(b2c[j])
      BY <3>1, <2>1 DEF MayStart, Category, JoinersBefore
    <3> QED BY <3>1, <3>3, <3>4, <2>1 DEF Started
  <2> QED BY <2>1, <2>4 DEF Started
<1> QED BY <1>1, <1>2

-----------------------------------------------------------------------------
(* The runs                                                                 *)

\* A category shared by n + 1 characters is one of the first and is shared by
\* the n behind it.
LEMMA SharingFirst ==
    ASSUME NEW x, NEW a \in Nat, NEW n \in Nat
    PROVE  Sharing(x, a, n + 1) <=> x \in chars[a].cats /\ Sharing(x, a + 1, n)
BY DEF Sharing

LEMMA ScannedStep ==
    ASSUME TextTypes, Scanned, ScanRun
    PROVE  TextTypes' /\ Scanned'
<1> DEFINE here == Len(chars) - Len(catRun)
           c == chars[here].cats
           run == IF JoinsRun(c) THEN Head(catRun) + 1 ELSE 1
<1>1. /\ chars \in Seq(Character) /\ catRun \in Seq(Nat) /\ stage = "runs"
      /\ Len(catRun) < Len(chars) /\ catRun' = <<run>> \o catRun
      /\ common' = IF JoinsRun(c) THEN common \cap c ELSE c
      /\ UNCHANGED <<chars, c2b, b2c, bow, stage>>
  BY DEF TextTypes, ScanRun
<1>2. Len(catRun) \in Nat /\ Len(chars) \in Nat /\ here \in Nat \ {0} /\ here = Unscanned
  BY <1>1, LenProperties DEF Unscanned
\* What is known of the run after, if there is one.
<1>3. ASSUME catRun # <<>>
      PROVE  /\ Len(catRun) >= 1 /\ Head(catRun) = catRun[1] /\ catRun[1] \in Nat \ {0}
             /\ here + 1 + catRun[1] <= Len(chars) + 1
             /\ \A x \in Named : x \in common <=> Sharing(x, here + 1, catRun[1])
  <2>1. Len(catRun) >= 1 /\ Head(catRun) = catRun[1]
    BY <1>1, <1>2, <1>3, EmptySeq
  <2>2. 1 \in 1 .. Len(catRun)
    BY <1>2, <2>1
  <2>3. catRun[1] \in Nat
    BY <1>1, <2>2, ElementOfSeq
  <2>4. RunSound(catRun, Unscanned, 1)
    BY <2>2 DEF Scanned
  <2> QED BY <2>1, <2>3, <2>4, <1>2, <1>3 DEF RunSound, Scanned
<1>4. run \in Nat
  BY <1>3 DEF JoinsRun
<1> HIDE DEF run
<1>5. /\ catRun' \in Seq(Nat) /\ Len(catRun') = Len(catRun) + 1 /\ catRun'[1] = run
      /\ \A j \in 1 .. Len(catRun) : catRun'[j + 1] = catRun[j]
  <2>1. <<run>> \in Seq(Nat) /\ Len(<<run>>) = 1 /\ <<run>>[1] = run
    BY <1>4
  <2>2. /\ <<run>> \o catRun \in Seq(Nat) /\ Len(<<run>> \o catRun) = 1 + Len(catRun)
        /\ \A j \in 1 .. 1 + Len(catRun) :
               (<<run>> \o catRun)[j] = IF j <= 1 THEN <<run>>[j] ELSE catRun[j - 1]
    BY <1>1, <2>1, ConcatProperties
  <2> QED BY <1>1, <1>2, <2>1, <2>2
<1>6. Unscanned' = here - 1
  BY <1>1, <1>2, <1>5 DEF Unscanned
\* The new run, where a category goes on, and where none does.
<1>7. /\ RunSound(catRun', here - 1, 1)
      /\ \A x \in Named : x \in common' <=> Sharing(x, here, run)
  <2>1. CASE JoinsRun(c)
    <3>1. catRun # <<>> /\ run = catRun[1] + 1 /\ \E x \in Named : x \in c /\ x \in common
      BY <2>1, <1>3 DEF JoinsRun, Has, run
    <3>2. \A x \in Named : Sharing(x, here, run) <=> x \in c /\ x \in common
      BY <3>1, <1>2, <1>3, SharingFirst
    <3>3. \E x \in Named : Sharing(x, here, run)
      BY <3>1, <3>2
    <3>4. run > 1 /\ here + run <= Len(chars) + 1
      BY <3>1, <1>2, <1>3
    <3>5. RunSound(catRun', here - 1, 1)
      <4>1. here - 1 + 1 = here
        BY <1>2
      <4> QED BY <4>1, <3>3, <3>4, <1>1, <1>4, <1>5 DEF RunSound
    <3> QED BY <3>2, <3>5, <2>1, <1>1
  <2>2. CASE ~JoinsRun(c)
    <3>1. run = 1 /\ common' = c
      BY <2>2, <1>1 DEF run
    <3>2. \A x \in Named : Sharing(x, here, run) <=> x \in c
      BY <3>1, <1>2 DEF Sharing
    <3>3. ASSUME 1 < Len(catRun'), NEW x \in Named
          PROVE  ~Sharing(x, here, catRun'[2] + 1)
      <4>1. catRun # <<>> /\ catRun'[2] = catRun[1] /\ Len(catRun) >= 1
        BY <3>3, <1>2, <1>3, <1>5
      <4>2. ~(x \in c /\ x \in common)
        BY <4>1, <2>2 DEF JoinsRun, Has
      <4> QED BY <4>1, <4>2, <1>2, <1>3, SharingFirst
    <3>4. RunSound(catRun', here - 1, 1)
      <4>1. here - 1 + 1 = here /\ here + 1 <= Len(chars) + 1 /\ 1 + 1 = 2
        BY <1>1, <1>2
      <4> QED BY <4>1, <3>1, <3>3, <1>1, <1>5 DEF RunSound
    <3> QED BY <3>1, <3>2, <3>4
  <2> QED BY <2>1, <2>2
\* The others, which have moved by one.
<1>8. ASSUME NEW j \in 2 .. Len(catRun) + 1
      PROVE  RunSound(catRun', here - 1, j)
  <2>1. j - 1 \in 1 .. Len(catRun) /\ here - 1 + j = here + (j - 1)
    BY <1>2
  <2>2. RunSound(catRun, here, j - 1)
    BY <2>1, <1>2 DEF Scanned
  <2>3. catRun'[j] = catRun[j - 1]
    BY <2>1, <1>5
  <2>4. ASSUME j < Len(catRun') PROVE j - 1 < Len(catRun) /\ catRun'[j + 1] = catRun[(j - 1) + 1]
    BY <2>1, <2>4, <1>2, <1>5
  <2> QED BY <2>1, <2>2, <2>3, <2>4, <1>1 DEF RunSound
<1>9. \A j \in 1 .. Len(catRun') : RunSound(catRun', Unscanned', j)
  <2>1. \A j \in 1 .. Len(catRun') : j = 1 \/ j \in 2 .. Len(catRun) + 1
    BY <1>2, <1>5
  <2> QED BY <2>1, <1>6, <1>7, <1>8
<1>10. Unscanned' + 1 = here /\ Len(catRun') <= Len(chars)
  BY <1>1, <1>2, <1>5, <1>6
<1>11. TextTypes'
  <2>1. c \subseteq Categories
    <3>1. chars[here] \in Character
      BY <1>1, <1>2, ElementOfSeq
    <3> QED BY <3>1 DEF Character
  <2>2. common' \subseteq Categories /\ UNCHANGED <<prev, nextBOW>>
    BY <2>1, <1>1 DEF TextTypes, ScanRun
  <2> QED BY <2>2, <1>1, <1>5 DEF TextTypes
<1>12. Scanned'
  <2>1. (\A j \in 1 .. Len(catRun) : RunSound(catRun, Unscanned, j))'
    BY <1>1, <1>9 DEF RunSound, Sharing
  <2>2. (\A x \in Named : x \in common <=> Sharing(x, Unscanned + 1, catRun[1]))'
    BY <1>1, <1>5, <1>7, <1>10 DEF Sharing
  <2> QED BY <2>1, <2>2, <1>1, <1>10 DEF Scanned
<1> QED BY <1>11, <1>12

-----------------------------------------------------------------------------
(* The invariant, and what follows from it when the text is built            *)

TextInv == Indexed /\ Started /\ Scanned

LEMMA TextInvInit == TextInit => TextInv
<1> SUFFICES ASSUME TextInit PROVE TextInv
  OBVIOUS
<1>1. /\ chars \in Seq(Character) /\ c2b = <<>> /\ b2c = <<>> /\ bow = <<>> /\ catRun = <<>>
      /\ prev = {} /\ nextBOW = TRUE /\ common = {} /\ stage = "decode"
  BY TextsAssumption DEF TextInit
<1>2. Len(chars) \in Nat
  BY <1>1, LenProperties
<1>3. JoinersBefore(0) = 0
  BY 0 \in Nat, JoinersAfter
<1>4. Started
  BY <1>1, <1>3 DEF Started
<1> QED BY <1>1, <1>2, <1>4 DEF TextInv, Indexed, TextTypes, IndexLengths, Agree, Decoded, Scanned

LEMMA TextInvStep == TextInv /\ [Build]_textVars => TextInv'
<1> SUFFICES ASSUME TextInv, [Build]_textVars PROVE TextInv'
  OBVIOUS
<1>1. CASE Decode \/ Terminate
  <2>1. Indexed'
    BY <1>1, IndexedStep DEF TextInv
  <2>2. /\ Scanned /\ catRun = <<>> /\ stage = "decode" /\ stage' \in {"decode", "runs"}
        /\ UNCHANGED <<chars, catRun>>
    BY <1>1 DEF TextInv, Scanned, Decode, Terminate
  <2>3. Started'
    BY <1>1, StartedStep DEF TextInv
  <2> QED BY <2>1, <2>2, <2>3 DEF TextInv, Scanned
<1>2. CASE ScanRun
  <2>1. TextTypes' /\ Scanned'
    BY <1>2, ScannedStep DEF TextInv, Indexed
  <2>2. stage # "decode" /\ UNCHANGED <<chars, c2b, b2c, bow, stage>>
    BY <1>2 DEF ScanRun
  <2>3. Started'
    BY <1>2, StartedKept DEF TextInv, ScanRun
  <2> QED BY <2>1, <2>2, <2>3 DEF TextInv, Indexed, IndexLengths, Decoded
<1>3. CASE FinishRuns
  <2>1. /\ stage = "runs" /\ stage' = "built" /\ Len(catRun) = Len(chars)
        /\ UNCHANGED <<chars, c2b, b2c, bow, prev, nextBOW, catRun, common>>
    BY <1>3 DEF FinishRuns
  <2>2. Indexed'
    BY <2>1 DEF TextInv, Indexed, TextTypes, IndexLengths, Decoded
  <2>3. Scanned'
    BY <2>1 DEF TextInv, Scanned, RunSound, Sharing, Unscanned
  <2>4. Started'
    BY <2>1, StartedKept DEF TextInv
  <2> QED BY <2>2, <2>3, <2>4 DEF TextInv
<1>4. CASE UNCHANGED textVars
  <2>1. Started'
    BY <1>4, StartedKept DEF textVars, TextInv
  <2> QED BY <2>1, <1>4 DEF textVars, TextInv, Indexed, TextTypes, IndexLengths, Decoded, Scanned,
                             RunSound, Sharing, Unscanned
<1> QED BY <1>1, <1>2, <1>3, <1>4 DEF Build

LEMMA TextInvHolds == TextSpec => []TextInv
<1> QED BY TextInvInit, TextInvStep, PTL DEF TextSpec

LEMMA IndexesFollow == TextInv => IndexesAgree
<1> SUFFICES ASSUME TextInv, Built PROVE IndexesAgree
  BY DEF IndexesAgree
<1> DEFINE n == Len(chars)
           len == Len(bow)
<1>1. /\ chars \in Seq(Character) /\ c2b \in Seq(Nat) /\ b2c \in Seq(Nat) /\ bow \in Seq(BOOLEAN)
      /\ Len(c2b) = n + 1 /\ c2b[n + 1] = len /\ Len(b2c) = len + 1 /\ b2c[len + 1] = n
      /\ Agree(c2b, b2c, n, len)
  <2>1. stage # "decode"
    BY DEF Built
  <2>2. TextTypes /\ IndexLengths /\ Agree(c2b, b2c, Decoded, len)
    BY DEF TextInv, Indexed
  <2>3. Decoded = n
    BY <2>1 DEF Decoded
  <2> QED BY <2>1, <2>2, <2>3 DEF TextTypes, IndexLengths
<1>2. n \in Nat /\ len \in Nat
  BY <1>1, LenProperties
<1>3. (\A k \in 1 .. n : c2b[k] \in Nat) /\ \A j \in 1 .. len : b2c[j] \in Nat
  BY <1>1, <1>2, ElementOfSeq
<1> HIDE DEF n, len
<1>4. ASSUME NEW i \in 0 .. n PROVE b2c[c2b[i + 1] + 1] = i
  <2>1. CASE i = n
    BY <2>1, <1>1
  <2>2. CASE i < n
    <3>1. i + 1 \in 1 .. n /\ (i + 1) - 1 = i
      BY <2>2, <1>2
    <3> QED BY <3>1, <1>1 DEF Agree
  <2> QED BY <2>1, <2>2, <1>2
<1>5. ASSUME NEW b \in 0 .. len - 1
      PROVE  c2b[b2c[b + 1] + 1] <= b /\ b < c2b[b2c[b + 1] + 1 + 1]
  <2> DEFINE i == b2c[b + 1]
  <2>1. b + 1 \in 1 .. len
    BY <1>2
  <2>2. i \in Nat /\ i < n /\ c2b[i + 1] < b + 1 /\ (i + 1 < n => b + 1 <= c2b[i + 2])
    BY <2>1, <1>1, <1>3 DEF Agree
  <2> HIDE DEF i
  <2>3. i + 1 \in 1 .. n /\ c2b[i + 1] \in Nat /\ i + 1 + 1 = i + 2
    BY <2>2, <1>2, <1>3
  <2>4. CASE i + 1 < n
    <3>1. c2b[i + 2] \in Nat
      <4>1. i + 2 \in 1 .. n
        BY <2>3, <2>4, <1>2
      <4> QED BY <4>1, <1>3
    <3> QED BY <3>1, <2>2, <2>3, <2>4 DEF i
  <2>5. CASE i + 1 = n
    <3>1. c2b[i + 2] = len
      BY <2>3, <2>5, <1>1
    <3> QED BY <3>1, <2>2, <2>3, <1>2 DEF i
  <2> QED BY <2>2, <2>4, <2>5, <1>2
<1> QED BY <1>1, <1>4, <1>5
        DEF IndexesAgree, CharLen, ByteLen, CharIndex, ByteOffset, n, len

\* Characters begin at bytes of their own, in order, from 0 to the end.
LEMMA OffsetsAscend ==
    ASSUME TextInv, Built
    PROVE  /\ CharLen \in Nat /\ ByteLen \in Nat
           /\ \A i \in 0 .. CharLen :
                  ByteOffset(i) \in 0 .. ByteLen /\ CharIndex(ByteOffset(i)) = i
           /\ \A i, j \in 0 .. CharLen : i < j => ByteOffset(i) < ByteOffset(j)
           /\ \A b \in 0 .. ByteLen : CharIndex(b) \in 0 .. CharLen
           /\ ByteOffset(0) = 0 /\ ByteOffset(CharLen) = ByteLen /\ CharIndex(ByteLen) = CharLen
<1> DEFINE n == CharLen
           len == ByteLen
<1>1. /\ n \in Nat /\ len \in Nat
      /\ c2b \in Seq(Nat) /\ Len(c2b) = n + 1 /\ c2b[n + 1] = len
      /\ b2c \in Seq(Nat) /\ Len(b2c) = len + 1 /\ b2c[len + 1] = n
      /\ Agree(c2b, b2c, n, len)
  BY LenProperties
     DEF TextInv, Indexed, TextTypes, IndexLengths, Decoded, Built, CharLen, ByteLen
<1>2. \A i \in 0 .. n : CharIndex(ByteOffset(i)) = i
  BY IndexesFollow DEF IndexesAgree
<1> HIDE DEF n, len
<1>3. ASSUME NEW i \in 0 .. n PROVE ByteOffset(i) \in 0 .. len
  <2>1. i + 1 \in 1 .. n + 1
    BY <1>1
  <2>2. c2b[i + 1] \in Nat
    BY <2>1, <1>1, ElementOfSeq
  <2>3. i + 1 \in 1 .. n => c2b[i + 1] < len
    BY <1>1 DEF Agree
  <2> QED BY <2>1, <2>2, <2>3, <1>1 DEF ByteOffset
<1>4. ASSUME NEW b \in 0 .. len PROVE CharIndex(b) \in 0 .. n
  <2>1. b + 1 \in 1 .. len + 1
    BY <1>1
  <2>2. b2c[b + 1] \in Nat
    BY <2>1, <1>1, ElementOfSeq
  <2>3. b + 1 \in 1 .. len => b2c[b + 1] < n
    BY <1>1 DEF Agree
  <2> QED BY <2>1, <2>2, <2>3, <1>1 DEF CharIndex
<1>5. ASSUME NEW i \in 0 .. n, i < n PROVE ByteOffset(i) < ByteOffset(i + 1)
  <2>1. i + 1 \in 1 .. n /\ (i + 1) - 1 = i
    BY <1>1, <1>5
  <2>2. c2b[i + 1] < len /\ b2c[c2b[i + 1] + 1] = i
    BY <2>1, <1>1 DEF Agree
  <2>3. c2b[i + 1] + 1 \in 1 .. len
    BY <2>2, <1>1, <1>3 DEF ByteOffset
  <2>4. i + 1 < n => c2b[i + 1] + 1 <= c2b[i + 2]
    BY <2>2, <2>3, <1>1 DEF Agree
  <2>5. i + 1 = n => c2b[i + 2] = len
    <3>1. i + 1 = n => i + 2 = n + 1
      BY <1>1
    <3> QED BY <3>1, <1>1
  <2>6. ByteOffset(i) = c2b[i + 1] /\ ByteOffset(i + 1) = c2b[i + 2]
    BY <1>1 DEF ByteOffset
  <2>7. ByteOffset(i) \in Nat /\ ByteOffset(i + 1) \in Nat
    <3>1. i + 1 \in 0 .. n
      BY <2>1
    <3> QED BY <3>1, <1>1, <1>3
  <2>8. c2b[i + 1] < c2b[i + 2]
    <3>1. CASE i + 1 = n
      BY <2>2, <2>5, <3>1
    <3>2. CASE i + 1 # n
      <4>1. i + 1 < n
        BY <2>1, <1>1, <3>2
      <4>2. c2b[i + 1] \in Nat /\ c2b[i + 2] \in Nat
        BY <2>6, <2>7
      <4> QED BY <2>4, <4>1, <4>2
    <3> QED BY <3>1, <3>2
  <2> QED BY <2>6, <2>8
<1>6. ASSUME NEW i \in 0 .. n, NEW j \in 0 .. n, i < j PROVE ByteOffset(i) < ByteOffset(j)
  <2> DEFINE S == {k \in i + 1 .. n : ~(ByteOffset(i) < ByteOffset(k))}
  <2>1. SUFFICES ASSUME S # {} PROVE FALSE
    <3>1. j \in i + 1 .. n
      BY <1>1, <1>6
    <3> QED BY <3>1
  <2>2. PICK k \in S : \A x \in S : k <= x
    <3>1. S \in SUBSET Nat
      BY <1>1
    <3> HIDE DEF S
    <3> QED BY <2>1, <3>1, Least
  <2>3. k \in i + 1 .. n /\ ~(ByteOffset(i) < ByteOffset(k))
    OBVIOUS
  <2>4. k # i + 1
    BY <2>3, <1>1, <1>5
  <2>5. k - 1 \in i + 1 .. n /\ k - 1 \in 0 .. n /\ k - 1 < n /\ k - 1 + 1 = k /\ k \in 0 .. n
    BY <2>3, <2>4, <1>1
  <2>6. k - 1 \notin S
    <3>1. ~(k <= k - 1)
      BY <2>3, <1>1
    <3> HIDE DEF S
    <3> QED BY <3>1, <2>2
  <2>7. ByteOffset(i) < ByteOffset(k - 1) /\ ByteOffset(k - 1) < ByteOffset(k)
    BY <2>5, <2>6, <1>5
  <2>8. ByteOffset(i) \in Int /\ ByteOffset(k - 1) \in Int /\ ByteOffset(k) \in Int
    BY <2>5, <1>1, <1>3
  <2> QED BY <2>3, <2>7, <2>8
<1>7. ByteOffset(n) = len
  BY <1>1 DEF ByteOffset
<1>8. ByteOffset(0) = 0
  <2>1. CASE n = 0
    <3>1. len = 0
      <4>1. ASSUME len # 0 PROVE FALSE
        <5>1. 1 \in 1 .. len /\ 1 \in 1 .. Len(b2c)
          BY <4>1, <1>1
        <5>2. b2c[1] < 0 /\ b2c[1] \in Nat
          BY <5>1, <2>1, <1>1, ElementOfSeq DEF Agree
        <5> QED BY <5>2
      <4> QED BY <4>1
    <3> QED BY <3>1, <2>1, <1>7
  <2>2. CASE n # 0
    <3>1. ByteOffset(0) \in Nat /\ ByteOffset(0) < len
      BY <2>2, <1>1, <1>3, <1>6, <1>7
    <3>2. 1 \in 1 .. len /\ 0 \in 0 .. len /\ 0 + 1 = 1
      BY <3>1, <1>1
    <3>3. CharIndex(0) \in 0 .. n /\ CharIndex(0) = b2c[1]
      BY <3>2, <1>4 DEF CharIndex
    <3>4. ByteOffset(CharIndex(0)) < 1
      BY <3>2, <3>3, <1>1 DEF Agree, ByteOffset
    <3>5. ByteOffset(CharIndex(0)) = 0
      BY <3>3, <3>4, <1>1, <1>3
    <3>6. CharIndex(0) = 0
      <4>1. ASSUME CharIndex(0) # 0 PROVE ByteOffset(0) < ByteOffset(CharIndex(0))
        BY <4>1, <3>3, <1>1, <1>6
      <4> QED BY <4>1, <3>1, <3>5
    <3> QED BY <3>5, <3>6
  <2> QED BY <2>1, <2>2
<1>9. CharIndex(len) = n
  BY <1>1 DEF CharIndex
<1> QED BY <1>1, <1>2, <1>3, <1>4, <1>6, <1>7, <1>8, <1>9 DEF n, len

LEMMA RunsFollow == TextInv => CatRunSound
<1> SUFFICES ASSUME TextInv, Built, NEW i \in 0 .. CharLen - 1
             PROVE  /\ CategoryRun(i) >= 1 /\ i + CategoryRun(i) <= CharLen
                    /\ CategoryRun(i) > 1 => CommonOf(i, CategoryRun(i)) # {}
                    /\ i > 0 /\ CategoryRun(i - 1) = 1 =>
                          CommonOf(i - 1, CategoryRun(i) + 1) = {}
  BY DEF CatRunSound
<1>1. /\ catRun \in Seq(Nat) /\ Len(catRun) = Len(chars) /\ Len(chars) \in Nat /\ Unscanned = 0
      /\ \A j \in 1 .. Len(chars) : catRun[j] \in Nat /\ RunSound(catRun, 0, j)
  BY LenProperties, ElementOfSeq DEF TextInv, Indexed, TextTypes, Scanned, Built, Unscanned
\* The categories common to characters are those they share.
<1>2. ASSUME NEW k \in Nat, NEW n \in Nat
      PROVE  CommonOf(k, n) = {x \in Named : Sharing(x, k + 1, n)}
  <2>1. ASSUME NEW x
        PROVE  (\A m \in 0 .. n - 1 : x \in chars[k + m + 1].cats) <=> Sharing(x, k + 1, n)
    <3>1. ASSUME \A m \in 0 .. n - 1 : x \in chars[k + m + 1].cats,
                 NEW a \in k + 1 .. k + 1 + n - 1
          PROVE  x \in chars[a].cats
      <4>1. a - (k + 1) \in 0 .. n - 1 /\ k + (a - (k + 1)) + 1 = a
        OBVIOUS
      <4> QED BY <4>1, <3>1
    <3>2. ASSUME Sharing(x, k + 1, n), NEW m \in 0 .. n - 1
          PROVE  x \in chars[k + m + 1].cats
      <4>1. k + m + 1 \in k + 1 .. k + 1 + n - 1
        OBVIOUS
      <4> QED BY <4>1, <3>2 DEF Sharing
    <3> QED BY <3>1, <3>2 DEF Sharing
  <2> QED BY <2>1 DEF CommonOf, Category
<1>3. i \in Nat /\ i + 1 \in 1 .. Len(chars) /\ CategoryRun(i) = catRun[i + 1]
  BY <1>1 DEF CharLen, CategoryRun
<1>4. RunSound(catRun, 0, i + 1) /\ catRun[i + 1] \in Nat /\ 0 + (i + 1) = i + 1
  BY <1>1, <1>3
<1>5. CategoryRun(i) >= 1 /\ i + CategoryRun(i) <= CharLen
  BY <1>1, <1>3, <1>4 DEF RunSound, CharLen
<1>6. ASSUME CategoryRun(i) > 1 PROVE CommonOf(i, CategoryRun(i)) # {}
  <2>1. \E x \in Named : Sharing(x, i + 1, catRun[i + 1])
    BY <1>3, <1>4, <1>6 DEF RunSound
  <2> QED BY <2>1, <1>2, <1>3, <1>4
<1>7. ASSUME i > 0, CategoryRun(i - 1) = 1 PROVE CommonOf(i - 1, CategoryRun(i) + 1) = {}
  <2>1. i \in 1 .. Len(chars) /\ i < Len(catRun) /\ i - 1 \in Nat /\ (i - 1) + 1 = i /\ 0 + i = i
    BY <1>1, <1>3, <1>7
  <2>2. RunSound(catRun, 0, i) /\ catRun[i] = 1
    BY <2>1, <1>1, <1>7 DEF CategoryRun
  <2>3. \A x \in Named : ~Sharing(x, i, catRun[i + 1] + 1)
    BY <2>1, <2>2 DEF RunSound
  <2>4. CommonOf(i - 1, CategoryRun(i) + 1) = {x \in Named : Sharing(x, i, catRun[i + 1] + 1)}
    BY <2>1, <1>2, <1>3, <1>4
  <2> QED BY <2>3, <2>4
<1> QED BY <1>5, <1>6, <1>7

LEMMA StartsFollow == TextInv => BOWMatchesText
<1> SUFFICES ASSUME TextInv, Built, NEW b \in 0 .. ByteLen - 1
             PROVE  CanBOW(b) <=> ByteOffset(CharIndex(b)) = b /\ MayStart(CharIndex(b))
  BY DEF BOWMatchesText, MayStart
<1>1. ByteLen \in Nat /\ ByteLen = Len(bow)
  BY LenProperties DEF TextInv, Indexed, TextTypes, ByteLen
<1>2. b + 1 \in 1 .. Len(bow) /\ b < ByteLen /\ (b + 1) - 1 = b
  BY <1>1
<1>3. bow[b + 1] <=> c2b[b2c[b + 1] + 1] = b /\ MayStart(b2c[b + 1])
  BY <1>2 DEF TextInv, Started
<1> QED BY <1>2, <1>3 DEF CanBOW, ByteOffset, CharIndex

\* For every text, however wide its characters, the indexes from bytes to
\* characters and back that Build fills agree (text.go:19-22).
THEOREM SpecIndexesAgree == TextSpec => []IndexesAgree
BY TextInvHolds, IndexesFollow, PTL

\* For every text, of any categories, a run of Build stays in the text, is of one
\* category, and is of one character only if the next run has none in common
\* with it (text.go:68-79).
THEOREM SpecCatRunSound == TextSpec => []CatRunSound
BY TextInvHolds, RunsFollow, PTL

\* For every text, a word may begin where its characters say so: the parity of
\* joiners that Build carries along in nextBOW is the number of joiners before
\* (text.go:85-109).
THEOREM SpecBOWMatchesText == TextSpec => []BOWMatchesText
BY TextInvHolds, StartsFollow, PTL
=============================================================================
