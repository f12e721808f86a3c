------------------------- MODULE TextBuilderProofs -------------------------
(***************************************************************************)
(* Theorems about TextBuilder, for every set of strings and every bound:   *)
(* type correctness, the monotone and anchored offset map, surfaces that   *)
(* never cut a character, bytes that map to where they were, and rewrites  *)
(* that do exactly what their edits say; and about the plugins that make   *)
(* those edits (InputPlugins), for any rules, marks and brackets. At the   *)
(* end, the types of all that InputText composes.                          *)
(***************************************************************************)
EXTENDS InputText, AnalysisTextProofs

-----------------------------------------------------------------------------
(* Sequences *)

\* A slice of a sequence.
LEMMA SliceFacts ==
    ASSUME NEW S, NEW s \in Seq(S), NEW a \in Nat, NEW b \in Nat,
           a <= b, b <= Len(s)
    PROVE  /\ Slice(s, a, b) \in Seq(S)
           /\ Len(Slice(s, a, b)) = b - a
           /\ \A i \in 1 .. b - a : Slice(s, a, b)[i] = s[a + i]
<1>1. \A i \in a + 1 .. b : s[i] \in S
  BY LenProperties, ElementOfSeq
<1>2. /\ Slice(s, a, b) \in Seq(S)
      /\ Len(Slice(s, a, b)) = IF a + 1 <= b THEN b - (a + 1) + 1 ELSE 0
      /\ \A i \in 1 .. b - (a + 1) + 1 : Slice(s, a, b)[i] = s[(a + 1) + i - 1]
  BY <1>1, SubSeqProperties DEF Slice
<1> QED BY <1>2

\* Premises of the two lemmas below, bundled so that they are found at once.
IsPart(S, u, s, a, b) == /\ u \in Seq(S) /\ s \in Seq(S)
                         /\ a \in Nat /\ b \in Nat /\ a <= b /\ b <= Len(s)
AreParts(S, u, s, w, a, b) == IsPart(S, u, s, a, b) /\ w \in Seq(S)

\* u followed by s[a:b]: the tail of apply.
LEMMA SliceAppend ==
    ASSUME NEW S, NEW u, NEW s, NEW a, NEW b, IsPart(S, u, s, a, b)
    PROVE  LET r == u \o Slice(s, a, b) IN
           /\ r \in Seq(S)
           /\ Len(u) \in Nat /\ Len(r) = Len(u) + (b - a)
           /\ \A k \in 1 .. Len(r) :
                 r[k] = IF k <= Len(u) THEN u[k] ELSE s[a + (k - Len(u))]
<1> DEFINE v == Slice(s, a, b)
           r == u \o v
<1>0. /\ u \in Seq(S) /\ s \in Seq(S)
      /\ a \in Nat /\ b \in Nat /\ a <= b /\ b <= Len(s)
  BY DEF IsPart
<1>1. /\ v \in Seq(S) /\ Len(v) = b - a
      /\ \A i \in 1 .. b - a : v[i] = s[a + i]
  BY <1>0, SliceFacts
<1>2. r = u \o v
  OBVIOUS
<1>3. v \in Seq(S)
  BY <1>1
<1> HIDE DEF v, r
<1>4. /\ r \in Seq(S)
      /\ Len(r) = Len(u) + Len(v)
      /\ \A k \in 1 .. Len(u) + Len(v) :
            r[k] = IF k <= Len(u) THEN u[k] ELSE v[k - Len(u)]
  BY <1>0, <1>2, <1>3, ConcatProperties
<1>5. Len(u) \in Nat
  BY <1>0, LenProperties
<1>6. ASSUME NEW k \in 1 .. Len(r)
      PROVE  r[k] = IF k <= Len(u) THEN u[k] ELSE s[a + (k - Len(u))]
  <2>1. k \in 1 .. Len(u) + Len(v)
    BY <1>4
  <2>2. CASE k <= Len(u)
    BY <1>4, <2>1, <2>2
  <2>3. CASE ~(k <= Len(u))
    <3> DEFINE i == k - Len(u)
    <3>1. i \in 1 .. b - a
      BY <1>0, <1>1, <1>4, <1>5, <2>3
    <3>2. r[k] = v[i]
      BY <1>4, <2>1, <2>3
    <3> HIDE DEF i
    <3>3. v[i] = s[a + i]
      BY <1>1, <3>1
    <3> QED BY <2>3, <3>2, <3>3 DEF i
  <2> QED BY <2>2, <2>3
<1> QED BY <1>0, <1>1, <1>4, <1>5, <1>6 DEF v, r

\* u, then s[a:b], then w: what one iteration of apply builds.
LEMMA SliceConcat ==
    ASSUME NEW S, NEW u, NEW s, NEW w, NEW a, NEW b, AreParts(S, u, s, w, a, b)
    PROVE  LET r == u \o Slice(s, a, b) \o w IN
           /\ r \in Seq(S)
           /\ Len(r) = Len(u) + (b - a) + Len(w)
           /\ \A k \in 1 .. Len(r) :
                 r[k] = IF k <= Len(u) THEN u[k]
                        ELSE IF k <= Len(u) + (b - a) THEN s[a + (k - Len(u))]
                        ELSE w[k - (Len(u) + (b - a))]
<1> DEFINE uv == u \o Slice(s, a, b)
           r == uv \o w
<1>0. /\ w \in Seq(S) /\ a \in Nat /\ b \in Nat /\ a <= b
      /\ IsPart(S, u, s, a, b)
  BY DEF AreParts, IsPart
<1>1. /\ uv \in Seq(S)
      /\ Len(u) \in Nat /\ Len(uv) = Len(u) + (b - a)
      /\ \A k \in 1 .. Len(uv) :
            uv[k] = IF k <= Len(u) THEN u[k] ELSE s[a + (k - Len(u))]
  <2>1. IsPart(S, u, s, a, b)
    BY <1>0
  <2> QED BY ONLY <2>1, SliceAppend
<1>2. r = uv \o w
  OBVIOUS
<1> HIDE DEF uv, r
<1>3. uv \in Seq(S)
  BY <1>1
<1>4. /\ r \in Seq(S)
      /\ Len(r) = Len(uv) + Len(w)
      /\ \A k \in 1 .. Len(uv) + Len(w) :
            r[k] = IF k <= Len(uv) THEN uv[k] ELSE w[k - Len(uv)]
  BY <1>0, <1>2, <1>3, ConcatProperties
<1>5. Len(w) \in Nat
  BY <1>0, LenProperties
<1>6. ASSUME NEW k \in 1 .. Len(r)
      PROVE  r[k] = IF k <= Len(u) THEN u[k]
                    ELSE IF k <= Len(u) + (b - a) THEN s[a + (k - Len(u))]
                    ELSE w[k - (Len(u) + (b - a))]
  <2>1. k \in 1 .. Len(uv) + Len(w)
    BY <1>4
  <2>2. r[k] = IF k <= Len(uv) THEN uv[k] ELSE w[k - Len(uv)]
    BY <1>4, <2>1
  <2>3. CASE k <= Len(uv)
    <3>1. k \in 1 .. Len(uv)
      BY <1>1, <2>1, <2>3
    <3>2. uv[k] = IF k <= Len(u) THEN u[k] ELSE s[a + (k - Len(u))]
      BY <1>1, <3>1
    <3> QED BY <1>1, <2>2, <2>3, <3>2
  <2>4. CASE ~(k <= Len(uv))
    BY <1>0, <1>1, <2>1, <2>2, <2>4
  <2> QED BY <2>3, <2>4
<1> QED BY <1>0, <1>1, <1>4, <1>6 DEF uv, r

-----------------------------------------------------------------------------
(* Type correctness *)

\* Nothing is pending outside apply: what makes TypeOK inductive.
NotApplying == pc # "applying" => pending = {}

TInv == TypeOK /\ NotApplying

LEMMA OriginalFacts ==
    ASSUME TypeOK
    PROVE  /\ IsString(original) /\ Len(original) \in Nat
           /\ Len(current) \in Nat /\ Len(m2o) = Len(current) + 1
<1>1. IsString(original)
  BY StringsAssumption DEF TypeOK
<1> QED BY <1>1, LenProperties DEF TypeOK, IsString

\* An accepted edit lies between pos and the end of the text.
LEMMA AcceptedFacts ==
    ASSUME TypeOK, NEW i \in pending, ~Rejected(edits[i])
    PROVE  /\ edits[i] \in Edit
           /\ pos <= edits[i].begin /\ edits[i].begin <= edits[i].end
           /\ edits[i].end <= Len(current)
           /\ MapOf(edits[i]) \in Seq(0 .. Len(original))
           /\ BytesOf(edits[i]) \in Seq(Byte)
           /\ Len(edits[i].with) \in Nat
           /\ Len(MapOf(edits[i])) = Len(edits[i].with)
           /\ Len(BytesOf(edits[i])) = Len(edits[i].with)
<1> DEFINE ed == edits[i]
           n == Len(ed.with)
<1>1. ed \in Edit
  <2>1. i \in 1 .. Len(edits)
    BY LenProperties DEF TypeOK
  <2> QED BY <2>1, ElementOfSeq DEF TypeOK
<1>2. pos <= ed.begin /\ ed.begin <= ed.end /\ ed.end <= Len(current)
  <2>1. ed.begin \in Int /\ ed.end \in Int /\ pos \in Int /\ Len(current) \in Int
    <3>1. ed.begin \in Int /\ ed.end \in Int
      BY ONLY <1>1 DEF Edit
    <3>2. Len(current) \in Int /\ pos \in 0 .. Len(current)
      BY OriginalFacts DEF TypeOK
    <3> QED BY ONLY <3>1, <3>2
  <2>2. ~(ed.begin < pos) /\ ~(ed.end < ed.begin) /\ ~(ed.end > Len(current))
    BY DEF Rejected
  <2> HIDE DEF ed
  <2> QED BY ONLY <2>1, <2>2
<1>3. n \in Nat /\ ed.with \in [1 .. n -> BOOLEAN]
  BY <1>1, LenProperties DEF Edit
<1>4. m2o[ed.begin + 1] \in 0 .. Len(original) /\ m2o[ed.end + 1] \in 0 .. Len(original)
  <2>1. ed.begin \in Nat /\ ed.end \in Nat
    BY <1>1 DEF Edit
  <2>2. Len(current) \in Nat /\ Len(m2o) = Len(current) + 1
    BY OriginalFacts
  <2> HIDE DEF ed
  <2>3. ed.begin + 1 \in 1 .. Len(m2o) /\ ed.end + 1 \in 1 .. Len(m2o)
    BY <1>2, <2>1, <2>2
  <2> QED BY <2>3, ElementOfSeq DEF TypeOK
<1>5. MapOf(ed) \in Seq(0 .. Len(original)) /\ Len(MapOf(ed)) = n
  BY <1>3, <1>4 DEF MapOf
<1>6. BytesOf(ed) \in Seq(Byte) /\ Len(BytesOf(ed)) = n
  BY <1>3 DEF BytesOf, Byte, NewByte
<1> QED BY <1>1, <1>2, <1>3, <1>5, <1>6

\* What an iteration of apply appends to its two local slices.
LEMMA ApplyEditEffect ==
    ASSUME TypeOK, NEW i \in pending, ApplyEdit(i),
           NEW e, e = edits[i].begin
    PROVE  /\ sb' \in Seq(Byte)
           /\ Len(sb') = Len(sb) + (e - pos) + Len(edits[i].with)
           /\ \A k \in 1 .. Len(sb') :
                 sb'[k] = IF k <= Len(sb) THEN sb[k]
                          ELSE IF k <= Len(sb) + (e - pos)
                               THEN current[pos + (k - Len(sb))]
                          ELSE BytesOf(edits[i])[k - (Len(sb) + (e - pos))]
           /\ newMap' \in Seq(0 .. Len(original))
           /\ Len(newMap') = Len(newMap) + (e - pos) + Len(edits[i].with)
           /\ \A k \in 1 .. Len(newMap') :
                 newMap'[k] = IF k <= Len(newMap) THEN newMap[k]
                              ELSE IF k <= Len(newMap) + (e - pos)
                                   THEN m2o[pos + (k - Len(newMap))]
                              ELSE MapOf(edits[i])[k - (Len(newMap) + (e - pos))]
<1> DEFINE ed == edits[i]
           w  == BytesOf(ed)
           mw == MapOf(ed)
           off == 0 .. Len(original)
<1>1. /\ ed \in Edit
      /\ pos <= ed.begin /\ ed.begin <= ed.end /\ ed.end <= Len(current)
      /\ mw \in Seq(off) /\ w \in Seq(Byte)
      /\ Len(ed.with) \in Nat
      /\ Len(mw) = Len(ed.with) /\ Len(w) = Len(ed.with)
  BY AcceptedFacts DEF ApplyEdit
<1>2. /\ pos \in Nat /\ ed.begin \in Nat /\ ed.end \in Nat
      /\ Len(current) \in Nat /\ Len(m2o) = Len(current) + 1
  BY <1>1, OriginalFacts DEF Edit, TypeOK
<1>3. /\ sb' = sb \o Slice(current, pos, e) \o w
      /\ newMap' = newMap \o Slice(m2o, pos, e) \o mw
  BY DEF ApplyEdit
<1>4. /\ sb \in Seq(Byte) /\ current \in Seq(Byte)
      /\ newMap \in Seq(off) /\ m2o \in Seq(off)
  BY DEF TypeOK
<1>5. /\ e \in Nat /\ pos <= e /\ e <= Len(current) /\ e <= Len(m2o)
      /\ w \in Seq(Byte) /\ mw \in Seq(off) /\ pos \in Nat
  BY <1>1, <1>2
<1> HIDE DEF w, mw, ed, off
<1>a. AreParts(Byte, sb, current, w, pos, e) /\ AreParts(off, newMap, m2o, mw, pos, e)
  BY <1>4, <1>5 DEF AreParts, IsPart
<1>6. /\ sb' \in Seq(Byte)
      /\ Len(sb') = Len(sb) + (e - pos) + Len(w)
      /\ \A k \in 1 .. Len(sb') :
            sb'[k] = IF k <= Len(sb) THEN sb[k]
                     ELSE IF k <= Len(sb) + (e - pos)
                          THEN current[pos + (k - Len(sb))]
                     ELSE w[k - (Len(sb) + (e - pos))]
  BY ONLY <1>3, <1>a, SliceConcat
<1>7. /\ newMap' \in Seq(off)
      /\ Len(newMap') = Len(newMap) + (e - pos) + Len(mw)
      /\ \A k \in 1 .. Len(newMap') :
            newMap'[k] = IF k <= Len(newMap) THEN newMap[k]
                         ELSE IF k <= Len(newMap) + (e - pos)
                              THEN m2o[pos + (k - Len(newMap))]
                         ELSE mw[k - (Len(newMap) + (e - pos))]
  BY ONLY <1>3, <1>a, SliceConcat
<1>8. Len(w) = Len(edits[i].with) /\ Len(mw) = Len(edits[i].with)
  BY <1>1 DEF ed
<1> QED BY <1>6, <1>7, <1>8 DEF w, mw, ed, off

\* What Commit makes of the text and of the map, before and after the pin.
LEMMA CommitEffect ==
    ASSUME TypeOK, Commit,
           NEW m, m = newMap \o Slice(m2o, pos, Len(m2o))
    PROVE  /\ current' \in Seq(Byte)
           /\ Len(current') = Len(sb) + (Len(current) - pos)
           /\ \A k \in 1 .. Len(current') :
                 current'[k] = IF k <= Len(sb) THEN sb[k]
                               ELSE current[pos + (k - Len(sb))]
           /\ m \in Seq(0 .. Len(original))
           /\ Len(m) = Len(newMap) + (Len(m2o) - pos)
           /\ \A k \in 1 .. Len(m) :
                 m[k] = IF k <= Len(newMap) THEN newMap[k]
                        ELSE m2o[pos + (k - Len(newMap))]
           /\ m2o' \in Seq(0 .. Len(original)) /\ Len(m2o') = Len(m)
           /\ \A k \in 1 .. Len(m) :
                 m2o'[k] = IF k = 1 /\ Len(m) > 1 THEN 0 ELSE m[k]
<1> DEFINE off == 0 .. Len(original)
           c == Len(current)
           l == Len(m2o)
<1>1. /\ c \in Nat /\ c <= Len(current) /\ l \in Nat /\ l <= Len(m2o)
      /\ pos \in Nat /\ pos <= c /\ pos <= l
      /\ 0 \in off
  BY OriginalFacts DEF TypeOK
<1>2. /\ sb \in Seq(Byte) /\ current \in Seq(Byte)
      /\ newMap \in Seq(off) /\ m2o \in Seq(off)
  BY DEF TypeOK
<1>3. /\ current' = sb \o Slice(current, pos, c)
      /\ m = newMap \o Slice(m2o, pos, l)
      /\ m2o' = PinHead(m)
  BY DEF Commit
<1> HIDE DEF off, c, l
<1>a. IsPart(Byte, sb, current, pos, c) /\ IsPart(off, newMap, m2o, pos, l)
  BY <1>1, <1>2 DEF IsPart
<1>4. /\ current' \in Seq(Byte)
      /\ Len(current') = Len(sb) + (c - pos)
      /\ \A k \in 1 .. Len(current') :
            current'[k] = IF k <= Len(sb) THEN sb[k]
                          ELSE current[pos + (k - Len(sb))]
  BY ONLY <1>3, <1>a, SliceAppend
<1>5. /\ m \in Seq(off)
      /\ Len(m) = Len(newMap) + (l - pos)
      /\ \A k \in 1 .. Len(m) :
            m[k] = IF k <= Len(newMap) THEN newMap[k]
                   ELSE m2o[pos + (k - Len(newMap))]
  BY ONLY <1>3, <1>a, SliceAppend
<1>6. /\ m2o' \in Seq(off) /\ Len(m2o') = Len(m)
      /\ \A k \in 1 .. Len(m) :
            m2o'[k] = IF k = 1 /\ Len(m) > 1 THEN 0 ELSE m[k]
  <2>1. m \in Seq(off) /\ Len(m) \in Nat
    BY <1>5, LenProperties
  <2>2. CASE Len(m) > 1
    <3>1. 1 \in 1 .. Len(m)
      BY <2>1, <2>2
    <3>2. m2o' = [m EXCEPT ![1] = 0]
      BY <1>3, <2>2 DEF PinHead
    <3>3. /\ m2o' \in Seq(off) /\ Len(m2o') = Len(m)
          /\ \A k \in 1 .. Len(m) : m2o'[k] = IF k = 1 THEN 0 ELSE m[k]
      <4>1. /\ [m EXCEPT ![1] = 0] \in Seq(off) /\ Len([m EXCEPT ![1] = 0]) = Len(m)
            /\ \A k \in 1 .. Len(m) :
                  [m EXCEPT ![1] = 0][k] = IF k = 1 THEN 0 ELSE m[k]
        <5>1. m \in Seq(off) /\ 1 \in 1 .. Len(m) /\ 0 \in off
          BY <1>1, <2>1, <3>1
        <5> QED BY ONLY <5>1, ExceptSeq
      <4> QED BY <3>2, <4>1
    <3> QED BY <2>2, <3>3
  <2>3. CASE ~(Len(m) > 1)
    BY <1>3, <2>1, <2>3 DEF PinHead
  <2> QED BY <2>2, <2>3
<1> QED BY <1>4, <1>5, <1>6 DEF off, c, l

LEMMA InitTInv == Init => TInv
<1> SUFFICES ASSUME Init PROVE TInv
  OBVIOUS
<1>1. original \in Originals /\ original \in Seq(BOOLEAN)
  BY StringsAssumption DEF Init, NewBuilder, IsString
<1>2. Len(original) \in Nat /\ original \in [1 .. Len(original) -> BOOLEAN]
  BY <1>1, LenProperties
<1>3. current \in Seq(Byte) /\ Len(current) = Len(original)
  BY <1>2 DEF Init, NewBuilder, Byte
<1>4. m2o \in Seq(0 .. Len(original)) /\ Len(m2o) = Len(original) + 1
  BY <1>2 DEF Init, NewBuilder
<1>5. <<>> \in Seq(Byte) /\ <<>> \in Seq(Edit) /\ <<>> \in Seq(0 .. Len(original))
  BY EmptySeq
<1>6. pos \in 0 .. Len(current) /\ rewrites \in 0 .. MaxRewrites
  BY <1>2, <1>3, StringsAssumption DEF Init
<1> QED BY <1>1, <1>3, <1>4, <1>5, <1>6 DEF Init, NewBuilder, TInv, TypeOK, NotApplying

LEMMA NextTInv == TInv /\ [Next]_vars => TInv'
<1> SUFFICES ASSUME TInv, [Next]_vars PROVE TInv'
  OBVIOUS
<1> USE DEF TInv
<1>0. /\ <<>> \in Seq(Byte) /\ <<>> \in Seq(Edit) /\ <<>> \in Seq(0 .. Len(original))
      /\ Len(<<>>) = 0 /\ DOMAIN <<>> = {} /\ 0 \in 0 .. Len(current)
      /\ Len(current) \in Nat /\ Len(m2o) = Len(current) + 1
  BY EmptySeq, OriginalFacts
<1>1. CASE StartRewrite
  BY <1>0, <1>1, StringsAssumption DEF StartRewrite, builder, locals, TypeOK, NotApplying
<1>2. ASSUME NEW b \in 0 .. Len(current), NEW e \in 0 .. Len(current) + 1,
             NEW w \in Withs, Replace(b, e, w)
      PROVE  TInv'
  <2>1. [begin |-> b, end |-> e, with |-> w] \in Edit
    BY <1>0, StringsAssumption DEF Edit, IsString
  <2>2. edits' \in Seq(Edit) /\ Len(edits') = Len(edits) + 1
    BY <1>2, <2>1, AppendProperties DEF Replace, TypeOK
  <2> QED BY <1>2, <2>2 DEF Replace, builder, locals, TypeOK, NotApplying
<1>3. CASE LeaveRewrite
  BY <1>0, <1>3 DEF LeaveRewrite, builder, locals, TypeOK, NotApplying
<1>4. CASE StartApply
  BY <1>0, <1>4 DEF StartApply, builder, TypeOK, NotApplying
<1>5. ASSUME NEW i \in pending, ApplyEdit(i) PROVE TInv'
  <2> DEFINE e == edits[i].begin
  <2>1. /\ sb' \in Seq(Byte) /\ Len(sb') = Len(sb) + (e - pos) + Len(edits[i].with)
        /\ newMap' \in Seq(0 .. Len(original))
        /\ Len(newMap') = Len(newMap) + (e - pos) + Len(edits[i].with)
    BY <1>5, ApplyEditEffect
  <2>2. edits[i] \in Edit /\ edits[i].end <= Len(current)
    BY <1>5, AcceptedFacts DEF ApplyEdit
  <2>3. /\ pos' = edits[i].end /\ pending' = pending \ {i}
        /\ aligned' \in BOOLEAN /\ pc = "applying"
        /\ UNCHANGED <<original, current, m2o, edits, pc, rewrites>>
    BY <1>5 DEF ApplyEdit, builder, TypeOK
  <2>4. pos' \in 0 .. Len(current)
    BY <1>0, <2>2, <2>3 DEF Edit
  <2>5. Len(newMap') = Len(sb')
    BY <2>1 DEF TypeOK
  <2> HIDE DEF e
  <2> QED BY <2>1, <2>3, <2>4, <2>5 DEF TypeOK, NotApplying
<1>6. ASSUME NEW i \in pending, RejectEdit(i) PROVE TInv'
  BY <1>0, <1>6 DEF RejectEdit, builder, TypeOK, NotApplying
<1>7. CASE Commit
  <2> DEFINE m == newMap \o Slice(m2o, pos, Len(m2o))
  <2>1. /\ current' \in Seq(Byte)
        /\ Len(current') = Len(sb) + (Len(current) - pos)
        /\ Len(m) = Len(newMap) + (Len(m2o) - pos)
        /\ m2o' \in Seq(0 .. Len(original)) /\ Len(m2o') = Len(m)
    BY <1>7, CommitEffect
  <2> HIDE DEF m
  <2>2. pos \in Nat /\ Len(sb) \in Nat /\ Len(newMap) = Len(sb)
    BY LenProperties DEF TypeOK
  <2>3. Len(m2o') = Len(current') + 1
    BY <1>0, <2>1, <2>2
  <2>4. 0 \in 0 .. Len(current')
    BY <2>1, LenProperties
  <2> QED BY <1>0, <1>7, <2>1, <2>3, <2>4 DEF Commit, TypeOK, NotApplying
<1>8. CASE UNCHANGED vars
  BY <1>8 DEF vars, builder, locals, TypeOK, NotApplying
<1> QED BY <1>1, <1>2, <1>3, <1>4, <1>5, <1>6, <1>7, <1>8 DEF Next

\* Types: in particular the map always has one entry per byte plus a sentinel,
\* so no offset a plugin or the tokenizer looks up is out of range.
THEOREM TypeCorrect == Spec => []TypeOK
<1>1. Spec => []TInv
  BY InitTInv, NextTInv, PTL DEF Spec
<1> QED BY <1>1, PTL DEF TInv

-----------------------------------------------------------------------------
(* The offset map *)

\* The slice apply builds is non-decreasing and stays below the offset of pos,
\* where the part of m2o not copied yet starts.
LocalMapOK ==
    /\ NonDecreasing(newMap)
    /\ \A k \in 1 .. Len(newMap) : newMap[k] <= m2o[pos + 1]

MapInv == /\ MapMonotone
          /\ m2o[Len(m2o)] = Len(original)
          /\ Len(current) > 0 => m2o[1] = 0
          /\ pc = "applying" => LocalMapOK

LEMMA InitMapInv == Init => MapInv
<1> SUFFICES ASSUME Init PROVE MapInv
  OBVIOUS
<1>1. Len(original) \in Nat /\ Len(current) \in Nat
  BY InitTInv, OriginalFacts DEF TInv
<1>2. m2o = [i \in 1 .. Len(original) + 1 |-> i - 1]
  BY DEF Init, NewBuilder
<1>3. Len(m2o) = Len(original) + 1
  BY <1>1, <1>2
<1> QED BY <1>1, <1>2, <1>3 DEF Init, MapInv, MapMonotone, NonDecreasing

\* Values and order of the map, as numbers.
LEMMA MapNumbers ==
    ASSUME TypeOK
    PROVE  /\ Len(current) \in Nat /\ Len(m2o) = Len(current) + 1
           /\ Len(original) \in Nat
           /\ pos \in Nat /\ pos <= Len(current)
           /\ Len(newMap) \in Nat /\ Len(newMap) = Len(sb)
           /\ \A k \in 1 .. Len(m2o) : m2o[k] \in 0 .. Len(original)
           /\ \A k \in 1 .. Len(newMap) : newMap[k] \in 0 .. Len(original)
<1>1. Len(current) \in Nat /\ Len(m2o) = Len(current) + 1 /\ Len(original) \in Nat
  BY OriginalFacts
<1>2. m2o \in Seq(0 .. Len(original)) /\ newMap \in Seq(0 .. Len(original))
  BY DEF TypeOK
<1>3. \A k \in 1 .. Len(m2o) : m2o[k] \in 0 .. Len(original)
  BY <1>2, ElementOfSeq
<1>4. \A k \in 1 .. Len(newMap) : newMap[k] \in 0 .. Len(original)
  BY <1>2, ElementOfSeq
<1>5. Len(newMap) \in Nat
  BY <1>2, LenProperties
<1> QED BY <1>1, <1>3, <1>4, <1>5 DEF TypeOK

LEMMA ApplyEditMapInv ==
    ASSUME TInv, MapInv, NEW i \in pending, ApplyEdit(i)
    PROVE  MapInv'
<1> DEFINE e == edits[i].begin
           f == edits[i].end
           n == Len(newMap) + (e - pos)
           b == m2o[e + 1]
           c == m2o[f + 1]
<1>1. /\ pc = "applying" /\ pos' = f
      /\ UNCHANGED <<original, current, m2o, pc>>
  BY DEF ApplyEdit, builder
<1>2. LocalMapOK /\ MapMonotone
  BY <1>1 DEF MapInv
<1>3. /\ e \in Nat /\ f \in Nat /\ Len(edits[i].with) \in Nat
      /\ pos <= e /\ e <= f /\ f <= Len(current)
  BY AcceptedFacts DEF ApplyEdit, TInv, Edit
<1>4. /\ Len(newMap') = n + Len(edits[i].with)
      /\ \A k \in 1 .. Len(newMap') :
            newMap'[k] = IF k <= Len(newMap) THEN newMap[k]
                         ELSE IF k <= n THEN m2o[pos + (k - Len(newMap))]
                         ELSE MapOf(edits[i])[k - n]
  BY ApplyEditEffect DEF TInv
<1>5. /\ Len(current) \in Nat /\ Len(m2o) = Len(current) + 1 /\ pos \in Nat
      /\ Len(newMap) \in Nat
      /\ \A k \in 1 .. Len(m2o) : m2o[k] \in Int
      /\ \A k \in 1 .. Len(newMap) : newMap[k] \in Int
  BY MapNumbers DEF TInv
<1>6. \A k \in 1 .. Len(edits[i].with) :
         MapOf(edits[i])[k] = IF k = 1 THEN b ELSE c
  BY DEF MapOf
<1>7. /\ m2o[pos + 1] <= b /\ b <= c /\ b \in Int /\ c \in Int /\ m2o[pos + 1] \in Int
      /\ n \in Nat
  <2> HIDE DEF e, f, n, b, c
  <2>1. /\ pos + 1 \in 1 .. Len(m2o) /\ e + 1 \in 1 .. Len(m2o)
        /\ f + 1 \in 1 .. Len(m2o) /\ pos + 1 <= e + 1 /\ e + 1 <= f + 1
    BY <1>3, <1>5
  <2>2. b \in Int /\ c \in Int /\ m2o[pos + 1] \in Int
    BY <1>5, <2>1 DEF b, c
  <2>3. m2o[pos + 1] <= b /\ b <= c
    BY <1>2, <2>1 DEF MapMonotone, NonDecreasing, b, c
  <2>4. n \in Nat
    BY <1>3, <1>5 DEF n
  <2> QED BY <2>2, <2>3, <2>4
<1> DEFINE len == Len(newMap)
           lw == Len(edits[i].with)
<1>8. /\ len \in Nat /\ lw \in Nat /\ n = len + (e - pos)
      /\ Len(newMap') = n + lw
  BY <1>3, <1>4, <1>5
<1> HIDE DEF e, f, n, b, c, len, lw
<1>9. ASSUME NEW k \in 1 .. Len(newMap')
      PROVE  /\ k <= len => newMap'[k] = newMap[k] /\ newMap'[k] <= m2o[pos + 1]
             /\ len < k /\ k <= n => /\ newMap'[k] = m2o[pos + (k - len)]
                                     /\ pos + (k - len) \in 1 .. e
                                     /\ m2o[pos + 1] <= newMap'[k]
                                     /\ newMap'[k] <= b
             /\ n < k => newMap'[k] = IF k = n + 1 THEN b ELSE c
             /\ newMap'[k] \in Int
  <2>1. newMap'[k] = IF k <= len THEN newMap[k]
                     ELSE IF k <= n THEN m2o[pos + (k - len)]
                     ELSE MapOf(edits[i])[k - n]
    BY <1>4 DEF len
  <2>2. CASE k <= len
    <3>1. k \in 1 .. len
      BY <1>8, <2>2
    <3>2. newMap[k] <= m2o[pos + 1] /\ newMap[k] \in Int
      BY <1>2, <1>5, <3>1 DEF LocalMapOK, len
    <3> QED BY <1>3, <1>5, <1>7, <1>8, <2>1, <2>2, <3>2
  <2>3. CASE len < k /\ k <= n
    <3> DEFINE j == pos + (k - len)
    <3>1. j \in 1 .. e /\ j \in 1 .. Len(m2o) /\ pos + 1 <= j /\ j <= e + 1
      BY <1>3, <1>5, <1>8, <2>3
    <3>2. pos + 1 \in 1 .. Len(m2o) /\ e + 1 \in 1 .. Len(m2o)
      BY <1>3, <1>5
    <3>3. newMap'[k] = m2o[j]
      BY <1>8, <2>1, <2>3
    <3> HIDE DEF j
    <3>4. m2o[pos + 1] <= m2o[j] /\ m2o[j] <= m2o[e + 1] /\ m2o[j] \in Int
      BY <1>2, <1>5, <3>1, <3>2 DEF MapMonotone, NonDecreasing
    <3> QED BY <1>8, <2>3, <3>1, <3>3, <3>4 DEF j, b
  <2>4. CASE n < k
    <3>1. k - n \in 1 .. lw
      BY <1>7, <1>8, <2>4
    <3>2. newMap'[k] = MapOf(edits[i])[k - n]
      BY <1>3, <1>5, <1>7, <1>8, <2>1, <2>4
    <3>3. newMap'[k] = IF k - n = 1 THEN b ELSE c
      BY <1>6, <3>1, <3>2 DEF lw
    <3> QED BY <1>3, <1>5, <1>7, <1>8, <2>4, <3>3
  <2> QED BY <1>7, <1>8, <2>2, <2>3, <2>4
<1>10. ASSUME NEW k \in 1 .. Len(newMap') PROVE newMap'[k] <= c
  <2>1. CASE k <= len
    BY <1>7, <1>9, <2>1
  <2>2. CASE len < k /\ k <= n
    BY <1>7, <1>9, <2>2
  <2>3. CASE n < k
    BY <1>7, <1>9, <2>3
  <2> QED BY <1>7, <1>8, <2>1, <2>2, <2>3
<1>11. ASSUME NEW j \in 1 .. Len(newMap'), NEW k \in 1 .. Len(newMap'), j <= k
       PROVE  newMap'[j] <= newMap'[k]
  <2>1. CASE k <= len
    <3>1. j \in 1 .. Len(newMap) /\ k \in 1 .. Len(newMap)
      BY <1>8, <1>11, <2>1 DEF len
    <3>2. newMap[j] <= newMap[k]
      BY <1>2, <1>11, <3>1 DEF LocalMapOK, NonDecreasing
    <3> QED BY <1>9, <1>11, <2>1, <3>2, <1>8
  <2>2. CASE len < k /\ k <= n
    <3>1. CASE j <= len
      BY <1>7, <1>9, <2>2, <3>1
    <3>2. CASE len < j
      <4> DEFINE x == pos + (j - len)
                 y == pos + (k - len)
      <4>1. j <= n
        BY <1>7, <1>8, <1>11, <2>2
      <4>2. /\ newMap'[j] = m2o[x] /\ x \in 1 .. e
            /\ newMap'[k] = m2o[y] /\ y \in 1 .. e
        <5>1. \A m \in 1 .. Len(newMap') : len < m /\ m <= n =>
                  newMap'[m] = m2o[pos + (m - len)] /\ pos + (m - len) \in 1 .. e
          BY <1>9
        <5> QED BY <5>1, <2>2, <3>2, <4>1
      <4>3. x <= y
        BY <1>5, <1>8, <1>11
      <4> HIDE DEF x, y
      <4>4. x \in 1 .. Len(m2o) /\ y \in 1 .. Len(m2o)
        <5>1. e \in Nat /\ e <= Len(m2o) /\ Len(m2o) \in Nat
          BY <1>3, <1>5
        <5> QED BY <4>2, <5>1
      <4>5. m2o[x] <= m2o[y]
        BY <1>2, <4>3, <4>4 DEF MapMonotone, NonDecreasing
      <4> QED BY <4>2, <4>5
    <3> QED BY <1>8, <3>1, <3>2
  <2>3. CASE n < k
    <3>1. CASE j <= n
      BY <1>7, <1>8, <1>9, <2>3, <3>1
    <3>2. CASE n < j
      <4>1. /\ newMap'[j] = IF j = n + 1 THEN b ELSE c
            /\ newMap'[k] = IF k = n + 1 THEN b ELSE c
        BY <1>9, <2>3, <3>2
      <4>2. k = n + 1 => j = n + 1
        BY <1>7, <1>11, <3>2
      <4> QED BY <1>7, <4>1, <4>2
    <3> QED BY <1>7, <1>8, <3>1, <3>2
  <2> QED BY <1>7, <1>8, <2>1, <2>2, <2>3
<1>12. LocalMapOK'
  <2>1. m2o'[pos' + 1] = c
    BY <1>1 DEF c
  <2> QED BY <1>10, <1>11, <2>1 DEF LocalMapOK, NonDecreasing
<1> QED BY <1>1, <1>12 DEF MapInv, MapMonotone, NonDecreasing

LEMMA CommitMapInv ==
    ASSUME TInv, MapInv, Commit
    PROVE  MapInv'
<1> DEFINE m == newMap \o Slice(m2o, pos, Len(m2o))
           len == Len(newMap)
           l == Len(m2o)
<1>1. pc = "applying" /\ pc' = "idle" /\ original' = original
  BY DEF Commit
<1>2. LocalMapOK /\ MapMonotone /\ m2o[Len(m2o)] = Len(original)
  BY <1>1 DEF MapInv
<1>3. /\ Len(m) = len + (l - pos)
      /\ \A k \in 1 .. Len(m) :
            m[k] = IF k <= len THEN newMap[k] ELSE m2o[pos + (k - len)]
      /\ m \in Seq(0 .. Len(original))
      /\ Len(m2o') = Len(m)
      /\ \A k \in 1 .. Len(m) :
            m2o'[k] = IF k = 1 /\ Len(m) > 1 THEN 0 ELSE m[k]
  BY CommitEffect DEF TInv
<1>4. /\ l \in Nat /\ pos \in Nat /\ pos + 1 \in 1 .. l /\ len \in Nat
      /\ Len(original) \in Nat /\ l = Len(current) + 1
      /\ \A k \in 1 .. l : m2o[k] \in 0 .. Len(original)
      /\ \A k \in 1 .. len : newMap[k] \in 0 .. Len(original)
  BY MapNumbers DEF TInv
<1> HIDE DEF m, len
<1>5. \A k \in 1 .. Len(m) : m[k] \in 0 .. Len(original)
  BY <1>3, ElementOfSeq
<1>6. ASSUME NEW j \in 1 .. Len(m), NEW k \in 1 .. Len(m), j <= k
      PROVE  m[j] <= m[k]
  <2>1. CASE k <= len
    <3>1. j \in 1 .. Len(newMap) /\ k \in 1 .. Len(newMap)
      BY <1>4, <1>6, <2>1 DEF len
    <3>2. newMap[j] <= newMap[k]
      BY <1>2, <1>6, <3>1 DEF LocalMapOK, NonDecreasing
    <3>3. j <= len
      BY <1>4, <1>6, <2>1
    <3>4. m[j] = newMap[j] /\ m[k] = newMap[k]
      BY <1>3, <2>1, <3>3
    <3> QED BY <3>2, <3>4
  <2>2. CASE len < k
    <3> DEFINE y == pos + (k - len)
    <3>1. y \in 1 .. l /\ pos + 1 <= y
      BY <1>3, <1>4, <2>2
    <3>2. m[k] = m2o[y]
      BY <1>3, <1>4, <2>2
    <3> HIDE DEF y
    <3>3. CASE j <= len
      <4>1. j \in 1 .. len
        BY <1>4, <3>3
      <4>2. m[j] = newMap[j] /\ newMap[j] <= m2o[pos + 1]
        BY <1>2, <1>3, <3>3, <4>1 DEF LocalMapOK, len
      <4>3. m2o[pos + 1] <= m2o[y]
        BY <1>2, <1>4, <3>1 DEF MapMonotone, NonDecreasing
      <4>4. newMap[j] \in Int /\ m2o[pos + 1] \in Int /\ m2o[y] \in Int
        BY <1>4, <3>1, <4>1
      <4> QED BY <3>2, <4>2, <4>3, <4>4
    <3>4. CASE len < j
      <4> DEFINE x == pos + (j - len)
      <4>1. x \in 1 .. l /\ x <= y
        BY <1>3, <1>4, <1>6, <3>4 DEF y
      <4>2. m[j] = m2o[x]
        BY <1>3, <1>4, <3>4
      <4> HIDE DEF x
      <4>3. m2o[x] <= m2o[y]
        BY <1>2, <3>1, <4>1 DEF MapMonotone, NonDecreasing
      <4> QED BY <3>2, <4>2, <4>3
    <3> QED BY <1>4, <3>3, <3>4
  <2> QED BY <1>4, <2>1, <2>2
<1>7. Len(m) \in Nat /\ Len(m) > 0
  BY <1>3, <1>4
<1>8. m[Len(m)] = Len(original)
  <2>1. Len(m) \in 1 .. Len(m) /\ ~(Len(m) <= len) /\ pos + (Len(m) - len) = l
    BY <1>3, <1>4
  <2>2. m[Len(m)] = m2o[pos + (Len(m) - len)]
    BY <1>3, <2>1
  <2> QED BY <1>2, <2>1, <2>2
<1>9. MapMonotone'
  <2> SUFFICES ASSUME NEW j \in 1 .. Len(m), NEW k \in 1 .. Len(m), j <= k
               PROVE  m2o'[j] <= m2o'[k]
    BY <1>3 DEF MapMonotone, NonDecreasing
  <2>1. m[j] <= m[k] /\ m[j] \in 0 .. Len(original) /\ m[k] \in 0 .. Len(original)
    BY <1>5, <1>6
  <2>2. /\ m2o'[j] = IF j = 1 /\ Len(m) > 1 THEN 0 ELSE m[j]
        /\ m2o'[k] = IF k = 1 /\ Len(m) > 1 THEN 0 ELSE m[k]
    BY <1>3
  <2> QED BY <1>4, <2>1, <2>2
<1>10. m2o'[Len(m2o')] = Len(original')
  BY <1>1, <1>3, <1>7, <1>8
<1>11. Len(current') > 0 => m2o'[1] = 0
  <2>1. Len(m2o') = Len(current') + 1 /\ Len(current') \in Nat
    BY NextTInv, OriginalFacts, Commit DEF Next, TInv, TypeOK
  <2>2. 1 \in 1 .. Len(m)
    BY <1>7
  <2> QED BY <1>3, <1>7, <2>1, <2>2
<1> QED BY <1>1, <1>9, <1>10, <1>11 DEF MapInv

LEMMA NextMapInv == TInv /\ MapInv /\ [Next]_vars => MapInv'
<1> SUFFICES ASSUME TInv, MapInv, [Next]_vars PROVE MapInv'
  OBVIOUS
<1>0. ASSUME UNCHANGED <<builder, newMap, pos>>, pc' = "applying" => pc = "applying"
      PROVE  MapInv'
  BY <1>0 DEF builder, MapInv, MapMonotone, LocalMapOK, NonDecreasing
<1>1. CASE StartRewrite
  BY <1>0, <1>1 DEF StartRewrite, locals
<1>2. ASSUME NEW b \in 0 .. Len(current), NEW e \in 0 .. Len(current) + 1,
             NEW w \in Withs, Replace(b, e, w)
      PROVE  MapInv'
  BY <1>0, <1>2 DEF Replace, locals
<1>3. CASE LeaveRewrite
  BY <1>0, <1>3 DEF LeaveRewrite, locals
<1>4. CASE StartApply
  <2>1. newMap' = <<>> /\ Len(<<>>) = 0 /\ UNCHANGED builder
    BY <1>4, EmptySeq DEF StartApply
  <2>2. LocalMapOK'
    BY <2>1 DEF LocalMapOK, NonDecreasing
  <2> QED BY <2>1, <2>2 DEF builder, MapInv, MapMonotone, NonDecreasing
<1>5. ASSUME NEW i \in pending, ApplyEdit(i) PROVE MapInv'
  BY <1>5, ApplyEditMapInv
<1>6. ASSUME NEW i \in pending, RejectEdit(i) PROVE MapInv'
  BY <1>6 DEF RejectEdit, builder, MapInv, MapMonotone, NonDecreasing
<1>7. CASE Commit
  BY <1>7, CommitMapInv
<1>8. CASE UNCHANGED vars
  BY <1>0, <1>8 DEF vars, locals
<1> QED BY <1>1, <1>2, <1>3, <1>4, <1>5, <1>6, <1>7, <1>8 DEF Next

\* After any chain of rewrites the map is monotone.
THEOREM SpecMapMonotone == Spec => []MapMonotone
<1>1. Spec => [](TInv /\ MapInv)
  BY InitTInv, InitMapInv, NextTInv, NextMapInv, PTL DEF Spec
<1> QED BY <1>1, PTL DEF MapInv

\* A non-empty text always maps to the whole original: the surfaces of any
\* division of the text, put end to end, are the original.
THEOREM SpecMapAnchored == Spec => []MapAnchored
<1>1. Spec => [](TInv /\ MapInv)
  BY InitTInv, InitMapInv, NextTInv, NextMapInv, PTL DEF Spec
<1>2. MapInv => MapAnchored
  BY DEF MapInv, MapAnchored
<1> QED BY <1>1, <1>2, PTL

-----------------------------------------------------------------------------
(* Character boundaries *)

\* The bytes already built start characters only where the original does.
LocalAligned ==
    \A k \in 1 .. Len(sb) : sb[k].head => Boundary(original, newMap[k])

AlignInv == /\ SurfaceOnBoundary
            /\ pc = "applying" /\ aligned => LocalAligned

\* SurfaceOnBoundary, read at a byte or at the end of the text.
LEMMA BoundaryAt ==
    ASSUME TypeOK, SurfaceOnBoundary, aligned,
           NEW x \in 1 .. Len(m2o), CurBoundary(x - 1)
    PROVE  Boundary(original, m2o[x])
<1>1. Len(current) \in Nat /\ Len(m2o) = Len(current) + 1
  BY MapNumbers
<1> DEFINE i == x - 1
<1>2. i \in 0 .. Len(current) /\ i + 1 = x
  BY <1>1
<1>3. CurBoundary(i)
  OBVIOUS
<1> HIDE DEF i
<1>4. Boundary(original, m2o[i + 1])
  BY <1>2, <1>3 DEF SurfaceOnBoundary
<1> QED BY <1>2, <1>4

LEMMA ApplyEditAlignInv ==
    ASSUME TInv, AlignInv, NEW i \in pending, ApplyEdit(i)
    PROVE  AlignInv'
<1> DEFINE e == edits[i].begin
           f == edits[i].end
           len == Len(newMap)
           n == len + (e - pos)
           lw == Len(edits[i].with)
<1>1. /\ pc = "applying" /\ UNCHANGED <<original, current, m2o, pc>>
      /\ aligned' = (aligned /\ CurBoundary(e) /\ CurBoundary(f))
  BY DEF ApplyEdit, builder
<1>2. /\ e \in Nat /\ f \in Nat /\ lw \in Nat
      /\ pos <= e /\ e <= f /\ f <= Len(current)
  BY AcceptedFacts DEF ApplyEdit, TInv, Edit
<1>3. /\ Len(sb') = Len(sb) + (e - pos) + lw
      /\ \A k \in 1 .. Len(sb') :
            sb'[k] = IF k <= Len(sb) THEN sb[k]
                     ELSE IF k <= Len(sb) + (e - pos) THEN current[pos + (k - Len(sb))]
                     ELSE BytesOf(edits[i])[k - (Len(sb) + (e - pos))]
      /\ Len(newMap') = n + lw
      /\ \A k \in 1 .. Len(newMap') :
            newMap'[k] = IF k <= len THEN newMap[k]
                         ELSE IF k <= n THEN m2o[pos + (k - len)]
                         ELSE MapOf(edits[i])[k - n]
  BY ApplyEditEffect DEF TInv
<1>4. /\ Len(current) \in Nat /\ Len(m2o) = Len(current) + 1 /\ pos \in Nat
      /\ len \in Nat /\ Len(sb) = len
  BY MapNumbers DEF TInv
<1>5. \A k \in 1 .. lw :
         MapOf(edits[i])[k] = IF k = 1 THEN m2o[e + 1] ELSE m2o[f + 1]
  BY DEF MapOf
<1> HIDE DEF e, f, len, lw
<1>6. ASSUME aligned', NEW k \in 1 .. Len(sb'), sb'[k].head
      PROVE  Boundary(original, newMap'[k])
  <2>1. aligned /\ CurBoundary(e) /\ CurBoundary(f)
    BY <1>1, <1>6
  <2>2. k \in 1 .. Len(newMap') /\ n \in Nat
    BY <1>2, <1>3, <1>4
  <2>3. CASE k <= len
    <3>1. k \in 1 .. Len(sb)
      BY <1>4, <2>3
    <3>2. sb'[k] = sb[k] /\ newMap'[k] = newMap[k]
      BY <1>3, <1>4, <2>2, <2>3
    <3> QED BY <1>1, <1>6, <2>1, <3>1, <3>2 DEF AlignInv, LocalAligned
  <2>4. CASE len < k /\ k <= n
    <3> DEFINE x == pos + (k - len)
    <3>1. x \in 1 .. Len(current) /\ x \in 1 .. Len(m2o) /\ (x - 1) + 1 = x
      BY <1>2, <1>4, <2>4
    <3>2. sb'[k] = current[x] /\ newMap'[k] = m2o[x]
      BY <1>3, <1>4, <2>2, <2>4
    <3> HIDE DEF x
    <3>3. CurBoundary(x - 1)
      BY <1>6, <3>1, <3>2 DEF CurBoundary
    <3> QED BY <2>1, <3>1, <3>2, <3>3, BoundaryAt DEF AlignInv, TInv
  <2>5. CASE n < k
    <3>1. k - n \in 1 .. lw
      BY <1>2, <1>3, <2>2, <2>5
    <3>2. newMap'[k] = MapOf(edits[i])[k - n]
      BY <1>2, <1>3, <1>4, <2>2, <2>5
    <3>3. newMap'[k] = m2o[e + 1] \/ newMap'[k] = m2o[f + 1]
      BY <1>5, <3>1, <3>2
    <3>4. ASSUME NEW g \in Nat, g <= Len(current), CurBoundary(g)
          PROVE  Boundary(original, m2o[g + 1])
      <4>1. g + 1 \in 1 .. Len(m2o) /\ (g + 1) - 1 = g
        BY <1>4, <3>4
      <4> QED BY <2>1, <3>4, <4>1 DEF AlignInv, SurfaceOnBoundary
    <3>5. e <= Len(current)
      BY <1>2, <1>4
    <3> QED BY <1>2, <2>1, <3>3, <3>4, <3>5
  <2> QED BY <1>4, <2>2, <2>3, <2>4, <2>5
<1>7. LocalAligned' \/ ~aligned'
  BY <1>1, <1>6 DEF LocalAligned, Boundary
<1>8. SurfaceOnBoundary'
  BY <1>1 DEF AlignInv, SurfaceOnBoundary, CurBoundary, Boundary
<1> QED BY <1>7, <1>8 DEF AlignInv

LEMMA CommitAlignInv ==
    ASSUME TInv, MapInv, AlignInv, Commit
    PROVE  AlignInv'
<1> DEFINE m == newMap \o Slice(m2o, pos, Len(m2o))
           len == Len(newMap)
<1>1. pc = "applying" /\ pc' = "idle" /\ original' = original /\ aligned' = aligned
  BY DEF Commit
<1>2. /\ Len(current') = Len(sb) + (Len(current) - pos)
      /\ \A k \in 1 .. Len(current') :
            current'[k] = IF k <= Len(sb) THEN sb[k] ELSE current[pos + (k - Len(sb))]
      /\ Len(m) = len + (Len(m2o) - pos)
      /\ \A k \in 1 .. Len(m) :
            m[k] = IF k <= len THEN newMap[k] ELSE m2o[pos + (k - len)]
      /\ \A k \in 1 .. Len(m) :
            m2o'[k] = IF k = 1 /\ Len(m) > 1 THEN 0 ELSE m[k]
  BY CommitEffect DEF TInv
<1>3. /\ Len(m2o) = Len(current) + 1 /\ pos \in Nat /\ pos <= Len(current)
      /\ Len(current) \in Nat /\ len \in Nat /\ len = Len(sb) /\ Len(original) \in Nat
  BY MapNumbers DEF TInv
<1>4. Boundary(original, 0) /\ Boundary(original, Len(original))
  <2>1. IsString(original) /\ (Len(original) # 0 => original # <<>>)
    BY OriginalFacts, EmptySeq DEF TInv
  <2> QED BY <2>1 DEF Boundary, IsString
<1> HIDE DEF m, len
<1>5. ASSUME aligned, NEW i \in 0 .. Len(current'), CurBoundary(i)'
      PROVE  Boundary(original, m2o'[i + 1])
  <2> DEFINE k == i + 1
  <2>1. k \in 1 .. Len(m) /\ Len(m) \in Nat
    BY <1>2, <1>3
  <2>2. m2o'[k] = IF k = 1 /\ Len(m) > 1 THEN 0 ELSE m[k]
    BY <1>2, <2>1
  <2>3. i = Len(current') \/ (k \in 1 .. Len(current') /\ current'[k].head)
    <3>1. i = Len(current') \/ k \in 1 .. Len(current')
      <4>1. Len(current') \in Nat
        BY <1>2, <1>3
      <4> QED BY <4>1
    <3>2. i = Len(current') \/ current'[k].head
      BY <1>5 DEF CurBoundary
    <3> QED BY <3>1, <3>2
  <2>4. ASSUME k <= len PROVE Boundary(original, m[k])
    <3>1. k \in 1 .. Len(sb) /\ k \in 1 .. Len(current') /\ i # Len(current')
      BY <1>2, <1>3, <2>1, <2>4
    <3>2. current'[k] = sb[k] /\ m[k] = newMap[k]
      BY <1>2, <2>1, <2>4, <3>1
    <3>3. sb[k].head
      BY <2>3, <3>1, <3>2
    <3> QED BY <1>1, <1>5, <3>1, <3>2, <3>3 DEF AlignInv, LocalAligned
  <2>5. ASSUME len < k PROVE Boundary(original, m[k])
    <3> DEFINE x == pos + (k - len)
    <3>1. x \in 1 .. Len(m2o) /\ (x - 1) + 1 = x
      BY <1>2, <1>3, <2>1, <2>5
    <3>2. m[k] = m2o[x]
      <4>1. ~(k <= len)
        BY ONLY <1>3, <2>1, <2>5
      <4>2. m[k] = IF k <= len THEN newMap[k] ELSE m2o[pos + (k - len)]
        BY ONLY <1>2, <2>1
      <4> QED BY ONLY <4>1, <4>2
    <3>3. CASE i = Len(current')
      <4>1. x = Len(m2o)
        BY <1>2, <1>3, <3>3
      <4> QED BY <1>4, <3>2, <4>1 DEF MapInv
    <3>4. CASE k \in 1 .. Len(current') /\ current'[k].head
      <4>1. current'[k] = current[x]
        <5>1. ~(k <= Len(sb)) /\ x = pos + (k - Len(sb))
          BY <1>3, <2>5
        <5>2. current'[k] = IF k <= Len(sb) THEN sb[k] ELSE current[pos + (k - Len(sb))]
          BY <1>2, <3>4
        <5> QED BY <5>1, <5>2
      <4> HIDE DEF x
      <4>2. CurBoundary(x - 1)
        BY <3>1, <3>4, <4>1 DEF CurBoundary
      <4> QED BY <1>5, <3>1, <3>2, <4>2, BoundaryAt DEF AlignInv, TInv
    <3> QED BY <2>3, <3>3, <3>4
  <2>6. Boundary(original, m[k])
    BY <1>3, <2>1, <2>4, <2>5
  <2> QED BY <1>4, <2>2, <2>6
<1>6. SurfaceOnBoundary'
  BY <1>1, <1>5 DEF SurfaceOnBoundary, CurBoundary, Boundary
<1> QED BY <1>1, <1>6 DEF AlignInv

LEMMA InitAlignInv == Init => AlignInv
<1> SUFFICES ASSUME Init PROVE AlignInv
  OBVIOUS
<1>1. Len(original) \in Nat /\ original \in [1 .. Len(original) -> BOOLEAN]
  BY InitTInv, OriginalFacts, LenProperties DEF TInv, IsString
<1>2. /\ current = [i \in 1 .. Len(original) |-> [from |-> i - 1, head |-> original[i]]]
      /\ m2o = [i \in 1 .. Len(original) + 1 |-> i - 1]
      /\ Len(current) = Len(original)
  BY <1>1 DEF Init, NewBuilder
<1>3. ASSUME NEW i \in 0 .. Len(current), CurBoundary(i)
      PROVE  Boundary(original, m2o[i + 1])
  <2>1. m2o[i + 1] = i
    BY <1>1, <1>2
  <2>2. i = Len(original) \/ (i + 1 \in 1 .. Len(original) /\ current[i + 1].head)
    <3>1. i = Len(original) \/ i + 1 \in 1 .. Len(original)
      <4>1. Len(original) \in Nat /\ i \in 0 .. Len(original)
        BY <1>1, <1>2
      <4> QED BY <4>1
    <3>2. i = Len(original) \/ current[i + 1].head
      BY <1>2, <1>3 DEF CurBoundary
    <3> QED BY <3>1, <3>2
  <2>3. CASE i + 1 \in 1 .. Len(original) /\ current[i + 1].head
    BY <1>2, <2>1, <2>3 DEF Boundary
  <2>4. CASE i = Len(original)
    BY <2>1, <2>4 DEF Boundary
  <2> QED BY <2>2, <2>3, <2>4
<1>4. pc # "applying"
  BY DEF Init
<1> QED BY <1>3, <1>4 DEF AlignInv, SurfaceOnBoundary

LEMMA NextAlignInv == TInv /\ MapInv /\ AlignInv /\ [Next]_vars => AlignInv'
<1> SUFFICES ASSUME TInv, MapInv, AlignInv, [Next]_vars PROVE AlignInv'
  OBVIOUS
<1> USE DEF SurfaceOnBoundary, CurBoundary, Boundary
<1>0. ASSUME UNCHANGED <<builder, sb, newMap, aligned>>,
             pc' = "applying" => pc = "applying"
      PROVE  AlignInv'
  BY <1>0 DEF builder, AlignInv, LocalAligned
<1>1. CASE StartRewrite
  BY <1>0, <1>1 DEF StartRewrite, locals
<1>2. ASSUME NEW b \in 0 .. Len(current), NEW e \in 0 .. Len(current) + 1,
             NEW w \in Withs, Replace(b, e, w)
      PROVE  AlignInv'
  BY <1>0, <1>2 DEF Replace, locals
<1>3. CASE LeaveRewrite
  BY <1>0, <1>3 DEF LeaveRewrite, locals
<1>4. CASE StartApply
  <2>1. sb' = <<>> /\ Len(<<>>) = 0 /\ UNCHANGED <<builder, aligned>>
    BY <1>4, EmptySeq DEF StartApply
  <2>2. LocalAligned'
    BY <2>1 DEF LocalAligned
  <2> QED BY <2>1, <2>2 DEF builder, AlignInv
<1>5. ASSUME NEW i \in pending, ApplyEdit(i) PROVE AlignInv'
  BY <1>5, ApplyEditAlignInv
<1>6. ASSUME NEW i \in pending, RejectEdit(i) PROVE AlignInv'
  BY <1>6 DEF RejectEdit, builder, AlignInv
<1>7. CASE Commit
  BY <1>7, CommitAlignInv
<1>8. CASE UNCHANGED vars
  BY <1>0, <1>8 DEF vars, locals
<1> QED BY <1>1, <1>2, <1>3, <1>4, <1>5, <1>6, <1>7, <1>8 DEF Next

\* Edits on character boundaries never make a surface that cuts a character.
THEOREM SpecSurfaceOnBoundary == Spec => []SurfaceOnBoundary
<1>1. Spec => [](TInv /\ MapInv /\ AlignInv)
  BY InitTInv, InitMapInv, InitAlignInv, NextTInv, NextMapInv, NextAlignInv, PTL DEF Spec
<1> QED BY <1>1, PTL DEF AlignInv

\* The whole of MapSound.
THEOREM SpecMapSound == Spec => []MapSound
BY SpecMapMonotone, SpecMapAnchored, SpecSurfaceOnBoundary, PTL DEF MapSound

-----------------------------------------------------------------------------
(* What a rewrite keeps and what it removes                                 *)

Applied == DOMAIN edits \ pending
Inside(k, j) == edits[j].begin < k /\ k <= edits[j].end
Removed(k) == \E j \in Applied : Inside(k, j)

Kept(s, k) == s[k].from # NewByte

\* Bytes kept of the original are in order, and map to where they were.
Home(s, m) ==
    \A k \in 1 .. Len(s) : Kept(s, k) =>
        /\ m[k] \in {0, s[k].from}
        /\ \A j \in 1 .. k - 1 : Kept(s, j) => s[j].from < s[k].from /\ m[k] = s[k].from

\* The loop of apply is at an edit that begins where or behind where the edits
\* before it do, and behind or at the end of the last of them.
InLoop ==
    /\ pos = 0 \/ \E j \in Applied : pos = edits[j].end
    /\ \A j \in Applied : /\ edits[j].begin <= edits[j].end /\ edits[j].end <= pos
                          /\ \A k \in pending : edits[j].begin <= edits[k].begin

\* The bytes built so far are those in front of pos that no edit has removed,
\* with their offsets, and new ones.
BuiltFrom(k, x) == sb[k] = current[x] /\ newMap[k] = m2o[x]
BuiltSo ==
    /\ \A k \in 1 .. Len(sb) : Kept(sb, k) => \E x \in 1 .. pos : BuiltFrom(k, x) /\ ~Removed(x)
    /\ \A x \in 1 .. pos : ~Removed(x) => \E k \in 1 .. Len(sb) : BuiltFrom(k, x)

RewriteInv ==
    /\ Home(current, m2o)
    /\ pc = "applying" => InLoop /\ BuiltSo /\ Home(sb, newMap)

\* r and q are what is built and its map, grown by the bytes from pos to e and
\* perhaps new ones.
Grown(r, q, e) ==
    /\ Len(r) \in Nat /\ Len(sb) + (e - pos) <= Len(r)
    /\ \A k \in 1 .. Len(r) :
          /\ k <= Len(sb) => r[k] = sb[k] /\ q[k] = newMap[k]
          /\ Len(sb) < k /\ k <= Len(sb) + (e - pos) =>
                r[k] = current[pos + (k - Len(sb))] /\ q[k] = m2o[pos + (k - Len(sb))]
          /\ Len(sb) + (e - pos) < k => ~Kept(r, k)

LEMMA GrownKeeps ==
    ASSUME TInv, Home(current, m2o), BuiltSo, Home(sb, newMap),
           NEW e \in Nat, pos <= e, e <= Len(current),
           NEW r, NEW q, Grown(r, q, e)
    PROVE  /\ Home(r, q)
           /\ \A k \in 1 .. Len(r) : Kept(r, k) =>
                 \E x \in 1 .. e : /\ r[k] = current[x] /\ q[k] = m2o[x]
                                   /\ x <= pos => ~Removed(x)
           /\ \A x \in 1 .. e : (x <= pos => ~Removed(x)) =>
                 \E k \in 1 .. Len(r) : r[k] = current[x] /\ q[k] = m2o[x]
<1> DEFINE len == Len(sb)
<1>1. /\ len \in Nat /\ Len(current) \in Nat /\ pos \in Nat /\ Len(r) \in Nat
      /\ len + (e - pos) <= Len(r)
  BY MapNumbers DEF TInv, Grown
<1>2. ASSUME NEW k \in 1 .. Len(r), Kept(r, k), k <= len
      PROVE  /\ r[k] = sb[k] /\ q[k] = newMap[k] /\ k \in 1 .. len /\ Kept(sb, k)
             /\ \E x \in 1 .. pos : r[k] = current[x] /\ q[k] = m2o[x] /\ ~Removed(x)
  <2>1. r[k] = sb[k] /\ q[k] = newMap[k] /\ k \in 1 .. len
    BY <1>1, <1>2 DEF Grown
  <2>2. Kept(sb, k)
    BY <1>2, <2>1 DEF Kept
  <2>3. PICK x \in 1 .. pos : BuiltFrom(k, x) /\ ~Removed(x)
    BY <2>1, <2>2 DEF BuiltSo
  <2> QED BY <2>1, <2>2, <2>3 DEF BuiltFrom
<1>3. ASSUME NEW k \in 1 .. Len(r), Kept(r, k), ~(k <= len)
      PROVE  LET x == pos + (k - len)
             IN  x \in 1 .. Len(current) /\ pos < x /\ x <= e /\ r[k] = current[x] /\ q[k] = m2o[x]
  <2>1. k <= len + (e - pos)
    BY <1>1, <1>3 DEF Grown
  <2> QED BY <1>1, <1>3, <2>1 DEF Grown
<1> HIDE DEF len
\* From an earlier byte of the text to a later one.
<1>4. ASSUME NEW x \in 1 .. Len(current), NEW y \in 1 .. Len(current), x < y,
             current[x].from # NewByte, current[y].from # NewByte
      PROVE  current[x].from < current[y].from /\ m2o[y] = current[y].from
  <2>1. x \in 1 .. y - 1
    BY <1>1, <1>4
  <2> QED BY <1>4, <2>1 DEF Home, Kept
<1>5. ASSUME NEW k \in 1 .. Len(r), Kept(r, k)
      PROVE  /\ q[k] \in {0, r[k].from}
             /\ \A j \in 1 .. k - 1 : Kept(r, j) => r[j].from < r[k].from /\ q[k] = r[k].from
  <2>1. CASE k <= len
    <3>1. r[k] = sb[k] /\ q[k] = newMap[k] /\ k \in 1 .. len /\ Kept(sb, k)
      BY <1>2, <1>5, <2>1
    <3>2. ASSUME NEW j \in 1 .. k - 1, Kept(r, j)
          PROVE  r[j] = sb[j] /\ Kept(sb, j)
      <4>1. j \in 1 .. Len(r) /\ j <= len
        BY <1>1, <2>1
      <4> QED BY <1>2, <3>2, <4>1
    <3>3. /\ newMap[k] \in {0, sb[k].from}
          /\ \A j \in 1 .. k - 1 : Kept(sb, j) =>
                sb[j].from < sb[k].from /\ newMap[k] = sb[k].from
      BY <3>1 DEF Home, len
    <3> QED BY <3>1, <3>2, <3>3
  <2>2. CASE ~(k <= len)
    <3> DEFINE y == pos + (k - len)
    <3>1. y \in 1 .. Len(current) /\ pos < y /\ y <= e /\ r[k] = current[y] /\ q[k] = m2o[y]
      BY <1>3, <1>5, <2>2
    <3>2. current[y].from # NewByte
      BY <1>5, <3>1 DEF Kept
    <3>3. ASSUME NEW j \in 1 .. k - 1, Kept(r, j)
          PROVE  \E x \in 1 .. Len(current) : x < y /\ r[j] = current[x]
      <4>1. j \in 1 .. Len(r)
        BY <1>1
      <4>2. CASE j <= len
        <5>1. PICK x \in 1 .. pos : r[j] = current[x]
          BY <1>2, <3>3, <4>1, <4>2
        <5> QED BY <1>1, <3>1, <5>1
      <4>3. CASE ~(j <= len)
        <5> DEFINE z == pos + (j - len)
        <5>1. z \in 1 .. Len(current) /\ r[j] = current[z]
          BY <1>3, <3>3, <4>1, <4>3
        <5>2. z < y
          BY <1>1
        <5> HIDE DEF y, z
        <5> QED BY <5>1, <5>2
      <4> QED BY <4>2, <4>3
    <3> HIDE DEF y
    <3>4. q[k] \in {0, r[k].from}
      BY <3>1, <3>2 DEF Home, Kept
    <3>5. ASSUME NEW j \in 1 .. k - 1, Kept(r, j)
          PROVE  r[j].from < r[k].from /\ q[k] = r[k].from
      <4>1. PICK x \in 1 .. Len(current) : x < y /\ r[j] = current[x]
        BY <3>3, <3>5
      <4>2. current[x].from # NewByte
        BY <3>5, <4>1 DEF Kept
      <4> QED BY <1>4, <3>1, <3>2, <4>1, <4>2
    <3> QED BY <3>4, <3>5
  <2> QED BY <2>1, <2>2
<1>6. ASSUME NEW k \in 1 .. Len(r), Kept(r, k)
      PROVE  \E x \in 1 .. e : r[k] = current[x] /\ q[k] = m2o[x] /\ (x <= pos => ~Removed(x))
  <2>1. CASE k <= len
    <3>1. PICK x \in 1 .. pos : r[k] = current[x] /\ q[k] = m2o[x] /\ ~Removed(x)
      BY <1>2, <1>6, <2>1
    <3>2. x \in 1 .. e
      BY <1>1
    <3> QED BY <3>1, <3>2
  <2>2. CASE ~(k <= len)
    <3> DEFINE x == pos + (k - len)
    <3>1. x \in 1 .. Len(current) /\ pos < x /\ x <= e /\ r[k] = current[x] /\ q[k] = m2o[x]
      BY <1>3, <1>6, <2>2
    <3> HIDE DEF x
    <3>2. x \in 1 .. e /\ ~(x <= pos)
      BY <1>1, <3>1
    <3> QED BY <3>1, <3>2
  <2> QED BY <2>1, <2>2
<1>7. ASSUME NEW x \in 1 .. e, x <= pos => ~Removed(x)
      PROVE  \E k \in 1 .. Len(r) : r[k] = current[x] /\ q[k] = m2o[x]
  <2>1. CASE x <= pos
    <3>1. x \in 1 .. pos /\ ~Removed(x)
      BY <1>1, <1>7, <2>1
    <3>2. PICK k \in 1 .. len : BuiltFrom(k, x)
      BY <3>1 DEF BuiltSo, len
    <3>3. k \in 1 .. Len(r) /\ k <= len
      BY <1>1
    <3> QED BY <3>2, <3>3 DEF Grown, BuiltFrom, len
  <2>2. CASE ~(x <= pos)
    <3> DEFINE k == len + (x - pos)
    <3>1. /\ k \in 1 .. Len(r) /\ len < k /\ k <= len + (e - pos) /\ pos + (k - len) = x
      BY <1>1, <2>2
    <3> HIDE DEF k
    <3> QED BY <3>1 DEF Grown, len
  <2> QED BY <2>1, <2>2
<1>8. Home(r, q)
  BY <1>5 DEF Home
<1> QED BY <1>6, <1>7, <1>8

LEMMA EditNumbers ==
    ASSUME TypeOK, NEW j \in DOMAIN edits
    PROVE  edits[j].begin \in Nat /\ edits[j].end \in Nat
<1>1. edits[j] \in Edit
  BY ElementOfSeq, LenProperties DEF TypeOK
<1> QED BY <1>1 DEF Edit

LEMMA ApplyEditRewriteInv ==
    ASSUME TInv, RewriteInv, NEW i \in pending, ApplyEdit(i)
    PROVE  RewriteInv'
<1> DEFINE e == edits[i].begin
           f == edits[i].end
           w == edits[i].with
<1>1. /\ pc = "applying" /\ IsNext(i) /\ UNCHANGED <<current, m2o, edits, pc>>
      /\ pos' = f /\ pending' = pending \ {i}
  BY DEF ApplyEdit, builder
<1>2. /\ e \in Nat /\ f \in Nat /\ pos <= e /\ e <= f /\ f <= Len(current)
      /\ Len(w) \in Nat /\ i \in DOMAIN edits
  BY AcceptedFacts DEF ApplyEdit, TInv, TypeOK, Edit
<1>3. /\ Len(current) \in Nat /\ pos \in Nat /\ Len(sb) \in Nat /\ Len(newMap) = Len(sb)
  BY MapNumbers DEF TInv
<1>4. InLoop /\ BuiltSo /\ Home(sb, newMap) /\ Home(current, m2o)
  BY <1>1 DEF RewriteInv
<1>5. /\ Len(sb') = Len(sb) + (e - pos) + Len(w)
      /\ \A k \in 1 .. Len(sb') :
            sb'[k] = IF k <= Len(sb) THEN sb[k]
                     ELSE IF k <= Len(sb) + (e - pos) THEN current[pos + (k - Len(sb))]
                     ELSE BytesOf(edits[i])[k - (Len(sb) + (e - pos))]
      /\ Len(newMap') = Len(newMap) + (e - pos) + Len(w)
      /\ \A k \in 1 .. Len(newMap') :
            newMap'[k] = IF k <= Len(newMap) THEN newMap[k]
                         ELSE IF k <= Len(newMap) + (e - pos) THEN m2o[pos + (k - Len(newMap))]
                         ELSE MapOf(edits[i])[k - (Len(newMap) + (e - pos))]
  BY ApplyEditEffect DEF TInv
<1>6. \A k \in 1 .. Len(w) : BytesOf(edits[i])[k].from = NewByte
  BY DEF BytesOf
<1> HIDE DEF e, f, w
<1>7. Grown(sb', newMap', e)
  <2>1. Len(sb') \in Nat /\ Len(sb) + (e - pos) <= Len(sb') /\ Len(newMap') = Len(sb')
    BY <1>2, <1>3, <1>5
  <2>2. ASSUME NEW k \in 1 .. Len(sb')
        PROVE  /\ k <= Len(sb) => sb'[k] = sb[k] /\ newMap'[k] = newMap[k]
               /\ Len(sb) < k /\ k <= Len(sb) + (e - pos) =>
                     /\ sb'[k] = current[pos + (k - Len(sb))]
                     /\ newMap'[k] = m2o[pos + (k - Len(sb))]
    <3>1. CASE k <= Len(sb)
      <4>1. sb'[k] = sb[k]
        BY <1>5, <3>1
      <4>2. newMap'[k] = newMap[k]
        BY <1>5, <1>3, <2>1, <3>1
      <4> QED BY <1>3, <3>1, <4>1, <4>2
    <3>2. CASE Len(sb) < k
      <4>1. ~(k <= Len(sb))
        BY <1>3, <3>2
      <4>2. ASSUME k <= Len(sb) + (e - pos)
            PROVE  sb'[k] = current[pos + (k - Len(sb))]
        BY <1>5, <4>1, <4>2
      <4>3. ASSUME k <= Len(sb) + (e - pos)
            PROVE  newMap'[k] = m2o[pos + (k - Len(sb))]
        <5>1. Len(newMap) = Len(sb) /\ k \in 1 .. Len(newMap')
          BY <1>3, <2>1
        <5> QED BY <1>5, <4>1, <4>3, <5>1
      <4> QED BY <4>1, <4>2, <4>3
    <3> QED BY <1>3, <3>1, <3>2
  <2>3. ASSUME NEW k \in 1 .. Len(sb'), Len(sb) + (e - pos) < k
        PROVE  ~Kept(sb', k)
    <3> DEFINE l == k - (Len(sb) + (e - pos))
    <3>1. l \in 1 .. Len(w)
      BY <1>2, <1>3, <1>5, <2>1, <2>3
    <3>2. sb'[k] = BytesOf(edits[i])[l]
      <4>1. ~(k <= Len(sb)) /\ ~(k <= Len(sb) + (e - pos))
        BY <1>2, <1>3, <2>3
      <4> QED BY <1>5, <4>1
    <3> HIDE DEF l
    <3> QED BY <1>6, <3>1, <3>2 DEF Kept
  <2> QED BY <2>1, <2>2, <2>3 DEF Grown
<1>8. /\ Home(sb', newMap')
      /\ \A k \in 1 .. Len(sb') : Kept(sb', k) =>
            \E x \in 1 .. e : /\ sb'[k] = current[x] /\ newMap'[k] = m2o[x]
                              /\ x <= pos => ~Removed(x)
      /\ \A x \in 1 .. e : (x <= pos => ~Removed(x)) =>
            \E k \in 1 .. Len(sb') : sb'[k] = current[x] /\ newMap'[k] = m2o[x]
  <2>1. e <= Len(current)
    BY <1>2, <1>3
  <2> QED BY <1>2, <1>4, <1>7, <2>1, GrownKeeps
<1>9. /\ Applied' = Applied \cup {i}
      /\ \A j \in Applied : edits[j].begin \in Nat /\ edits[j].end \in Nat
  BY <1>1, <1>2, EditNumbers DEF Applied, TInv
<1>10. ASSUME NEW x \in 1 .. f
       PROVE  Removed(x)' <=> (x <= pos /\ Removed(x)) \/ e < x
  <2>1. Removed(x)' <=> Removed(x) \/ (e < x /\ x <= f)
    BY <1>1, <1>9 DEF Removed, Inside, e, f
  <2>2. Removed(x) => x <= pos
    BY <1>3, <1>4, <1>9 DEF InLoop, Removed, Inside
  <2> QED BY <1>2, <1>3, <2>1, <2>2
<1>11. BuiltSo'
  <2>1. ASSUME NEW k \in 1 .. Len(sb'), Kept(sb', k)
        PROVE  \E x \in 1 .. f : sb'[k] = current[x] /\ newMap'[k] = m2o[x] /\ ~Removed(x)'
    <3>1. PICK x \in 1 .. e : /\ sb'[k] = current[x] /\ newMap'[k] = m2o[x]
                              /\ x <= pos => ~Removed(x)
      BY <1>8, <2>1
    <3>2. x \in 1 .. f /\ ~(e < x)
      BY <1>2
    <3> QED BY <1>10, <3>1, <3>2
  <2>2. ASSUME NEW x \in 1 .. f, ~Removed(x)'
        PROVE  \E k \in 1 .. Len(sb') : sb'[k] = current[x] /\ newMap'[k] = m2o[x]
    <3>1. ~(e < x) /\ (x <= pos => ~Removed(x))
      BY <1>10, <2>2
    <3>2. x \in 1 .. e
      BY <1>2, <3>1
    <3> QED BY <1>8, <3>1, <3>2
  <2>3. \A k : Kept(sb, k)' <=> Kept(sb', k)
    BY DEF Kept
  <2> QED BY <1>1, <2>1, <2>2, <2>3 DEF BuiltSo, BuiltFrom
<1>12. InLoop'
  <2>1. i \in Applied'
    BY <1>9
  <2>2. ASSUME NEW j \in Applied'
        PROVE  /\ edits[j].begin <= edits[j].end /\ edits[j].end <= f
               /\ \A k \in pending' : edits[j].begin <= edits[k].begin
    <3>1. CASE j \in Applied
      <4>1. edits[j].end <= pos
        BY <1>4, <3>1 DEF InLoop
      <4> QED BY <1>1, <1>2, <1>3, <1>4, <1>9, <3>1, <4>1 DEF InLoop
    <3>2. CASE j = i
      <4>1. \A k \in pending : e <= edits[k].begin
        <5> SUFFICES ASSUME NEW k \in pending PROVE e <= edits[k].begin
          OBVIOUS
        <5>1. edits[k].begin \in Nat
          BY EditNumbers DEF TInv, TypeOK
        <5> QED BY <1>1, <1>2, <5>1 DEF IsNext, Before, e
      <4> QED BY <1>1, <1>2, <3>2, <4>1 DEF e, f
    <3> QED BY <1>9, <3>1, <3>2
  <2> QED BY <1>1, <2>1, <2>2 DEF InLoop, f
<1>13. Home(current, m2o)' /\ Home(sb, newMap)'
  BY <1>1, <1>4, <1>8 DEF Home, Kept
<1> QED BY <1>11, <1>12, <1>13 DEF RewriteInv

\* What Commit takes over: its bytes are those no edit has removed.
LEMMA CommitKeeps ==
    ASSUME TInv, RewriteInv, Commit
    PROVE  /\ Home(current', m2o')
           /\ \A k \in 1 .. Len(current') : Kept(current', k) =>
                 \E x \in 1 .. Len(current) : current'[k] = current[x] /\ ~Removed(x)
           /\ \A x \in 1 .. Len(current) : ~Removed(x) =>
                 \E k \in 1 .. Len(current') : current'[k] = current[x]
<1> DEFINE m == newMap \o Slice(m2o, pos, Len(m2o))
           e == Len(current)
<1>1. pc = "applying" /\ pending = {}
  BY DEF Commit
<1>2. /\ e \in Nat /\ pos \in Nat /\ pos <= e /\ Len(sb) \in Nat /\ Len(newMap) = Len(sb)
      /\ Len(m2o) = e + 1
  BY MapNumbers DEF TInv
<1>3. InLoop /\ BuiltSo /\ Home(sb, newMap) /\ Home(current, m2o)
  BY <1>1 DEF RewriteInv
<1>4. /\ Len(current') = Len(sb) + (e - pos)
      /\ \A k \in 1 .. Len(current') :
            current'[k] = IF k <= Len(sb) THEN sb[k] ELSE current[pos + (k - Len(sb))]
      /\ Len(m) = Len(newMap) + (Len(m2o) - pos)
      /\ \A k \in 1 .. Len(m) :
            m[k] = IF k <= Len(newMap) THEN newMap[k] ELSE m2o[pos + (k - Len(newMap))]
      /\ \A k \in 1 .. Len(m) : m2o'[k] = IF k = 1 /\ Len(m) > 1 THEN 0 ELSE m[k]
  BY CommitEffect DEF TInv
<1> HIDE DEF m, e
<1>5. Len(current') \in Nat /\ Len(m) = Len(current') + 1
  BY <1>2, <1>4
<1>6. Grown(current', m, e)
  <2>1. ASSUME NEW k \in 1 .. Len(current')
        PROVE  /\ k <= Len(sb) => current'[k] = sb[k] /\ m[k] = newMap[k]
               /\ Len(sb) < k /\ k <= Len(sb) + (e - pos) =>
                     /\ current'[k] = current[pos + (k - Len(sb))]
                     /\ m[k] = m2o[pos + (k - Len(sb))]
               /\ ~(Len(sb) + (e - pos) < k)
    <3>1. k \in Nat /\ k <= Len(sb) + (e - pos) /\ k \in 1 .. Len(m)
      BY <1>2, <1>4, <1>5
    <3>2. m[k] = IF k <= Len(newMap) THEN newMap[k] ELSE m2o[pos + (k - Len(newMap))]
      BY <1>4, <3>1
    <3>3. current'[k] = IF k <= Len(sb) THEN sb[k] ELSE current[pos + (k - Len(sb))]
      BY <1>4
    <3>4. CASE k <= Len(sb)
      BY <1>2, <3>1, <3>2, <3>3, <3>4
    <3>5. CASE Len(sb) < k
      <4>1. ~(k <= Len(sb)) /\ ~(k <= Len(newMap))
        BY <1>2, <3>1, <3>5
      <4> QED BY <1>2, <3>1, <3>2, <3>3, <4>1
    <3> QED BY <1>2, <3>1, <3>4, <3>5
  <2> QED BY <1>4, <1>2, <1>5, <2>1 DEF Grown
<1>7. /\ Home(current', m)
      /\ \A k \in 1 .. Len(current') : Kept(current', k) =>
            \E x \in 1 .. e : /\ current'[k] = current[x] /\ m[k] = m2o[x]
                              /\ x <= pos => ~Removed(x)
      /\ \A x \in 1 .. e : (x <= pos => ~Removed(x)) =>
            \E k \in 1 .. Len(current') : current'[k] = current[x] /\ m[k] = m2o[x]
  <2>1. e <= Len(current)
    BY <1>2 DEF e
  <2> QED BY <1>2, <1>3, <1>6, <2>1, GrownKeeps
<1>8. ASSUME NEW x \in 1 .. e, Removed(x)
      PROVE  x <= pos
  <2>1. PICK j \in Applied : Inside(x, j)
    BY <1>8 DEF Removed
  <2>2. edits[j].end \in Nat
    BY EditNumbers DEF Applied, TInv
  <2> QED BY <1>2, <1>3, <2>1, <2>2 DEF InLoop, Inside
<1>9. Home(current', m2o')
  <2> SUFFICES ASSUME NEW k \in 1 .. Len(current'), Kept(current', k)
               PROVE  /\ m2o'[k] \in {0, current'[k].from}
                      /\ \A j \in 1 .. k - 1 : Kept(current', j) =>
                            current'[j].from < current'[k].from /\ m2o'[k] = current'[k].from
    BY DEF Home
  <2>1. k \in 1 .. Len(m)
    BY <1>5
  <2>2. m2o'[k] = IF k = 1 /\ Len(m) > 1 THEN 0 ELSE m[k]
    BY <1>4, <2>1
  <2>3. /\ m[k] \in {0, current'[k].from}
        /\ \A j \in 1 .. k - 1 : Kept(current', j) =>
              current'[j].from < current'[k].from /\ m[k] = current'[k].from
    BY <1>7 DEF Home
  <2> QED BY <2>2, <2>3
<1> QED BY <1>7, <1>8, <1>9 DEF e

LEMMA InitRewriteInv == Init => RewriteInv
<1> SUFFICES ASSUME Init PROVE RewriteInv
  OBVIOUS
<1>1. Len(original) \in Nat /\ original \in [1 .. Len(original) -> BOOLEAN]
  BY InitTInv, OriginalFacts, LenProperties DEF TInv, IsString
<1>2. /\ current = [i \in 1 .. Len(original) |-> [from |-> i - 1, head |-> original[i]]]
      /\ m2o = [i \in 1 .. Len(original) + 1 |-> i - 1]
      /\ Len(current) = Len(original)
  BY <1>1 DEF Init, NewBuilder
<1>3. \A k \in 1 .. Len(current) : current[k].from = k - 1 /\ m2o[k] = k - 1
  BY <1>1, <1>2
<1>4. Home(current, m2o)
  BY <1>1, <1>2, <1>3 DEF Home, Kept
<1> QED BY <1>4 DEF RewriteInv, Init

LEMMA NextRewriteInv == TInv /\ RewriteInv /\ [Next]_vars => RewriteInv'
<1> SUFFICES ASSUME TInv, RewriteInv, [Next]_vars PROVE RewriteInv'
  OBVIOUS
<1>0. ASSUME UNCHANGED builder, pc' # "applying"
      PROVE  RewriteInv'
  BY <1>0 DEF builder, RewriteInv, Home, Kept
<1>1. CASE StartRewrite
  BY <1>0, <1>1 DEF StartRewrite
<1>2. ASSUME NEW b \in 0 .. Len(current), NEW e \in 0 .. Len(current) + 1,
             NEW w \in Withs, Replace(b, e, w)
      PROVE  RewriteInv'
  BY <1>0, <1>2 DEF Replace
<1>3. CASE LeaveRewrite
  BY <1>0, <1>3 DEF LeaveRewrite
<1>4. CASE StartApply
  <2>1. sb' = <<>> /\ newMap' = <<>> /\ pos' = 0 /\ UNCHANGED <<builder, edits>>
        /\ pending' = DOMAIN edits /\ Len(<<>>) = 0
    BY <1>4, EmptySeq DEF StartApply
  <2>2. Applied' = {}
    BY <2>1 DEF Applied
  <2>3. InLoop' /\ BuiltSo'
    BY <2>1, <2>2 DEF InLoop, BuiltSo
  <2>4. Home(sb, newMap)' /\ Home(current, m2o)'
    BY <2>1 DEF RewriteInv, Home, Kept, builder
  <2> QED BY <2>3, <2>4 DEF RewriteInv
<1>5. ASSUME NEW i \in pending, ApplyEdit(i) PROVE RewriteInv'
  BY <1>5, ApplyEditRewriteInv
<1>6. ASSUME NEW i \in pending, RejectEdit(i) PROVE RewriteInv'
  BY <1>0, <1>6 DEF RejectEdit
<1>7. CASE Commit
  <2>1. Home(current', m2o') /\ pc' = "idle"
    BY <1>7, CommitKeeps DEF Commit
  <2>2. Home(current, m2o)'
    BY <2>1 DEF Home, Kept
  <2> QED BY <2>1, <2>2 DEF RewriteInv
<1>8. CASE UNCHANGED vars
  BY <1>8 DEF vars, builder, locals, RewriteInv, Home, Kept, InLoop, BuiltSo, BuiltFrom,
              Removed, Inside, Applied
<1> QED BY <1>1, <1>2, <1>3, <1>4, <1>5, <1>6, <1>7, <1>8 DEF Next

\* After any chain of rewrites: the bytes of the original that are left are in
\* order, and map to where they were, but the first of the text to 0.
THEOREM SpecKeptBytesMapHome == Spec => []KeptBytesMapHome
<1>1. Spec => [](TInv /\ RewriteInv)
  BY InitTInv, InitRewriteInv, NextTInv, NextRewriteInv, PTL DEF Spec
<1>2. RewriteInv => KeptBytesMapHome
  BY DEF RewriteInv, Home, Kept, KeptBytesMapHome
<1> QED BY <1>1, <1>2, PTL

\* A replacement is refused only for its own range or for one that conflicts.
LEMMA InLoopAccepts ==
    ASSUME TInv, RewriteInv
    PROVE  DisjointEditsAccepted
<1> SUFFICES ASSUME NEW i \in pending, IsNext(i), Rejected(edits[i]),
                    ~(edits[i].end < edits[i].begin), ~(edits[i].end > Len(current))
             PROVE  \E j \in DOMAIN edits \ {i} :
                       Conflict(edits[i], edits[j]) \/ Conflict(edits[j], edits[i])
  BY DEF DisjointEditsAccepted
<1>1. edits[i].begin < pos
  BY DEF Rejected
<1>2. InLoop /\ edits[i].begin \in Nat
  BY EditNumbers DEF RewriteInv, TInv, NotApplying, TypeOK
<1>3. PICK j \in Applied : pos = edits[j].end
  BY <1>1, <1>2 DEF InLoop
<1>4. j \in DOMAIN edits \ {i} /\ edits[j].begin <= edits[i].begin
  BY <1>2 DEF InLoop, Applied
<1> QED BY <1>1, <1>3, <1>4 DEF Conflict

\* Commit takes away the bytes in the range of some edit, and those only.
LEMMA CommitRemoves ==
    ASSUME TInv, RewriteInv, Commit
    PROVE  Survivors(current') =
               {current[k].from : k \in {j \in DOMAIN current : ~Covered(j)}} \ {NewByte}
<1>1. \A x : Removed(x) <=> Covered(x)
  BY DEF Commit, Removed, Covered, Applied, Inside
<1>2. DOMAIN current = 1 .. Len(current) /\ DOMAIN current' = 1 .. Len(current')
  <2>1. current \in Seq(Byte) /\ current' \in Seq(Byte)
    BY CommitEffect DEF TInv, TypeOK
  <2> QED BY <2>1, LenProperties
<1>3. ASSUME NEW k \in 1 .. Len(current'), current'[k].from # NewByte
      PROVE  \E x \in 1 .. Len(current) : current[x].from = current'[k].from /\ ~Covered(x)
  BY <1>1, <1>3, CommitKeeps DEF Kept
<1>4. ASSUME NEW x \in 1 .. Len(current), ~Covered(x)
      PROVE  \E k \in 1 .. Len(current') : current'[k] = current[x]
  BY <1>1, <1>4, CommitKeeps
<1>5. Survivors(current') = {current'[k].from : k \in 1 .. Len(current')} \ {NewByte}
  BY <1>2 DEF Survivors
<1> QED BY <1>2, <1>3, <1>4, <1>5

\* In any chain of rewrites: replacements in range that do not conflict are all
\* accepted, the text changes only when they are, and then loses exactly the
\* bytes they replace.
THEOREM SpecRewritesExactly == Spec => RewritesExactly
<1>1. Spec => [](TInv /\ RewriteInv)
  BY InitTInv, InitRewriteInv, NextTInv, NextRewriteInv, PTL DEF Spec
<1>2. TInv /\ RewriteInv => DisjointEditsAccepted
  BY InLoopAccepts
<1>3. TInv /\ RewriteInv /\ [Next]_vars =>
         [builder' # builder => pc = "applying" /\ pending = {} /\ pc' = "idle"]_vars
  <2> SUFFICES ASSUME [Next]_vars, builder' # builder
               PROVE  Commit
    BY DEF Commit
  <2> QED BY DEF Next, StartRewrite, Replace, LeaveRewrite, StartApply, ApplyEdit,
                 RejectEdit, vars
<1>4. TInv /\ RewriteInv /\ [Next]_vars =>
         [pc = "applying" /\ current' # current =>
             Survivors(current') =
                 {current[k].from : k \in {j \in DOMAIN current : ~Covered(j)}} \ {NewByte}]_vars
  <2> SUFFICES ASSUME TInv, RewriteInv, [Next]_vars, current' # current
               PROVE  Survivors(current') =
                          {current[k].from : k \in {j \in DOMAIN current : ~Covered(j)}}
                          \ {NewByte}
    OBVIOUS
  <2>1. Commit
    BY DEF Next, StartRewrite, Replace, LeaveRewrite, StartApply, ApplyEdit, RejectEdit,
           vars, builder
  <2> QED BY <2>1, CommitRemoves
<1> QED BY <1>1, <1>2, <1>3, <1>4, PTL DEF Spec, RewritesExactly, ChangesOnlyOnCommit,
                                    RemovesExactly

-----------------------------------------------------------------------------
(* The plugins that rewrite a text (InputPlugins)                           *)

CharSeq == Seq(Characters)
PluginEdit == [begin : Nat, end : Nat, with : CharSeq]
LastEnd(es) == IF es = <<>> THEN 0 ELSE es[Len(es)].end

\* Edits of the text up to j, in order and apart.
Ordered(es, j) ==
    /\ es \in Seq(PluginEdit) /\ j \in 0 .. Len(pCurrent)
    /\ \A k \in 1 .. Len(es) : /\ es[k].begin <= es[k].end /\ es[k].end <= j
                               /\ k > 1 => es[k - 1].end <= es[k].begin

\* What edits make of the text up to j.
Pieces(es) == [k \in DOMAIN es |->
    Plugins!Text(IF k = 1 THEN 0 ELSE es[k - 1].end, es[k].begin) \o es[k].with]
Made(es, j) == FlattenSeq(Pieces(es)) \o Plugins!Text(LastEnd(es), j)

-----------------------------------------------------------------------------
LEMMA TextFacts ==
    ASSUME pCurrent \in CharSeq, NEW a \in Nat, NEW b \in 0 .. Len(pCurrent)
    PROVE  /\ Plugins!Text(a, b) \in CharSeq
           /\ Len(Plugins!Text(a, b)) = IF a < b THEN b - a ELSE 0
           /\ \A k \in 1 .. b - a : Plugins!Text(a, b)[k] = pCurrent[a + k]
<1>1. \A k \in a + 1 .. b : pCurrent[k] \in Characters
  BY ElementOfSeq DEF CharSeq
<1>2. Len(pCurrent) \in Nat /\ b \in Int /\ a + 1 \in Int
  BY DEF CharSeq
<1>3. /\ SubSeq(pCurrent, a + 1, b) \in Seq(Characters)
      /\ Len(SubSeq(pCurrent, a + 1, b)) = IF a + 1 <= b THEN b - (a + 1) + 1 ELSE 0
      /\ \A k \in 1 .. b - (a + 1) + 1 : SubSeq(pCurrent, a + 1, b)[k] = pCurrent[(a + 1) + k - 1]
  BY <1>1, <1>2, SubSeqProperties
<1> QED BY <1>2, <1>3 DEF Plugins!Text, CharSeq

LEMMA TextGrows ==
    ASSUME pCurrent \in CharSeq, NEW a \in Nat, NEW b \in 0 .. Len(pCurrent) - 1, a <= b
    PROVE  Plugins!Text(a, b + 1) = Append(Plugins!Text(a, b), pCurrent[b + 1])
<1> DEFINE s == Plugins!Text(a, b)
           t == Plugins!Text(a, b + 1)
           c == pCurrent[b + 1]
<1>1. Len(pCurrent) \in Nat /\ c \in Characters /\ b \in Nat /\ b \in 0 .. Len(pCurrent)
      /\ b + 1 \in 0 .. Len(pCurrent)
  BY ElementOfSeq DEF CharSeq
<1>2. /\ s \in Seq(Characters) /\ Len(s) = b - a /\ \A k \in 1 .. b - a : s[k] = pCurrent[a + k]
      /\ t \in Seq(Characters) /\ Len(t) = b + 1 - a
      /\ \A k \in 1 .. b + 1 - a : t[k] = pCurrent[a + k]
  <2>1. a \in Nat /\ b \in 0 .. Len(pCurrent) /\ a <= b
    BY <1>1
  <2>2. s \in Seq(Characters) /\ Len(s) = b - a /\ \A k \in 1 .. b - a : s[k] = pCurrent[a + k]
    <3>1. /\ Plugins!Text(a, b) \in Seq(Characters)
          /\ Len(Plugins!Text(a, b)) = IF a < b THEN b - a ELSE 0
          /\ \A k \in 1 .. b - a : Plugins!Text(a, b)[k] = pCurrent[a + k]
      BY <2>1, TextFacts DEF CharSeq
    <3>2. a \in Int /\ b \in Int /\ (IF a < b THEN b - a ELSE 0) = b - a
      BY <1>1, <2>1
    <3> QED BY <3>1, <3>2
  <2>3. a < b + 1
    BY <1>1
  <2>4. /\ t \in Seq(Characters) /\ Len(t) = b + 1 - a
        /\ \A k \in 1 .. b + 1 - a : t[k] = pCurrent[a + k]
    <3> DEFINE d == b + 1
    <3> HIDE DEF d
    <3>1. /\ Plugins!Text(a, d) \in Seq(Characters)
          /\ Len(Plugins!Text(a, d)) = IF a < d THEN d - a ELSE 0
          /\ \A k \in 1 .. d - a : Plugins!Text(a, d)[k] = pCurrent[a + k]
      BY <1>1, TextFacts DEF CharSeq, d
    <3> QED BY <2>3, <3>1 DEF d
  <2> QED BY <2>2, <2>4
<1> HIDE DEF s, t, c
<1>3. /\ Append(s, c) \in Seq(Characters) /\ Len(Append(s, c)) = b + 1 - a
      /\ \A k \in 1 .. b - a : Append(s, c)[k] = s[k]
      /\ Append(s, c)[b - a + 1] = c
  <2>1. s \in Seq(Characters) /\ c \in Characters /\ Len(s) = b - a
    BY <1>1, <1>2
  <2>2. /\ Append(s, c) \in Seq(Characters) /\ Len(Append(s, c)) = Len(s) + 1
        /\ \A k \in 1 .. Len(s) : Append(s, c)[k] = s[k]
        /\ Append(s, c)[Len(s) + 1] = c
    BY <2>1, AppendProperties
  <2>3. (b - a) + 1 = b + 1 - a
    BY <1>1
  <2> QED BY <2>1, <2>2, <2>3
<1>4. ASSUME NEW k \in 1 .. b + 1 - a PROVE t[k] = Append(s, c)[k]
  <2>1. CASE k = b - a + 1
    <3>1. a + k = b + 1
      BY <1>1, <2>1
    <3> QED BY <1>2, <1>3, <2>1, <3>1 DEF c
  <2>2. CASE k # b - a + 1
    <3>1. k \in 1 .. b - a
      BY <1>1, <2>2
    <3> QED BY <1>2, <1>3, <3>1
  <2> QED BY <2>1, <2>2
<1>5. t = Append(s, c)
  BY <1>1, <1>2, <1>3, <1>4, SeqEqual
<1> QED BY <1>5 DEF s, t, c

LEMMA PiecesTyped ==
    ASSUME pCurrent \in CharSeq, NEW es, NEW j, Ordered(es, j)
    PROVE  /\ Pieces(es) \in Seq(CharSeq) /\ Len(Pieces(es)) = Len(es)
           /\ FlattenSeq(Pieces(es)) \in CharSeq /\ LastEnd(es) \in 0 .. j
<1>1. /\ Len(es) \in Nat /\ DOMAIN es = 1 .. Len(es) /\ es \in Seq(PluginEdit)
      /\ j \in 0 .. Len(pCurrent) /\ Len(pCurrent) \in Nat
  BY DEF Ordered, CharSeq
<1>2. ASSUME NEW k \in 1 .. Len(es)
      PROVE  /\ es[k].begin \in Nat /\ es[k].end \in Nat /\ es[k].with \in CharSeq
             /\ es[k].begin \in 0 .. j /\ es[k].end \in 0 .. j
  <2>1. es[k] \in PluginEdit
    BY <1>1, ElementOfSeq
  <2> QED BY <1>1, <2>1 DEF PluginEdit, Ordered
<1>3. ASSUME NEW k \in 1 .. Len(es)
      PROVE  Pieces(es)[k] \in CharSeq
  <2> DEFINE a == IF k = 1 THEN 0 ELSE es[k - 1].end
             u == Plugins!Text(a, es[k].begin)
  <2>1. a \in Nat
    BY <1>1, <1>2
  <2>2. es[k].begin \in 0 .. Len(pCurrent)
    BY <1>1, <1>2
  <2>3. u \in Seq(Characters)
    BY <2>1, <2>2, TextFacts DEF CharSeq
  <2>4. Pieces(es)[k] = u \o es[k].with
    BY <1>1 DEF Pieces
  <2> HIDE DEF u
  <2>5. u \o es[k].with \in Seq(Characters)
    BY <1>2, <2>3, ConcatProperties DEF CharSeq
  <2> QED BY <2>4, <2>5 DEF CharSeq
<1>4. DOMAIN Pieces(es) = 1 .. Len(es)
  BY <1>1 DEF Pieces
<1>5. Pieces(es) = [k \in 1 .. Len(es) |-> Pieces(es)[k]]
  BY <1>1 DEF Pieces
<1>6. Pieces(es) \in Seq(CharSeq) /\ Len(Pieces(es)) = Len(es)
  BY <1>1, <1>3, <1>4, <1>5
<1>7. FlattenSeq(Pieces(es)) \in CharSeq
  BY <1>1, <1>6, FlattenElements DEF CharSeq
<1>8. LastEnd(es) \in 0 .. j
  <2>1. CASE es = <<>>
    BY <1>1, <2>1 DEF LastEnd
  <2>2. CASE es # <<>>
    <3>1. Len(es) \in 1 .. Len(es)
      BY <1>1, <2>2, EmptySeq
    <3> QED BY <1>2, <2>2, <3>1 DEF LastEnd
  <2> QED BY <2>1, <2>2
<1> QED BY <1>6, <1>7, <1>8

\* What is made of the text grows by a character that no edit changes.
LEMMA MadeGrows ==
    ASSUME pCurrent \in CharSeq, NEW es, NEW j \in 0 .. Len(pCurrent) - 1, Ordered(es, j)
    PROVE  /\ Made(es, j) \in CharSeq /\ pCurrent[j + 1] \in Characters
           /\ Made(es, j + 1) = Append(Made(es, j), pCurrent[j + 1])
<1> DEFINE f == FlattenSeq(Pieces(es))
           e == LastEnd(es)
           s == Plugins!Text(e, j)
           c == pCurrent[j + 1]
<1>1. /\ f \in Seq(Characters) /\ e \in 0 .. j /\ c \in Characters /\ Len(pCurrent) \in Nat
  BY PiecesTyped, ElementOfSeq DEF CharSeq
<1>2. e \in Nat /\ e <= j /\ j \in 0 .. Len(pCurrent)
  BY <1>1
<1>3. Plugins!Text(e, j + 1) = Append(s, c)
  BY <1>2, TextGrows
<1>4. s \in Seq(Characters)
  BY <1>2, TextFacts DEF CharSeq
<1>5. Made(es, j) = f \o s /\ Made(es, j + 1) = f \o Append(s, c)
  BY <1>3 DEF Made
<1> HIDE DEF f, e, s, c
<1>6. f \o s \in Seq(Characters) /\ <<c>> \in Seq(Characters)
  BY <1>1, <1>4, ConcatProperties
<1>7. Append(s, c) = s \o <<c>> /\ Append(f \o s, c) = (f \o s) \o <<c>>
  BY <1>1, <1>4, <1>6, AppendIsConcat
<1>8. (f \o s) \o <<c>> = f \o (s \o <<c>>)
  BY <1>1, <1>4, <1>6, ConcatAssociative
<1> QED BY <1>1, <1>5, <1>6, <1>7, <1>8 DEF CharSeq, c

\* ... and, where an edit is registered, by what the edit writes.
Registered(es, b, e, w, fs) ==
    /\ pCurrent \in CharSeq /\ w \in CharSeq /\ Ordered(es, b) /\ b <= e /\ e \in 0 .. Len(pCurrent)
    /\ fs = Append(es, [begin |-> b, end |-> e, with |-> w])

LEMMA MadeEdited ==
    ASSUME NEW es, NEW b, NEW e, NEW w, NEW fs, Registered(es, b, e, w, fs)
    PROVE  Ordered(fs, e) /\ Made(fs, e) = Made(es, b) \o w
<1>0. /\ pCurrent \in CharSeq /\ w \in CharSeq /\ Ordered(es, b) /\ b <= e /\ e \in 0 .. Len(pCurrent)
      /\ fs = Append(es, [begin |-> b, end |-> e, with |-> w])
  BY DEF Registered
<1> DEFINE x == [begin |-> b, end |-> e, with |-> w]
           m == Len(es)
           g == LastEnd(es)
           s == Plugins!Text(g, b)
<1>1. /\ es \in Seq(PluginEdit) /\ b \in 0 .. Len(pCurrent) /\ Len(pCurrent) \in Nat /\ m \in Nat
      /\ \A k \in 1 .. m : /\ es[k].begin <= es[k].end /\ es[k].end <= b /\ es[k] \in PluginEdit
                           /\ k > 1 => es[k - 1].end <= es[k].begin
      /\ es = <<>> <=> m = 0
  BY <1>0, ElementOfSeq, EmptySeq DEF Ordered, CharSeq
<1>2. x \in PluginEdit
  BY <1>0, <1>1 DEF PluginEdit
<1>3. x.begin = b /\ x.end = e /\ x.with = w
  OBVIOUS
<1> HIDE DEF x
<1>4. /\ fs \in Seq(PluginEdit) /\ Len(fs) = m + 1 /\ DOMAIN fs = 1 .. m + 1 /\ DOMAIN es = 1 .. m
      /\ fs[m + 1] = x /\ \A k \in 1 .. m : fs[k] = es[k]
  BY <1>0, <1>1, <1>2, AppendProperties DEF x
<1>5. g \in 0 .. b /\ (m > 0 => g = es[m].end) /\ (m = 0 => g = 0)
  BY <1>0, <1>1, PiecesTyped DEF LastEnd
<1>6. Ordered(fs, e)
  <2>1. ASSUME NEW k \in 1 .. m + 1
        PROVE  /\ fs[k].begin <= fs[k].end /\ fs[k].end <= e
               /\ k > 1 => fs[k - 1].end <= fs[k].begin
    <3>1. CASE k = m + 1
      <4>1. fs[k].begin = b /\ fs[k].end = e
        BY <1>3, <1>4, <3>1
      <4>2. ASSUME k > 1 PROVE fs[k - 1].end <= b
        <5>1. k - 1 = m /\ m \in 1 .. m
          BY <1>1, <3>1, <4>2
        <5> QED BY <1>1, <1>4, <5>1
      <4> QED BY <1>0, <1>1, <4>1, <4>2
    <3>2. CASE k # m + 1
      <4>1. k \in 1 .. m /\ (k > 1 => k - 1 \in 1 .. m)
        BY <1>1, <3>2
      <4>2. fs[k] = es[k] /\ (k > 1 => fs[k - 1] = es[k - 1])
        BY <1>4, <4>1
      <4>3. es[k].end \in Nat /\ es[k].begin \in Nat /\ es[k].end <= b
        BY <1>1, <4>1 DEF PluginEdit
      <4> QED BY <1>0, <1>1, <4>1, <4>2, <4>3
    <3> QED BY <3>1, <3>2
  <2> QED BY <1>0, <1>4, <2>1 DEF Ordered
<1>7. Pieces(fs)[m + 1] = s \o w
  <2> HIDE DEF m, g
  <2> DEFINE k == m + 1
  <2>0. k = m + 1
    OBVIOUS
  <2> HIDE DEF k
  <2>1. (IF k = 1 THEN 0 ELSE fs[k - 1].end) = g
    <3>1. CASE m = 0
      BY <1>5, <2>0, <3>1
    <3>2. CASE m # 0
      <4>1. k # 1 /\ k - 1 = m /\ m \in 1 .. m /\ m > 0
        BY <1>1, <2>0, <3>2
      <4> QED BY <1>4, <1>5, <4>1
    <3> QED BY <3>1, <3>2
  <2>2. Pieces(fs)[k] = Plugins!Text(IF k = 1 THEN 0 ELSE fs[k - 1].end, fs[k].begin) \o fs[k].with
    <3>1. k \in DOMAIN fs
      BY <1>1, <1>4, <2>0
    <3> QED BY <3>1 DEF Pieces
  <2>3. fs[k].begin = b /\ fs[k].with = w
    BY <1>3, <1>4, <2>0
  <2>4. Pieces(fs)[k] = Plugins!Text(g, b) \o w
    BY <2>1, <2>2, <2>3
  <2> QED BY <2>0, <2>4
<1>8. \A k \in 1 .. m : Pieces(fs)[k] = Pieces(es)[k]
  <2>1. ASSUME NEW k \in 1 .. m PROVE Pieces(fs)[k] = Pieces(es)[k]
    <3> HIDE DEF m
    <3>1. fs[k] = es[k] /\ k \in DOMAIN fs /\ k \in DOMAIN es
      BY <1>1, <1>4
    <3>2. k # 1 => fs[k - 1] = es[k - 1]
      BY <1>1, <1>4
    <3>3. (IF k = 1 THEN 0 ELSE fs[k - 1].end) = (IF k = 1 THEN 0 ELSE es[k - 1].end)
      BY <3>2
    <3> QED BY <3>1, <3>3 DEF Pieces
  <2> QED BY <2>1
<1>9. /\ Pieces(es) \in Seq(CharSeq) /\ Len(Pieces(es)) = m /\ FlattenSeq(Pieces(es)) \in Seq(Characters)
      /\ Pieces(fs) \in Seq(CharSeq) /\ Len(Pieces(fs)) = m + 1
  BY <1>0, <1>4, <1>6, PiecesTyped DEF CharSeq
<1>10. FlattenSeq(Pieces(fs)) = FlattenSeq(Pieces(es)) \o (s \o w)
  <2> HIDE DEF s, m
  <2>1. FlattenSeq(Pieces(fs)) = FlattenSeq(Pieces(es)) \o Pieces(fs)[m + 1]
    BY <1>1, <1>8, <1>9, FlattenAppend DEF CharSeq
  <2> QED BY <1>7, <2>1
<1>11. s \in Seq(Characters)
  BY <1>0, <1>1, <1>5, TextFacts DEF CharSeq
<1>12. Plugins!Text(e, e) = <<>>
  <2>1. e \in Nat /\ Len(pCurrent) \in Nat
    BY <1>0, <1>1
  <2>2. Plugins!Text(e, e) \in Seq(Characters) /\ Len(Plugins!Text(e, e)) = 0
    BY <1>0, <2>1, TextFacts DEF CharSeq
  <2> QED BY <2>2, EmptySeq
<1>13. LastEnd(fs) = e
  <2>1. fs # <<>>
    BY <1>4, <1>1
  <2> QED BY <1>3, <1>4, <2>1 DEF LastEnd
<1>14. Made(fs, e) = (FlattenSeq(Pieces(es)) \o (s \o w)) \o <<>>
  BY <1>10, <1>12, <1>13 DEF Made
<1>15. Made(es, b) = FlattenSeq(Pieces(es)) \o s
  BY DEF Made
<1> DEFINE f == FlattenSeq(Pieces(es))
<1>16. f \in Seq(Characters) /\ w \in Seq(Characters)
  BY <1>0, <1>9 DEF CharSeq
<1> HIDE DEF f, s
<1>17. s \o w \in Seq(Characters) /\ f \o (s \o w) \in Seq(Characters)
  BY <1>11, <1>16, ConcatProperties
<1>18. (f \o (s \o w)) \o <<>> = f \o (s \o w) /\ (f \o s) \o w = f \o (s \o w)
  BY <1>11, <1>16, <1>17, ConcatEmptySeq, ConcatAssociative
<1> QED BY <1>6, <1>14, <1>15, <1>18 DEF f, s

LEMMA NothingMade == pCurrent \in CharSeq => Made(<<>>, 0) = <<>>
<1> SUFFICES ASSUME pCurrent \in CharSeq PROVE Made(<<>>, 0) = <<>>
  OBVIOUS
<1>1. 0 \in 0 .. Len(pCurrent)
  BY DEF CharSeq
<1>2. Plugins!Text(0, 0) \in Seq(Characters) /\ Len(Plugins!Text(0, 0)) = 0
  BY <1>1, TextFacts DEF CharSeq
<1>3. Plugins!Text(0, 0) = <<>>
  BY <1>2, EmptySeq
<1>4. Pieces(<<>>) = <<>> /\ FlattenSeq(<<>>) = <<>> /\ LastEnd(<<>>) = 0
  BY EmptySeq DEF Pieces, FlattenSeq, LastEnd
<1> QED BY <1>3, <1>4, ConcatEmptySeq, EmptySeq DEF Made

LEMMA MadeApplied ==
    ASSUME pCurrent \in CharSeq, NEW es, Ordered(es, Len(pCurrent))
    PROVE  /\ Plugins!InOrder(es) /\ Plugins!Applied(es) = Made(es, Len(pCurrent))
           /\ Made(es, Len(pCurrent)) \in CharSeq
<1>1. DOMAIN es = 1 .. Len(es)
  BY DEF Ordered
<1>2. Plugins!InOrder(es)
  BY <1>1 DEF Ordered, Plugins!InOrder
<1>3. Plugins!Applied(es) = Made(es, Len(pCurrent))
  BY DEF Plugins!Applied, Made, Pieces, LastEnd, Plugins!FlattenSeq, FlattenSeq
<1>4. Made(es, Len(pCurrent)) \in CharSeq
  <2>1. /\ FlattenSeq(Pieces(es)) \in Seq(Characters)
        /\ Plugins!Text(LastEnd(es), Len(pCurrent)) \in Seq(Characters)
    <3>1. LastEnd(es) \in Nat /\ Len(pCurrent) \in 0 .. Len(pCurrent)
      BY PiecesTyped DEF CharSeq
    <3> QED BY <3>1, PiecesTyped, TextFacts DEF CharSeq
  <2> QED BY <2>1, ConcatProperties DEF Made, CharSeq
<1> QED BY <1>2, <1>3, <1>4

-----------------------------------------------------------------------------
\* No two marks side by side, and none at the end.
Quiet(s) == \A k \in 1 .. Len(s) - 1 : ~(s[k] \in Marks /\ s[k + 1] \in Marks)
Closed(s) == s = <<>> \/ s[Len(s)] \notin Marks

LEMMA QuietConcat ==
    ASSUME NEW s \in CharSeq, NEW t \in CharSeq, Quiet(s), Quiet(t),
           s = <<>> \/ t = <<>> \/ s[Len(s)] \notin Marks \/ t[1] \notin Marks
    PROVE  /\ Quiet(s \o t) /\ s \o t \in CharSeq
           /\ Closed(t) /\ (t # <<>> \/ Closed(s)) => Closed(s \o t)
<1> DEFINE r == s \o t
<1>1. /\ r \in Seq(Characters) /\ Len(r) = Len(s) + Len(t) /\ Len(s) \in Nat /\ Len(t) \in Nat
      /\ \A k \in 1 .. Len(r) : r[k] = IF k <= Len(s) THEN s[k] ELSE t[k - Len(s)]
      /\ s = <<>> <=> Len(s) = 0
      /\ t = <<>> <=> Len(t) = 0
  BY ConcatProperties, LenProperties, EmptySeq DEF CharSeq
<1> HIDE DEF r
<1>2. ASSUME NEW k \in 1 .. Len(r) - 1 PROVE ~(r[k] \in Marks /\ r[k + 1] \in Marks)
  <2>1. CASE k < Len(s)
    BY <1>1, <2>1 DEF Quiet
  <2>2. CASE k = Len(s)
    <3>1. r[k] = s[Len(s)] /\ r[k + 1] = t[1] /\ Len(s) # 0 /\ Len(t) # 0
      BY <1>1, <2>2
    <3> QED BY <1>1, <3>1
  <2>3. CASE k > Len(s)
    <3>1. k - Len(s) \in 1 .. Len(t) - 1 /\ r[k] = t[k - Len(s)] /\ r[k + 1] = t[k + 1 - Len(s)]
          /\ k + 1 - Len(s) = k - Len(s) + 1
      BY <1>1, <2>3
    <3> QED BY <3>1 DEF Quiet
  <2> QED BY <1>1, <2>1, <2>2, <2>3
<1>3. ASSUME Closed(t), t # <<>> \/ Closed(s) PROVE Closed(r)
  <2>1. CASE t = <<>>
    <3>1. r = s
      BY <2>1, ConcatEmptySeq DEF r, CharSeq
    <3> QED BY <1>3, <2>1, <3>1
  <2>2. CASE t # <<>>
    <3>1. r[Len(r)] = t[Len(t)]
      BY <1>1, <2>2
    <3> QED BY <1>3, <2>2, <3>1 DEF Closed
  <2> QED BY <2>1, <2>2
<1> QED BY <1>1, <1>2, <1>3 DEF Quiet, r, CharSeq

LEMMA QuietAppend ==
    ASSUME NEW s \in CharSeq, NEW c \in Characters, Quiet(s),
           Closed(s) \/ c \notin Marks
    PROVE  /\ Quiet(Append(s, c)) /\ Append(s, c) \in CharSeq
           /\ c \notin Marks => Closed(Append(s, c))
<1>1. Append(s, c) = s \o <<c>> /\ <<c>> \in CharSeq
  BY AppendIsConcat DEF CharSeq
<1>2. Quiet(<<c>>) /\ <<c>>[1] = c /\ <<c>> # <<>> /\ Len(<<c>>) = 1
  BY DEF Quiet
<1>3. c \notin Marks => Closed(<<c>>)
  BY <1>2 DEF Closed
<1> DEFINE t == <<c>>
<1> HIDE DEF t
<1>4. t \in CharSeq /\ Quiet(t) /\ t[1] = c /\ t # <<>> /\ (c \notin Marks => Closed(t))
      /\ Append(s, c) = s \o t
  BY <1>1, <1>2, <1>3 DEF t
<1>5. s = <<>> \/ s[Len(s)] \notin Marks \/ t[1] \notin Marks
  BY <1>4 DEF Closed
<1> QED BY <1>4, <1>5, QuietConcat

-----------------------------------------------------------------------------
PlugTyped ==
    /\ pStage \in Plugins!Stages \ {"failed"} /\ pCurrent \in CharSeq /\ pI \in 0 .. Len(pCurrent)
    /\ runLen \in 0 .. pI /\ runStart \in 0 .. pI /\ (runLen > 0 => runStart = pI - runLen)
    /\ pStage # "marks" => runLen = 0
    /\ pStage = "done" => pI = 0
    /\ Ordered(pEdits, pI - runLen)

\* What is made of the text so far has no two marks side by side, and a run of
\* marks can follow it.
MarksQuiet ==
    /\ pStage = "marks" => LET m == Made(pEdits, pI - runLen) IN Quiet(m) /\ Closed(m)
    /\ pStage \in {"yomigana", "done"} => Quiet(pCurrent)
    /\ pStage = "yomigana" =>
           LET m == Made(pEdits, pI)
           IN  Quiet(m) /\ (Closed(m) \/ (pI > 0 /\ m[Len(m)] = pCurrent[pI]))

\* What a reading is, as ReadingsDropped has it.
BeforeBracket(a) == pCurrent[a] \in Kanji /\ pCurrent[a + 1] \in Left
IsReading(b, e) ==
    /\ BeforeBracket(b) /\ b < e /\ pCurrent[e] \in Right
    /\ e - b - 2 \in 1 .. MaxReading /\ \A k \in b + 2 .. e - 1 : pCurrent[k] \in Reading
Dropped(b, e) == \E k \in 1 .. Len(pEdits) : pEdits[k] = [begin |-> b, end |-> e, with |-> <<>>]
ReadingsRead ==
    pStage = "yomigana" =>
        \A b, e \in 1 .. Len(pCurrent) : Dropped(b, e) <=> b <= pI /\ IsReading(b, e)

PlugInv == PlugTyped /\ MarksQuiet /\ ReadingsRead /\ Plugins!LongestRules

\* What a step does.
LEMMA AfterFlush ==
    ASSUME Plugins!RulesAssumption, PlugTyped, pStage = "marks"
    PROVE  /\ Ordered(Plugins!Flushed, pI)
           /\ MarksQuiet => Quiet(Made(Plugins!Flushed, pI))
<1>1. /\ pCurrent \in CharSeq /\ pI \in 0 .. Len(pCurrent) /\ Len(pCurrent) \in Nat /\ runLen \in 0 .. pI
      /\ Ordered(pEdits, pI - runLen)
  BY DEF PlugTyped, CharSeq
<1>2. CASE runLen = 0
  <2>1. Plugins!Flushed = pEdits /\ pI - runLen = pI
    BY <1>1, <1>2 DEF Plugins!Flushed
  <2> QED BY <1>1, <2>1 DEF MarksQuiet
<1>3. CASE runLen = 1
  <2>1. Plugins!Flushed = pEdits /\ pI - runLen \in 0 .. Len(pCurrent) - 1 /\ (pI - runLen) + 1 = pI
    BY <1>1, <1>3 DEF Plugins!Flushed
  <2> DEFINE j == pI - runLen
  <2> HIDE DEF j
  <2>2. /\ j \in 0 .. Len(pCurrent) - 1 /\ j + 1 = pI /\ Ordered(pEdits, j)
        /\ MarksQuiet => Quiet(Made(pEdits, j)) /\ Closed(Made(pEdits, j))
    BY <1>1, <2>1 DEF j, MarksQuiet
  <2>3. Ordered(pEdits, pI)
    <3>1. \A k \in 1 .. Len(pEdits) : pEdits[k].end \in Nat
      <4>1. ASSUME NEW k \in 1 .. Len(pEdits) PROVE pEdits[k].end \in Nat
        <5>1. pEdits[k] \in PluginEdit
          BY <2>2, ElementOfSeq DEF Ordered
        <5> QED BY <5>1 DEF PluginEdit
      <4> QED BY <4>1
    <3> QED BY <1>1, <2>2, <3>1 DEF Ordered
  <2>4. /\ Made(pEdits, j) \in CharSeq /\ pCurrent[j + 1] \in Characters
        /\ Made(pEdits, pI) = Append(Made(pEdits, j), pCurrent[j + 1])
    BY <1>1, <2>2, MadeGrows
  <2> QED BY <2>1, <2>2, <2>3, <2>4, QuietAppend
<1>4. CASE runLen > 1
  <2>1. Plugins!Flushed = Append(pEdits, [begin |-> runStart, end |-> pI, with |-> Mark])
    BY <1>4 DEF Plugins!Flushed, Plugins!Replaced
  <2>2. runStart = pI - runLen /\ Ordered(pEdits, runStart) /\ runStart <= pI
    BY <1>1, <1>4 DEF PlugTyped
  <2>3. Mark \in CharSeq /\ Quiet(Mark)
    BY DEF Plugins!RulesAssumption, Quiet, CharSeq
  <2>4. Ordered(Plugins!Flushed, pI) /\ Made(Plugins!Flushed, pI) = Made(pEdits, runStart) \o Mark
    <3> DEFINE fs == Plugins!Flushed
    <3>1. fs = Append(pEdits, [begin |-> runStart, end |-> pI, with |-> Mark])
      BY <2>1
    <3> HIDE DEF fs
    <3>2. Ordered(fs, pI) /\ Made(fs, pI) = Made(pEdits, runStart) \o Mark
      <4>1. Registered(pEdits, runStart, pI, Mark, fs)
        BY <1>1, <2>2, <2>3, <3>1 DEF Registered
      <4> QED BY <4>1, MadeEdited
    <3> QED BY <3>2 DEF fs
  <2>5. MarksQuiet => Quiet(Made(pEdits, runStart)) /\ Closed(Made(pEdits, runStart))
    BY <2>2 DEF MarksQuiet
  <2>6. Made(pEdits, runStart) \in CharSeq
    <3>1. runStart \in 0 .. Len(pCurrent) - 1
      BY <1>1, <1>4, <2>2
    <3> QED BY <1>1, <2>2, <3>1, MadeGrows
  <2> QED BY <2>3, <2>4, <2>5, <2>6, QuietConcat DEF Closed
<1> QED BY <1>1, <1>2, <1>3, <1>4

-----------------------------------------------------------------------------
LEMMA RuleLens ==
    ASSUME Plugins!RulesAssumption, NEW c, Plugins!KeyLens(c) # {}
    PROVE  /\ Plugins!MaxKeyLen(c) \in Plugins!KeyLens(c) /\ Plugins!KeyLens(c) \subseteq Nat
           /\ \A x \in Plugins!KeyLens(c) : Plugins!MaxKeyLen(c) >= x
<1> DEFINE K == {k \in DOMAIN Replacement : k[1] = c}
           S == {Len(k) : k \in K}
           f == [k \in K |-> Len(k)]
<1>1. Plugins!KeyLens(c) = S
  BY DEF Plugins!KeyLens
<1>2. IsFiniteSet(DOMAIN Replacement) /\ K \in SUBSET (DOMAIN Replacement)
  BY DEF Plugins!RulesAssumption, Plugins!IsFiniteSet, IsFiniteSet
<1>3. IsFiniteSet(K)
  <2> HIDE DEF K
  <2> QED BY <1>2, FS_Subset
<1>4. f \in Surjection(K, S)
  BY DEF Surjection
<1>5. IsFiniteSet(S)
  <2> HIDE DEF f, S, K
  <2> QED BY <1>3, <1>4, FS_Surjection
<1>6. S \in SUBSET Nat
  BY DEF Plugins!RulesAssumption
<1> HIDE DEF S, K, f
<1>7. \E m \in S : \A x \in S : m >= x
  BY <1>1, <1>5, <1>6, Greatest
<1>8. Plugins!MaxKeyLen(c) \in S /\ \A x \in S : Plugins!MaxKeyLen(c) >= x
  BY <1>1, <1>7 DEF Plugins!MaxKeyLen, Plugins!Max
<1> QED BY <1>1, <1>6, <1>8

\* No rule reaches further than longestReplacement looks.
LEMMA RuleInReach ==
    ASSUME Plugins!RulesAssumption, PlugTyped, pI < Len(pCurrent),
           NEW e \in pI + 1 .. Len(pCurrent), Plugins!RuleAt(pI, e)
    PROVE  LET c == pCurrent[pI + 1]
               limit == Plugins!Min({Plugins!MaxKeyLen(c), Len(pCurrent) - pI})
           IN  Plugins!KeyLens(c) # {} /\ limit \in Nat /\ e <= pI + limit
<1> DEFINE c == pCurrent[pI + 1]
           t == Plugins!Text(pI, e)
           x == Plugins!MaxKeyLen(c)
           y == Len(pCurrent) - pI
<1>1. pCurrent \in CharSeq /\ pI \in Nat /\ Len(pCurrent) \in Nat /\ e \in 0 .. Len(pCurrent) /\ pI < e
  BY DEF PlugTyped, CharSeq
<1>2. /\ Len(t) = IF pI < e THEN e - pI ELSE 0
      /\ \A k \in 1 .. e - pI : t[k] = pCurrent[pI + k]
  BY <1>1, TextFacts
<1>3. t \in DOMAIN Replacement /\ Len(t) = e - pI /\ t[1] = c
  BY <1>1, <1>2 DEF Plugins!RuleAt
<1>4. e - pI \in Plugins!KeyLens(c)
  BY <1>3 DEF Plugins!KeyLens
<1>5. x \in Nat /\ x >= e - pI
  BY <1>4, RuleLens
<1>6. y \in Nat /\ y >= e - pI
  BY <1>1
<1> HIDE DEF x, y
<1>7. Plugins!Min({x, y}) \in {x, y}
  <2>1. \E m \in {x, y} : \A z \in {x, y} : m =< z
    BY <1>5, <1>6
  <2> QED BY <2>1 DEF Plugins!Min
<1> QED BY <1>1, <1>4, <1>5, <1>6, <1>7 DEF x, y

LEMMA LongestFound ==
    ASSUME Plugins!RulesAssumption, PlugTyped, pI < Len(pCurrent)
    PROVE  /\ \A e \in pI + 1 .. Len(pCurrent) : Plugins!IsLongest(e) =>
                  /\ Plugins!RuleAt(pI, e)
                  /\ \A l \in e + 1 .. Len(pCurrent) : ~Plugins!RuleAt(pI, l)
           /\ (\E e \in pI + 1 .. Len(pCurrent) : Plugins!RuleAt(pI, e)) =>
                  \E e \in pI + 1 .. Len(pCurrent) : Plugins!IsLongest(e)
<1> DEFINE c == pCurrent[pI + 1]
           limit == Plugins!Min({Plugins!MaxKeyLen(c), Len(pCurrent) - pI})
           S == {e \in pI + 1 .. Len(pCurrent) : Plugins!RuleAt(pI, e)}
<1>1. pI \in Nat /\ Len(pCurrent) \in Nat
  BY DEF PlugTyped, CharSeq
<1>2. \A e \in S : Plugins!KeyLens(c) # {} /\ limit \in Nat /\ e <= pI + limit
  BY RuleInReach
<1> HIDE DEF limit, c
<1>3. ASSUME NEW e \in pI + 1 .. Len(pCurrent), Plugins!IsLongest(e)
      PROVE  /\ Plugins!RuleAt(pI, e)
             /\ \A l \in e + 1 .. Len(pCurrent) : ~Plugins!RuleAt(pI, l)
  <2>1. /\ Plugins!RuleAt(pI, e)
        /\ \A l \in e + 1 .. pI + limit : ~Plugins!RuleAt(pI, l)
    BY <1>3 DEF Plugins!IsLongest, Plugins!RuleAt, limit, c
  <2>2. ASSUME NEW l \in e + 1 .. Len(pCurrent), Plugins!RuleAt(pI, l) PROVE FALSE
    <3>1. l \in S
      BY <1>1, <2>2
    <3>2. limit \in Nat /\ l <= pI + limit
      BY <1>2, <3>1
    <3> QED BY <1>1, <2>1, <2>2, <3>2
  <2> QED BY <2>1, <2>2
<1>4. ASSUME S # {} PROVE \E e \in pI + 1 .. Len(pCurrent) : Plugins!IsLongest(e)
  <2>1. PICK e \in S : \A x \in S : e >= x
    <3>1. S \in SUBSET (pI + 1 .. Len(pCurrent)) /\ IsFiniteSet(pI + 1 .. Len(pCurrent))
      BY <1>1, FS_Interval
    <3>2. S \in SUBSET Int
      OBVIOUS
    <3> HIDE DEF S
    <3> QED BY <1>4, <3>1, <3>2, FS_Subset, Greatest
  <2>2. Plugins!KeyLens(c) # {} /\ limit \in Nat /\ e <= pI + limit
    BY <1>2
  <2>3. \A l \in e + 1 .. pI + limit : ~Plugins!RuleAt(pI, l)
    <3>1. limit <= Len(pCurrent) - pI
      <4>1. Plugins!MaxKeyLen(c) \in Nat
        BY <2>2, RuleLens
      <4>2. \E m \in {Plugins!MaxKeyLen(c), Len(pCurrent) - pI} :
                \A z \in {Plugins!MaxKeyLen(c), Len(pCurrent) - pI} : m =< z
        BY <1>1, <4>1
      <4> QED BY <4>2 DEF limit, Plugins!Min
    <3>2. ASSUME NEW l \in e + 1 .. pI + limit, Plugins!RuleAt(pI, l) PROVE FALSE
      <4>1. l \in S
        BY <1>1, <2>2, <3>1, <3>2
      <4> QED BY <2>1, <4>1
    <3> QED BY <3>2
  <2>4. e \in pI + 1 .. pI + limit /\ Plugins!RuleAt(pI, e)
    BY <1>1, <2>2
  <2>5. Plugins!IsLongest(e)
    BY <2>2, <2>3, <2>4 DEF Plugins!IsLongest, Plugins!RuleAt, limit, c
  <2> QED BY <2>5
<1> QED BY <1>3, <1>4

-----------------------------------------------------------------------------
(* The invariant of the plugins                                             *)

LEMMA TextStays ==
    ASSUME pCurrent' = pCurrent
    PROVE  /\ \A a, b : (Plugins!Text(a, b))' = Plugins!Text(a, b)
           /\ \A a, b : (Plugins!RuleAt(a, b))' = Plugins!RuleAt(a, b)
           /\ \A es, j : Ordered(es, j)' = Ordered(es, j)
           /\ \A es, j : Made(es, j)' = Made(es, j)
           /\ \A b, e : IsReading(b, e)' = IsReading(b, e)
<1>1. \A a, b : (Plugins!Text(a, b))' = Plugins!Text(a, b)
  BY DEF Plugins!Text
<1>2. \A a, b : (Plugins!RuleAt(a, b))' = Plugins!RuleAt(a, b)
  BY <1>1 DEF Plugins!RuleAt
<1>3. \A es, j : Ordered(es, j)' = Ordered(es, j)
  BY DEF Ordered
<1>4. \A es : Pieces(es)' = Pieces(es)
  BY <1>1 DEF Pieces
<1>5. \A es, j : Made(es, j)' = Made(es, j)
  BY <1>1, <1>4 DEF Made, LastEnd
<1>6. \A b, e : IsReading(b, e)' = IsReading(b, e)
  BY DEF IsReading, BeforeBracket
<1> QED BY <1>1, <1>2, <1>3, <1>5, <1>6

LEMMA OrderedLonger ==
    ASSUME pCurrent \in CharSeq, NEW es, NEW j, Ordered(es, j), NEW l \in j .. Len(pCurrent)
    PROVE  Ordered(es, l)
<1>1. /\ es \in Seq(PluginEdit) /\ j \in Nat /\ Len(pCurrent) \in Nat
      /\ l \in 0 .. Len(pCurrent) /\ j <= l
  BY DEF Ordered, CharSeq
<1>2. ASSUME NEW k \in 1 .. Len(es) PROVE es[k].end <= l
  <2>1. es[k].end \in Nat /\ es[k].end <= j
    <3>1. es[k] \in PluginEdit
      BY <1>1, ElementOfSeq
    <3> QED BY <3>1 DEF Ordered, PluginEdit
  <2> QED BY <1>1, <2>1
<1> QED BY <1>1, <1>2 DEF Ordered

LEMMA PlugStarts == ASSUME Plugins!RulesAssumption, Plugins!Init PROVE PlugInv
<1>1. /\ pStage = "normalize" /\ pCurrent \in CharSeq /\ pI = 0 /\ pEdits = <<>>
      /\ runStart = 0 /\ runLen = 0 /\ Len(pCurrent) \in Nat
  BY DEF Plugins!Init, Plugins!RulesAssumption, CharSeq
<1>2. Ordered(pEdits, pI - runLen)
  BY <1>1, EmptySeq DEF Ordered
<1>3. PlugTyped
  BY <1>1, <1>2 DEF PlugTyped, Plugins!Stages
<1>4. MarksQuiet /\ ReadingsRead
  BY <1>1 DEF MarksQuiet, ReadingsRead
<1>5. Plugins!LongestRules
  <2>1. DOMAIN pEdits = {} /\ 0 .. pI - 1 = {}
    BY <1>1
  <2> QED BY <2>1 DEF Plugins!LongestRules
<1> QED BY <1>3, <1>4, <1>5 DEF PlugInv

\* A step of the normaliser goes on to e, with an edit or without.
LEMMA NormalizeStep ==
    ASSUME Plugins!RulesAssumption, PlugInv, pStage = "normalize", pI < Len(pCurrent),
           UNCHANGED <<pStage, pCurrent, runStart, runLen>>,
           NEW e \in pI + 1 .. Len(pCurrent), pI' = e, NEW w \in CharSeq,
           Plugins!RuleAt(pI, e) \/ e = pI + 1,
           \A l \in 1 .. Len(pCurrent) :
               l > e \/ (l > pI /\ ~Plugins!RuleAt(pI, e)) => ~Plugins!RuleAt(pI, l),
           \/ pEdits' = Append(pEdits, [begin |-> pI, end |-> e, with |-> w])
           \/ pEdits' = pEdits /\ e = pI + 1 /\ ~Plugins!RuleAt(pI, e)
    PROVE  PlugInv'
<1> DEFINE x == [begin |-> pI, end |-> e, with |-> w]
           m == Len(pEdits)
<1>1. /\ pCurrent \in CharSeq /\ Len(pCurrent) \in Nat /\ pI \in Nat /\ runLen = 0
      /\ e \in 0 .. Len(pCurrent)
      /\ Ordered(pEdits, pI) /\ e \in Nat /\ pI < e
  BY DEF PlugInv, PlugTyped, CharSeq
<1>2. Ordered(pEdits', e)
  <2>1. CASE pEdits' = Append(pEdits, x)
    <3>1. Registered(pEdits, pI, e, w, pEdits')
      BY <1>1, <2>1 DEF Registered
    <3> QED BY <3>1, MadeEdited
  <2>2. CASE pEdits' = pEdits
    BY <1>1, <2>2, OrderedLonger
  <2> QED BY <2>1, <2>2
<1>3. PlugTyped'
  <2>1. Ordered(pEdits, pI - runLen)'
    <3>1. pI' - runLen' = e
      BY <1>1
    <3> QED BY <1>2, <3>1, TextStays
  <2> QED BY <1>1, <2>1 DEF PlugInv, PlugTyped
<1>4. MarksQuiet' /\ ReadingsRead'
  BY DEF MarksQuiet, ReadingsRead
<1>5. pEdits \in Seq(PluginEdit) /\ m \in Nat /\ DOMAIN pEdits = 1 .. m
  BY <1>1 DEF Ordered
<1>6. x \in PluginEdit /\ x.begin = pI /\ x.end = e
  BY <1>1 DEF PluginEdit
<1>7. \/ /\ DOMAIN pEdits' = 1 .. m + 1 /\ pEdits'[m + 1] = x
         /\ \A k \in 1 .. m : pEdits'[k] = pEdits[k]
      \/ pEdits' = pEdits /\ e = pI + 1 /\ ~Plugins!RuleAt(pI, e)
  <2> HIDE DEF m
  <2>1. CASE pEdits' = Append(pEdits, x)
    <3> HIDE DEF x
    <3>1. x \in PluginEdit /\ pEdits \in Seq(PluginEdit) /\ pEdits' = Append(pEdits, x)
      BY <1>5, <1>6, <2>1
    <3>2. /\ Append(pEdits, x) \in Seq(PluginEdit) /\ Len(Append(pEdits, x)) = Len(pEdits) + 1
          /\ Append(pEdits, x)[Len(pEdits) + 1] = x
          /\ \A k \in 1 .. Len(pEdits) : Append(pEdits, x)[k] = pEdits[k]
      BY <3>1, AppendProperties
    <3>3. DOMAIN Append(pEdits, x) = 1 .. Len(pEdits) + 1
      BY <3>2, LenProperties
    <3> QED BY <3>1, <3>2, <3>3 DEF m
  <2> QED BY <2>1
<1> HIDE DEF x, m
<1>8. ASSUME NEW k \in DOMAIN pEdits'
      PROVE  LET b == pEdits'[k].begin f == pEdits'[k].end
             IN  /\ Plugins!RuleAt(b, f) \/ f = b + 1
                 /\ \A l \in 1 .. Len(pCurrent) :
                        l > f \/ (l > b /\ ~Plugins!RuleAt(b, f)) => ~Plugins!RuleAt(b, l)
  <2>1. CASE k \in 1 .. m /\ pEdits'[k] = pEdits[k]
    BY <1>5, <2>1 DEF PlugInv, Plugins!LongestRules
  <2>2. CASE k = m + 1 /\ pEdits'[k] = x
    BY <1>6, <2>2
  <2> QED BY <1>5, <1>7, <2>1, <2>2
<1>9. ASSUME NEW b \in 0 .. e - 1, NEW f \in b + 1 .. Len(pCurrent), Plugins!RuleAt(b, f)
      PROVE  \E k \in DOMAIN pEdits' : pEdits'[k].begin <= b /\ b < pEdits'[k].end
  <2>1. CASE b < pI
    <3>1. b \in 0 .. pI - 1
      BY <1>1, <2>1
    <3>2. PICK k \in DOMAIN pEdits : pEdits[k].begin <= b /\ b < pEdits[k].end
      BY <1>9, <3>1 DEF PlugInv, Plugins!LongestRules
    <3>3. k \in DOMAIN pEdits' /\ pEdits'[k] = pEdits[k]
      BY <1>5, <1>7
    <3> QED BY <3>2, <3>3
  <2>2. CASE b >= pI
    <3>1. CASE pEdits' = pEdits /\ e = pI + 1 /\ ~Plugins!RuleAt(pI, e)
      <4>1. b = pI /\ f \in 1 .. Len(pCurrent) /\ f > pI
        BY <1>1, <2>2, <3>1
      <4> QED BY <1>9, <3>1, <4>1
    <3>2. CASE DOMAIN pEdits' = 1 .. m + 1 /\ pEdits'[m + 1] = x
      <4>1. m + 1 \in DOMAIN pEdits' /\ pEdits'[m + 1].begin <= b /\ b < pEdits'[m + 1].end
        BY <1>1, <1>5, <1>6, <2>2, <3>2
      <4> QED BY <4>1
    <3> QED BY <1>7, <3>1, <3>2
  <2> QED BY <1>1, <2>1, <2>2
<1>10. Plugins!LongestRules'
  BY <1>8, <1>9, TextStays DEF Plugins!LongestRules
<1> QED BY <1>3, <1>4, <1>10 DEF PlugInv

LEMMA NormalizerSteps ==
    ASSUME Plugins!RulesAssumption, PlugInv, Plugins!ReplaceKey \/ Plugins!NormalizeChar
    PROVE  PlugInv'
<1>1. /\ pStage = "normalize" /\ pI < Len(pCurrent) /\ pCurrent \in CharSeq /\ pI \in Nat
      /\ Len(pCurrent) \in Nat /\ PlugTyped
  BY DEF Plugins!ReplaceKey, Plugins!NormalizeChar, Plugins!Reads, PlugInv, PlugTyped, CharSeq
<1>2. CASE Plugins!ReplaceKey
  <2>1. PICK e \in pI + 1 .. Len(pCurrent) :
            /\ Plugins!IsLongest(e) /\ pI' = e
            /\ pEdits' = Plugins!Replaced(pI, e, Replacement[Plugins!Text(pI, e)])
    BY <1>2 DEF Plugins!ReplaceKey, Plugins!After
  <2> DEFINE w == Replacement[Plugins!Text(pI, e)]
  <2>2. /\ Plugins!RuleAt(pI, e)
        /\ \A l \in e + 1 .. Len(pCurrent) : ~Plugins!RuleAt(pI, l)
    BY <1>1, <2>1, LongestFound
  <2>3. w \in CharSeq
    BY <2>2 DEF Plugins!RuleAt, Plugins!RulesAssumption, CharSeq
  <2>4. UNCHANGED <<pStage, pCurrent, runStart, runLen>>
    BY <1>2 DEF Plugins!ReplaceKey
  <2>5. pEdits' = Append(pEdits, [begin |-> pI, end |-> e, with |-> w])
    BY <2>1 DEF Plugins!Replaced
  <2>6. \A l \in 1 .. Len(pCurrent) :
            l > e \/ (l > pI /\ ~Plugins!RuleAt(pI, e)) => ~Plugins!RuleAt(pI, l)
    BY <1>1, <2>2
  <2> HIDE DEF w
  <2> QED BY <1>1, <2>1, <2>2, <2>3, <2>4, <2>5, <2>6, NormalizeStep
<1>3. CASE Plugins!NormalizeChar
  <2> DEFINE c == pCurrent[pI + 1]
             w == Plugins!NormalizeRune(c)
             e == pI + 1
  <2>1. /\ pI' = e /\ UNCHANGED <<pStage, pCurrent, runStart, runLen>>
        /\ \A f \in pI + 1 .. Len(pCurrent) : ~Plugins!IsLongest(f)
        /\ pEdits' = pEdits \/ pEdits' = Plugins!Replaced(pI, e, w)
    BY <1>3 DEF Plugins!NormalizeChar
  <2>2. \A f \in pI + 1 .. Len(pCurrent) : ~Plugins!RuleAt(pI, f)
    BY <1>1, <2>1, LongestFound
  <2>3. w \in CharSeq
    <3>1. c \in Characters
      BY <1>1, ElementOfSeq DEF CharSeq
    <3> HIDE DEF c
    <3>2. Lower[c] \in Characters /\ Nfkc[Lower[c]] \in Seq(Characters)
      BY <3>1 DEF Plugins!RulesAssumption
    <3> QED BY <3>2 DEF Plugins!NormalizeRune, CharSeq
  <2>4. e \in pI + 1 .. Len(pCurrent) /\ ~Plugins!RuleAt(pI, e)
        /\ \A l \in 1 .. Len(pCurrent) : l > pI => ~Plugins!RuleAt(pI, l)
    BY <1>1, <2>2
  <2>5. \/ pEdits' = Append(pEdits, [begin |-> pI, end |-> e, with |-> w])
        \/ pEdits' = pEdits /\ e = pI + 1 /\ ~Plugins!RuleAt(pI, e)
    BY <2>1, <2>4 DEF Plugins!Replaced
  <2>6. e = pI + 1 /\ \A l \in 1 .. Len(pCurrent) :
            l > e \/ (l > pI /\ ~Plugins!RuleAt(pI, e)) => ~Plugins!RuleAt(pI, l)
    BY <1>1, <2>4
  <2> HIDE DEF w, e
  <2> QED BY <1>1, <2>1, <2>3, <2>4, <2>5, <2>6, NormalizeStep
<1> QED BY <1>2, <1>3

LEMMA MarkSteps ==
    ASSUME Plugins!RulesAssumption, PlugInv, Plugins!ReadMark \/ Plugins!ReadOther
    PROVE  PlugInv'
<1>1. /\ pStage = "marks" /\ pI \in 0 .. Len(pCurrent) - 1 /\ pCurrent \in CharSeq /\ pI \in Nat
      /\ Len(pCurrent) \in Nat /\ PlugTyped /\ MarksQuiet /\ runLen \in 0 .. pI /\ pI' = pI + 1
      /\ UNCHANGED <<pStage, pCurrent>> /\ Ordered(pEdits, pI - runLen)
  BY DEF Plugins!ReadMark, Plugins!ReadOther, Plugins!Reads, PlugInv, PlugTyped, CharSeq
<1>2. ReadingsRead' /\ Plugins!LongestRules'
  BY <1>1 DEF ReadingsRead, Plugins!LongestRules
<1>3. CASE Plugins!ReadMark
  <2>1. pEdits' = pEdits /\ runLen' = runLen + 1 /\ runStart' = IF runLen = 0 THEN pI ELSE runStart
    BY <1>3 DEF Plugins!ReadMark
  <2>2. pI' - runLen' = pI - runLen
    BY <1>1, <2>1
  <2>3. Ordered(pEdits, pI - runLen)'
    BY <1>1, <2>1, <2>2, TextStays
  <2>4. PlugTyped'
    BY <1>1, <2>1, <2>3 DEF PlugTyped
  <2>5. MarksQuiet'
    BY <1>1, <2>1, <2>2, TextStays DEF MarksQuiet, Quiet, Closed
  <2> QED BY <1>2, <2>4, <2>5 DEF PlugInv
<1>4. CASE Plugins!ReadOther
  <2> DEFINE f == Plugins!Flushed
             c == pCurrent[pI + 1]
  <2>1. pEdits' = f /\ runLen' = 0 /\ runStart' = runStart /\ c \notin Marks
    BY <1>4 DEF Plugins!ReadOther
  <2>2. Ordered(f, pI) /\ Quiet(Made(f, pI))
    BY <1>1, AfterFlush
  <2> HIDE DEF f, c
  <2>3. Ordered(f, pI + 1) /\ pI' - runLen' = pI + 1
    <3>1. pI + 1 \in pI .. Len(pCurrent)
      BY <1>1
    <3>2. Ordered(f, pI + 1)
      BY <1>1, <2>2, <3>1, OrderedLonger
    <3> QED BY <1>1, <2>1, <3>2
  <2>4. /\ Made(f, pI) \in CharSeq /\ c \in Characters
        /\ Made(f, pI + 1) = Append(Made(f, pI), c)
    BY <1>1, <2>2, MadeGrows DEF c
  <2>5. Quiet(Made(f, pI + 1)) /\ Closed(Made(f, pI + 1))
    BY <2>1, <2>2, <2>4, QuietAppend
  <2>6. Ordered(pEdits, pI - runLen)'
    BY <1>1, <2>1, <2>3, TextStays
  <2>7. PlugTyped'
    BY <1>1, <2>1, <2>6 DEF PlugTyped
  <2>8. MarksQuiet'
    BY <1>1, <2>1, <2>3, <2>5, TextStays DEF MarksQuiet, Quiet, Closed
  <2> QED BY <1>2, <2>7, <2>8 DEF PlugInv
<1> QED BY <1>3, <1>4

\* What matchYomigana matches is what a reading is.
LEMMA Matched ==
    ASSUME Plugins!RulesAssumption, PlugTyped,
           NEW b \in 1 .. Len(pCurrent), NEW e \in 1 .. Len(pCurrent),
           pCurrent[b] \in Kanji
    PROVE  /\ Plugins!IsYomigana(b, e) <=> IsReading(b, e)
           /\ IsReading(b, e) => e \in b + 3 .. Len(pCurrent)
           /\ IsReading(b, e) => \A a \in b + 1 .. e : ~BeforeBracket(a)
           /\ IsReading(b, e) => \A f \in 1 .. Len(pCurrent) : IsReading(b, f) => f = e
<1>1. Len(pCurrent) \in Nat /\ MaxReading \in Int
  BY DEF PlugTyped, CharSeq, Plugins!RulesAssumption
<1>2. \A x \in Kanji : x \notin Left /\ x \notin Right
  BY DEF Plugins!RulesAssumption
<1>3. /\ \A x \in Right : x \notin Reading /\ x \notin Left
      /\ \A x \in Reading : x \notin Left
  BY DEF Plugins!RulesAssumption
<1>4. Plugins!IsYomigana(b, e) <=> IsReading(b, e)
  BY <1>1, <1>3 DEF Plugins!IsYomigana, IsReading, BeforeBracket
<1>5. \A f \in 1 .. Len(pCurrent) : IsReading(b, f) => f \in b + 3 .. Len(pCurrent)
  BY <1>1 DEF IsReading
<1>6. ASSUME IsReading(b, e), NEW a \in b + 1 .. e PROVE ~BeforeBracket(a)
  <2>1. CASE a = b + 1 \/ a = e
    BY <1>2, <1>6, <2>1 DEF IsReading, BeforeBracket
  <2>2. CASE a \in b + 2 .. e - 1
    <3>1. a + 1 = e \/ a + 1 \in b + 2 .. e - 1
      BY <1>1, <2>2
    <3> QED BY <1>3, <1>6, <3>1 DEF IsReading, BeforeBracket
  <2> QED BY <1>1, <2>1, <2>2
<1>7. ASSUME IsReading(b, e), NEW f \in 1 .. Len(pCurrent), IsReading(b, f) PROVE f = e
  <2>1. f \in b + 3 .. Len(pCurrent) /\ e \in b + 3 .. Len(pCurrent)
    BY <1>5, <1>7
  <2>2. CASE f < e
    <3>1. f \in b + 2 .. e - 1
      BY <2>1, <2>2
    <3> QED BY <1>3, <1>7, <3>1 DEF IsReading
  <2>3. CASE e < f
    <3>1. e \in b + 2 .. f - 1
      BY <2>1, <2>3
    <3> QED BY <1>3, <1>7, <3>1 DEF IsReading
  <2> QED BY <2>1, <2>2, <2>3
<1> QED BY <1>4, <1>5, <1>6, <1>7

\* What is made of a text up to a character, and of the character.
LEMMA QuietOn ==
    ASSUME Plugins!RulesAssumption, PlugInv, pStage = "yomigana", pI \in 0 .. Len(pCurrent) - 1
    PROVE  LET c == pCurrent[pI + 1]
           IN  /\ Made(pEdits, pI) \in CharSeq /\ c \in Characters
               /\ Made(pEdits, pI + 1) = Append(Made(pEdits, pI), c)
               /\ Made(pEdits, pI + 1) \in CharSeq
               /\ Quiet(Made(pEdits, pI + 1))
               /\ c \notin Marks => Closed(Made(pEdits, pI + 1))
<1> DEFINE c == pCurrent[pI + 1]
           m == Made(pEdits, pI)
<1>1. /\ pCurrent \in CharSeq /\ Ordered(pEdits, pI) /\ pI \in Nat /\ Len(pCurrent) \in Nat
      /\ Quiet(pCurrent) /\ Quiet(m) /\ (Closed(m) \/ (pI > 0 /\ m[Len(m)] = pCurrent[pI]))
  BY DEF PlugInv, PlugTyped, MarksQuiet, CharSeq
<1>2. /\ m \in CharSeq /\ c \in Characters /\ Made(pEdits, pI + 1) = Append(m, c)
  BY <1>1, MadeGrows
<1>3. Closed(m) \/ c \notin Marks
  <2>1. CASE pI > 0 /\ m[Len(m)] = pCurrent[pI]
    <3>1. ~(pCurrent[pI] \in Marks /\ pCurrent[pI + 1] \in Marks)
      <4>1. pI \in 1 .. Len(pCurrent) - 1
        BY <1>1, <2>1
      <4> QED BY <1>1, <4>1 DEF Quiet
    <3> QED BY <2>1, <3>1 DEF Closed
  <2> QED BY <1>1, <2>1
<1> HIDE DEF m, c
<1>4. /\ Quiet(Append(m, c)) /\ Append(m, c) \in CharSeq
      /\ c \notin Marks => Closed(Append(m, c))
  BY <1>1, <1>2, <1>3, QuietAppend
<1> QED BY <1>2, <1>4 DEF m, c

LEMMA YomiganaSteps ==
    ASSUME Plugins!RulesAssumption, PlugInv, Plugins!DropReading \/ Plugins!ReadOn
    PROVE  PlugInv'
<1> DEFINE c == pCurrent[pI + 1]
<1>1. /\ pStage = "yomigana" /\ pI \in 0 .. Len(pCurrent) - 1 /\ pCurrent \in CharSeq /\ pI \in Nat
      /\ Len(pCurrent) \in Nat /\ PlugTyped /\ runLen = 0 /\ runStart \in 0 .. pI
      /\ UNCHANGED <<pStage, pCurrent, runStart, runLen>>
      /\ Ordered(pEdits, pI) /\ Quiet(pCurrent)
  BY DEF Plugins!DropReading, Plugins!ReadOn, Plugins!Reads, PlugInv, PlugTyped, MarksQuiet, CharSeq
<1>2. Plugins!LongestRules'
  BY <1>1 DEF Plugins!LongestRules
<1>3. /\ Made(pEdits, pI + 1) = Append(Made(pEdits, pI), c) /\ Made(pEdits, pI) \in CharSeq
      /\ Made(pEdits, pI + 1) \in CharSeq /\ Quiet(Made(pEdits, pI + 1)) /\ c \in Characters
      /\ c \notin Marks => Closed(Made(pEdits, pI + 1))
  BY <1>1, QuietOn
<1>4. Ordered(pEdits, pI + 1) /\ pI + 1 \in 1 .. Len(pCurrent)
  BY <1>1, OrderedLonger
<1>5. \A b, e \in 1 .. Len(pCurrent) : Dropped(b, e) <=> b <= pI /\ IsReading(b, e)
  BY <1>1 DEF PlugInv, ReadingsRead
<1>6. ASSUME NEW j \in pI + 1 .. Len(pCurrent), pI' = j, Ordered(pEdits', j),
             LET m == Made(pEdits', j) IN Quiet(m) /\ (Closed(m) \/ m[Len(m)] = pCurrent[j]),
             \A b, e \in 1 .. Len(pCurrent) : Dropped(b, e)' <=> b <= j /\ IsReading(b, e)
      PROVE  PlugInv'
  <2>1. j > 0 /\ j \in 0 .. Len(pCurrent) /\ pI' - runLen' = j
    BY <1>1, <1>6
  <2>2. Ordered(pEdits, pI - runLen)'
    BY <1>1, <1>6, <2>1, TextStays
  <2>3. PlugTyped'
    BY <1>1, <1>6, <2>1, <2>2 DEF PlugTyped
  <2>4. MarksQuiet'
    <3> DEFINE m == Made(pEdits', j)
    <3>1. Made(pEdits, pI)' = m
      BY <1>1, <1>6, TextStays
    <3>2. Quiet(m) /\ (Closed(m) \/ m[Len(m)] = pCurrent[j])
      BY <1>6
    <3> HIDE DEF m
    <3>3. pI' = j /\ pI' > 0 /\ pCurrent' = pCurrent /\ pStage' = "yomigana"
      BY <1>1, <1>6, <2>1
    <3>4. Quiet(Made(pEdits, pI))'
      BY <3>1, <3>2 DEF Quiet
    <3>5. (Closed(Made(pEdits, pI)) \/ Made(pEdits, pI)[Len(Made(pEdits, pI))] = pCurrent[pI])'
      BY <3>1, <3>2, <3>3 DEF Closed
    <3>6. Quiet(pCurrent)'
      BY <1>1 DEF Quiet
    <3> QED BY <3>3, <3>4, <3>5, <3>6 DEF MarksQuiet
  <2>5. ReadingsRead'
    BY <1>1, <1>6, TextStays DEF ReadingsRead
  <2> QED BY <1>2, <2>3, <2>4, <2>5 DEF PlugInv
<1> HIDE DEF c
<1>7. CASE Plugins!ReadOn
  <2>1. /\ pI' = pI + 1 /\ pEdits' = pEdits
        /\ c \in Kanji => \A end \in pI + 4 .. Len(pCurrent) : ~Plugins!IsYomigana(pI + 1, end)
    BY <1>7 DEF Plugins!ReadOn, c
  <2>2. ASSUME NEW b \in 1 .. Len(pCurrent), NEW e \in 1 .. Len(pCurrent)
        PROVE  Dropped(b, e)' <=> b <= pI + 1 /\ IsReading(b, e)
    <3>1. Dropped(b, e)' <=> Dropped(b, e)
      BY <2>1 DEF Dropped
    <3>2. CASE b = pI + 1
      <4>1. ASSUME IsReading(b, e) PROVE FALSE
        <5>1. pCurrent[b] \in Kanji
          BY <4>1 DEF IsReading, BeforeBracket
        <5>2. Plugins!IsYomigana(b, e) /\ e \in b + 3 .. Len(pCurrent)
          BY <1>1, <4>1, <5>1, Matched
        <5>3. c \in Kanji /\ e \in pI + 4 .. Len(pCurrent)
          BY <1>1, <3>2, <5>1, <5>2 DEF c
        <5> QED BY <2>1, <3>2, <5>2, <5>3
      <4> QED BY <1>1, <1>5, <3>1, <3>2, <4>1
    <3>3. CASE b # pI + 1
      <4>1. b <= pI + 1 <=> b <= pI
        BY <1>1, <3>3
      <4> QED BY <1>5, <3>1, <4>1
    <3> QED BY <3>2, <3>3
  <2>3. Made(pEdits, pI + 1)[Len(Made(pEdits, pI + 1))] = c
    <3>1. /\ Len(Append(Made(pEdits, pI), c)) = Len(Made(pEdits, pI)) + 1
          /\ Append(Made(pEdits, pI), c)[Len(Made(pEdits, pI)) + 1] = c
      BY <1>3, AppendProperties DEF CharSeq
    <3> QED BY <1>3, <3>1
  <2> DEFINE j == pI + 1
  <2>4. /\ j \in pI + 1 .. Len(pCurrent) /\ pI' = j /\ Ordered(pEdits', j)
        /\ Quiet(Made(pEdits', j)) /\ Made(pEdits', j)[Len(Made(pEdits', j))] = pCurrent[j]
        /\ \A b, e \in 1 .. Len(pCurrent) : Dropped(b, e)' <=> b <= j /\ IsReading(b, e)
    BY <1>1, <1>3, <1>4, <2>1, <2>2, <2>3 DEF c
  <2> HIDE DEF j
  <2> QED BY <1>6, <2>4
<1>8. CASE Plugins!DropReading
  <2>1. PICK end \in pI + 4 .. Len(pCurrent) :
            /\ Plugins!IsYomigana(pI + 1, end) /\ pI' = end /\ c \in Kanji
            /\ pEdits' = Append(pEdits, [begin |-> pI + 1, end |-> end, with |-> <<>>])
    BY <1>8 DEF Plugins!DropReading, Plugins!Replaced, c
  <2> DEFINE k == pI + 1
             x == [begin |-> k, end |-> end, with |-> <<>>]
             m == Len(pEdits)
  <2>2. /\ k \in 1 .. Len(pCurrent) /\ end \in 1 .. Len(pCurrent) /\ pCurrent[k] \in Kanji /\ k <= end
        /\ end \in 0 .. Len(pCurrent) /\ end \in pI + 1 .. Len(pCurrent) /\ k = pI + 1
    BY <1>1, <2>1 DEF c
  <2>3. Plugins!IsYomigana(k, end)
    BY <2>1
  <2>4. pEdits' = Append(pEdits, x) /\ Ordered(pEdits, k) /\ <<>> \in CharSeq
    BY <1>4, <2>1 DEF CharSeq
  <2> HIDE DEF k
  <2>5. /\ IsReading(k, end) /\ \A a \in k + 1 .. end : ~BeforeBracket(a)
        /\ \A f \in 1 .. Len(pCurrent) : IsReading(k, f) => f = end
    BY <1>1, <2>2, <2>3, Matched
  <2>6. Ordered(pEdits', end) /\ Made(pEdits', end) = Made(pEdits, k) \o <<>>
    <3> DEFINE w == <<>>
    <3>1. Registered(pEdits, k, end, w, pEdits')
      BY <1>1, <2>2, <2>4 DEF Registered
    <3> HIDE DEF w
    <3>2. Ordered(pEdits', end) /\ Made(pEdits', end) = Made(pEdits, k) \o w
      BY <3>1, MadeEdited
    <3> QED BY <3>2 DEF w
  <2>7. Quiet(Made(pEdits', end)) /\ Closed(Made(pEdits', end))
    <3>1. c \notin Marks
      BY <2>1 DEF Plugins!RulesAssumption
    <3>2. Made(pEdits', end) = Made(pEdits, k)
      BY <1>3, <2>2, <2>6, ConcatEmptySeq DEF CharSeq
    <3> QED BY <1>3, <2>2, <3>1, <3>2
  <2>8. x \in PluginEdit /\ pEdits \in Seq(PluginEdit)
    BY <1>1, <2>2 DEF PluginEdit, Ordered, CharSeq
  <2>9. /\ Len(pEdits') = m + 1 /\ m \in Nat /\ pEdits'[m + 1] = x
        /\ \A n \in 1 .. m : pEdits'[n] = pEdits[n]
    <3> HIDE DEF x
    <3> QED BY <2>4, <2>8, AppendProperties
  <2>10. ASSUME NEW b \in 1 .. Len(pCurrent), NEW e \in 1 .. Len(pCurrent)
         PROVE  Dropped(b, e)' <=> b <= end /\ IsReading(b, e)
    <3>1. Dropped(b, e)' <=> Dropped(b, e) \/ (b = k /\ e = end)
      <4> HIDE DEF m
      <4>1. \A n \in 1 .. m + 1 : n \in 1 .. m \/ n = m + 1
        BY <2>9
      <4>2. m + 1 \in 1 .. m + 1 /\ 1 .. m \subseteq 1 .. m + 1
        BY <2>9
      <4>3. x = [begin |-> b, end |-> e, with |-> <<>>] <=> b = k /\ e = end
        OBVIOUS
      <4>4. Dropped(b, e)' <=> \E n \in 1 .. m + 1 : pEdits'[n] = [begin |-> b, end |-> e, with |-> <<>>]
        BY <2>9 DEF Dropped
      <4>5. Dropped(b, e) <=> \E n \in 1 .. m : pEdits[n] = [begin |-> b, end |-> e, with |-> <<>>]
        BY DEF Dropped, m
      <4> HIDE DEF x
      <4> QED BY <2>9, <4>1, <4>2, <4>3, <4>4, <4>5
    <3>2. CASE b < k
      BY <1>1, <1>5, <2>2, <3>1, <3>2
    <3>3. CASE b = k
      BY <1>1, <1>5, <2>2, <2>5, <3>1, <3>3
    <3>4. CASE b > k
      <4>1. b <= end => ~BeforeBracket(b)
        BY <2>2, <2>5, <3>4
      <4> QED BY <1>1, <1>5, <2>2, <3>1, <3>4, <4>1 DEF IsReading
    <3> QED BY <2>2, <3>2, <3>3, <3>4
  <2> QED BY <1>6, <2>1, <2>2, <2>6, <2>7, <2>10
<1> QED BY <1>7, <1>8

\* Nothing is made of a text nothing was read of.
LEMMA AnewMade == /\ Made(<<>>, 0)' = <<>> /\ Quiet(<<>>) /\ Closed(<<>>)
                  /\ pCurrent' \in CharSeq => Ordered(<<>>, 0)'
<1>1. Plugins!Text(0, 0)' = <<>>
  BY SubSeqEmpty DEF Plugins!Text
<1>2. Pieces(<<>>)' = <<>>
  BY DEF Pieces
<1>3. FlattenSeq(<<>>) = <<>> /\ LastEnd(<<>>) = 0 /\ <<>> \o <<>> = <<>>
  BY EmptySeq, ConcatEmptySeq DEF FlattenSeq, LastEnd
<1>4. Made(<<>>, 0)' = <<>>
  BY <1>1, <1>2, <1>3 DEF Made
<1>5. Quiet(<<>>) /\ Closed(<<>>)
  BY EmptySeq DEF Quiet, Closed
<1>6. pCurrent' \in CharSeq => Ordered(<<>>, 0)'
  BY EmptySeq DEF Ordered, CharSeq
<1> QED BY <1>4, <1>5, <1>6

LEMMA ApplyStep == ASSUME Plugins!RulesAssumption, PlugInv, Plugins!Apply PROVE PlugInv'
<1> DEFINE es == Plugins!Registered
<1>1. /\ pStage \in {"normalize", "marks", "yomigana"} /\ pI = Len(pCurrent) /\ PlugTyped
      /\ pCurrent \in CharSeq /\ Len(pCurrent) \in Nat /\ (pStage # "marks" => pI - runLen = pI)
      /\ pI' = 0 /\ pEdits' = <<>> /\ runStart' = 0 /\ runLen' = 0
  BY DEF Plugins!Apply, Plugins!Rewind, PlugInv, PlugTyped, CharSeq
<1>2. Ordered(es, Len(pCurrent)) /\ (pStage = "marks" => Quiet(Made(es, Len(pCurrent))))
  <2>1. CASE pStage = "marks"
    <3>1. Ordered(Plugins!Flushed, pI) /\ Quiet(Made(Plugins!Flushed, pI))
      BY <1>1, <2>1, AfterFlush DEF PlugInv
    <3> QED BY <1>1, <2>1, <3>1 DEF Plugins!Registered
  <2>2. CASE pStage # "marks"
    <3>1. es = pEdits /\ Ordered(pEdits, pI)
      BY <1>1, <2>2 DEF Plugins!Registered, PlugTyped
    <3> QED BY <1>1, <2>2, <3>1
  <2> QED BY <2>1, <2>2
<1>3. pStage = "yomigana" => Quiet(Made(es, Len(pCurrent)))
  BY <1>1 DEF Plugins!Registered, PlugInv, MarksQuiet
<1> HIDE DEF es
<1>4. /\ Plugins!InOrder(es) /\ Plugins!Applied(es) = Made(es, Len(pCurrent))
      /\ Made(es, Len(pCurrent)) \in CharSeq
  BY <1>1, <1>2, MadeApplied
<1>5. /\ pCurrent' = Made(es, Len(pCurrent))
      /\ pStage = "normalize" => pStage' = "marks"
      /\ pStage = "marks" => pStage' = "yomigana"
      /\ pStage = "yomigana" => pStage' = "done"
  BY <1>1, <1>4 DEF Plugins!Apply, es
<1>6. Ordered(<<>>, 0)' /\ pCurrent' \in CharSeq /\ Len(pCurrent') \in Nat
  BY <1>4, <1>5, AnewMade DEF CharSeq
<1>7. pI' - runLen' = 0
  BY <1>1
<1>8. PlugTyped'
  <2>1. Ordered(pEdits, pI - runLen)'
    BY <1>1, <1>6, <1>7
  <2> QED BY <1>1, <1>5, <1>6, <2>1 DEF PlugTyped, Plugins!Stages
<1>9. MarksQuiet'
  <2>1. /\ Quiet(Made(pEdits, pI - runLen))' /\ Closed(Made(pEdits, pI - runLen))'
        /\ Quiet(Made(pEdits, pI))' /\ Closed(Made(pEdits, pI))'
    <3>1. Made(pEdits, pI - runLen)' = <<>> /\ Made(pEdits, pI)' = <<>>
      BY <1>1, <1>7, AnewMade
    <3>2. Quiet(<<>>) /\ Closed(<<>>)
      BY AnewMade
    <3> QED BY <3>1, <3>2 DEF Quiet, Closed
  <2>2. pStage' \in {"yomigana", "done"} => Quiet(pCurrent)'
    <3>1. pStage' \in {"yomigana", "done"} => Quiet(Made(es, Len(pCurrent)))
      BY <1>1, <1>2, <1>3, <1>5
    <3> QED BY <1>5, <3>1 DEF Quiet
  <2> QED BY <2>1, <2>2 DEF MarksQuiet
<1>10. ReadingsRead'
  <2>1. \A b, e : ~Dropped(b, e)'
    BY <1>1, EmptySeq DEF Dropped
  <2>2. \A b \in 1 .. Len(pCurrent') : ~(b <= pI')
    BY <1>1, <1>6
  <2> QED BY <2>1, <2>2 DEF ReadingsRead
<1>11. Plugins!LongestRules'
  BY <1>1, <1>5 DEF Plugins!LongestRules
<1> QED BY <1>8, <1>9, <1>10, <1>11 DEF PlugInv

LEMMA PlugStep ==
    ASSUME Plugins!RulesAssumption, PlugInv, [Plugins!Next]_(Plugins!vars)
    PROVE  PlugInv'
<1>1. CASE Plugins!ReplaceKey \/ Plugins!NormalizeChar
  BY <1>1, NormalizerSteps
<1>2. CASE Plugins!ReadMark \/ Plugins!ReadOther
  BY <1>2, MarkSteps
<1>3. CASE Plugins!DropReading \/ Plugins!ReadOn
  BY <1>3, YomiganaSteps
<1>4. CASE Plugins!Apply
  BY <1>4, ApplyStep
<1>5. CASE UNCHANGED Plugins!vars
  <2>1. UNCHANGED <<pStage, pCurrent, pI, pEdits, runStart, runLen>>
    BY <1>5 DEF Plugins!vars
  <2>2. PlugTyped'
    BY <2>1, TextStays DEF PlugInv, PlugTyped
  <2>3. MarksQuiet'
    BY <2>1, TextStays DEF PlugInv, MarksQuiet, Quiet, Closed
  <2>4. ReadingsRead'
    BY <2>1, TextStays DEF PlugInv, ReadingsRead, Dropped
  <2>5. Plugins!LongestRules'
    BY <2>1, TextStays DEF PlugInv, Plugins!LongestRules
  <2> QED BY <2>2, <2>3, <2>4, <2>5 DEF PlugInv
<1> QED BY <1>1, <1>2, <1>3, <1>4, <1>5 DEF Plugins!Next

LEMMA PlugAnswers ==
    ASSUME PlugInv
    PROVE  Plugins!TypeOK /\ Plugins!NeverRejected /\ Plugins!NothingPassedOver
<1>1. Plugins!TypeOK
  <2>1. pEdits \in Seq(PluginEdit) /\ PluginEdit = Plugins!Edit /\ pI \in Nat /\ runLen \in 0 .. pI
    BY DEF PlugInv, PlugTyped, Ordered, PluginEdit, Plugins!Edit, CharSeq
  <2> QED BY <2>1 DEF PlugInv, PlugTyped, Plugins!TypeOK, CharSeq
<1>2. Plugins!NeverRejected
  BY DEF PlugInv, PlugTyped, Plugins!NeverRejected
<1>3. Plugins!MarksApart
  BY DEF PlugInv, MarksQuiet, Quiet, Plugins!MarksApart
<1>4. Plugins!ReadingsDropped
  <2> SUFFICES ASSUME pStage = "yomigana", pI = Len(pCurrent),
                      NEW b \in 1 .. Len(pCurrent), NEW e \in 1 .. Len(pCurrent)
               PROVE  IsReading(b, e) <=>
                          \E k \in DOMAIN pEdits : pEdits[k] = [begin |-> b, end |-> e, with |-> <<>>]
    BY DEF Plugins!ReadingsDropped, IsReading, BeforeBracket
  <2>1. DOMAIN pEdits = 1 .. Len(pEdits) /\ b <= pI
    BY DEF PlugInv, PlugTyped, Ordered
  <2> QED BY <2>1 DEF PlugInv, ReadingsRead, Dropped
<1> QED BY <1>1, <1>2, <1>3, <1>4 DEF Plugins!NothingPassedOver

LEMMA PluginsKeep == ASSUME Plugins!RulesAssumption PROVE Plugins!Spec => []PlugInv
<1>1. Plugins!Init => PlugInv
  BY PlugStarts
<1>2. PlugInv /\ [Plugins!Next]_(Plugins!vars) => PlugInv'
  BY PlugStep
<1> QED BY <1>1, <1>2, PTL DEF Plugins!Spec

\* No plugin makes the analysis of a text fail: the edits it registers are in
\* the text, in order and apart, so Builder.Rewrite takes them (builder.go:74).
THEOREM SpecNeverRejected ==
    ASSUME Plugins!RulesAssumption
    PROVE  Plugins!Spec => [](Plugins!TypeOK /\ NeverRejected)
<1>1. PlugInv => Plugins!TypeOK /\ NeverRejected
  BY PlugAnswers DEF NeverRejected
<1> QED BY <1>1, PluginsKeep, PTL

\* The normaliser replaces by the longest rule there is at a place, and passes
\* over no place where one begins (default.go:16).
THEOREM SpecLongestRules ==
    ASSUME Plugins!RulesAssumption
    PROVE  Plugins!Spec => []LongestRules
<1>1. PlugInv => LongestRules
  BY DEF PlugInv, LongestRules
<1> QED BY <1>1, PluginsKeep, PTL

\* Two sound marks are nowhere left side by side, also not by the plugin that
\* follows, and exactly the readings in brackets are dropped (prolonged.go:8,
\* yomigana.go:10).
THEOREM SpecNothingPassedOver ==
    ASSUME Plugins!RulesAssumption
    PROVE  Plugins!Spec => []NothingPassedOver
<1>1. PlugInv => NothingPassedOver
  BY PlugAnswers DEF NothingPassedOver
<1> QED BY <1>1, PluginsKeep, PTL

\* For every set of strings, every text and every rules: the offset map has an
\* entry for each byte, edits and plugins stay inside the text, and the indexes
\* are of the text while they are made.
THEOREM SpecTypesOK ==
    ASSUME Plugins!RulesAssumption
    PROVE  Spec /\ Plugins!Spec /\ TextSpec => []TypesOK
<1>1. TextInv => TextTypeOK
  BY DEF TextInv, Indexed, TextTypes, IndexLengths, TextTypeOK
<1>2. TypeOK /\ (Plugins!TypeOK /\ NeverRejected) /\ TextTypeOK => TypesOK
  BY DEF TypesOK
<1> QED BY <1>1, <1>2, TypeCorrect, SpecNeverRejected, TextInvHolds, PTL
=============================================================================
