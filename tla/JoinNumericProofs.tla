------------------------- MODULE JoinNumericProofs -------------------------
(***************************************************************************)
(* The pass over the numerals of a path makes, step for step, the path that *)
(* joining in place makes: for every path, whatever the parser answers.     *)
(* What it rests on is that the two slices the pass works on, put together,  *)
(* are the path, and that its indexes differ from those in the path by what  *)
(* the joins so far have saved. No node is lost, repeated or moved: the path *)
(* returned has the parts of the one given. Every node that is joined has    *)
(* the form of the number its parts read as, and every run of number nodes   *)
(* is joined whole. And the pass over the katakana joins each run of them.   *)
(***************************************************************************)
EXTENDS PathRewriters, SequenceLemmas

-----------------------------------------------------------------------------
(* A sequence o in the place of the first n elements of s: the rest of s     *)
(* begins at Len(o) + 1.                                                    *)

\* Where the elements of both are.
LEMMA InPlaceElements ==
    ASSUME NEW S, NEW o \in Seq(S), NEW s \in Seq(S), NEW n \in 0 .. Len(s)
    PROVE  LET t == o \o SubSeq(s, n + 1, Len(s))
           IN  /\ t \in Seq(S) /\ Len(t) = Len(o) + Len(s) - n
               /\ \A k \in 1 .. Len(o) : t[k] = o[k]
               /\ \A k \in n + 1 .. Len(s) : t[k - n + Len(o)] = s[k]
<1> DEFINE rest == SubSeq(s, n + 1, Len(s))
<1>1. \A k \in n + 1 .. Len(s) : s[k] \in S
  BY ElementOfSeq
<1>2. /\ rest \in Seq(S) /\ Len(rest) = Len(s) - n
      /\ \A k \in 1 .. Len(s) - n : rest[k] = s[n + k]
  <2>1. /\ rest \in Seq(S)
        /\ Len(rest) = IF n + 1 <= Len(s) THEN Len(s) - (n + 1) + 1 ELSE 0
        /\ \A k \in 1 .. Len(s) - (n + 1) + 1 : rest[k] = s[(n + 1) + k - 1]
    BY <1>1, SubSeqProperties
  <2> QED BY <2>1, LenProperties
<1> HIDE DEF rest
<1>3. /\ o \o rest \in Seq(S) /\ Len(o \o rest) = Len(o) + Len(rest)
      /\ \A k \in 1 .. Len(o) + Len(rest) :
             (o \o rest)[k] = IF k <= Len(o) THEN o[k] ELSE rest[k - Len(o)]
  BY <1>2, ConcatProperties
<1>4. Len(o) \in Nat /\ Len(s) \in Nat
  BY LenProperties
<1>5. \A k \in 1 .. Len(o) : (o \o rest)[k] = o[k]
  BY <1>2, <1>3, <1>4
<1>6. ASSUME NEW k \in n + 1 .. Len(s) PROVE (o \o rest)[k - n + Len(o)] = s[k]
  <2>1. k - n \in 1 .. Len(s) - n /\ (k - n + Len(o)) - Len(o) = k - n /\ n + (k - n) = k
    BY <1>4
  <2>2. rest[k - n] = s[k]
    BY <2>1, <1>2
  <2> QED BY <2>1, <2>2, <1>2, <1>3, <1>4
<1> QED BY <1>2, <1>3, <1>4, <1>5, <1>6 DEF rest

\* A stretch of the rest of s.
LEMMA InPlaceStretch ==
    ASSUME NEW S, NEW o \in Seq(S), NEW s \in Seq(S), NEW n \in 0 .. Len(s),
           NEW b \in n + 1 .. Len(s) + 1, NEW e \in b .. Len(s) + 1
    PROVE  SubSeq(o \o SubSeq(s, n + 1, Len(s)), b - n + Len(o), e - n + Len(o) - 1)
           = SubSeq(s, b, e - 1)
<1> DEFINE t == o \o SubSeq(s, n + 1, Len(s))
           lo == b - n + Len(o)
           hi == e - n + Len(o) - 1
<1>1. /\ t \in Seq(S) /\ Len(t) = Len(o) + Len(s) - n
      /\ \A k \in n + 1 .. Len(s) : t[k - n + Len(o)] = s[k]
  BY InPlaceElements
<1> HIDE DEF t
<1>2. Len(o) \in Nat /\ Len(s) \in Nat
  BY LenProperties
<1>3. lo \in Int /\ hi \in Int /\ lo .. hi \subseteq 1 .. Len(t) /\ b .. e - 1 \subseteq 1 .. Len(s)
  BY <1>1, <1>2
<1>4. /\ SubSeq(t, lo, hi) \in Seq(S)
      /\ Len(SubSeq(t, lo, hi)) = IF lo <= hi THEN hi - lo + 1 ELSE 0
      /\ \A k \in 1 .. hi - lo + 1 : SubSeq(t, lo, hi)[k] = t[lo + k - 1]
  <2>1. \A k \in lo .. hi : t[k] \in S
    BY <1>1, <1>3, ElementOfSeq
  <2> QED BY <2>1, <1>3, SubSeqProperties
<1>5. /\ SubSeq(s, b, e - 1) \in Seq(S)
      /\ Len(SubSeq(s, b, e - 1)) = IF b <= e - 1 THEN e - 1 - b + 1 ELSE 0
      /\ \A k \in 1 .. e - 1 - b + 1 : SubSeq(s, b, e - 1)[k] = s[b + k - 1]
  <2>1. \A k \in b .. e - 1 : s[k] \in S
    BY <1>3, ElementOfSeq
  <2>2. b \in Int /\ e - 1 \in Int
    BY <1>2
  <2> QED BY <2>1, <2>2, SubSeqProperties
<1>6. Len(SubSeq(t, lo, hi)) = e - b /\ Len(SubSeq(s, b, e - 1)) = e - b
  BY <1>2, <1>4, <1>5
<1>7. ASSUME NEW k \in 1 .. e - b PROVE SubSeq(t, lo, hi)[k] = SubSeq(s, b, e - 1)[k]
  <2>1. SubSeq(t, lo, hi)[k] = t[lo + k - 1]
    BY <1>2, <1>4
  <2>2. SubSeq(s, b, e - 1)[k] = s[b + k - 1]
    BY <1>2, <1>5
  <2>3. lo + k - 1 = (b + k - 1) - n + Len(o) /\ b + k - 1 \in n + 1 .. Len(s)
    BY <1>2
  <2> QED BY <2>1, <2>2, <2>3, <1>1
<1>8. SubSeq(t, lo, hi) = SubSeq(s, b, e - 1)
  BY <1>4, <1>5, <1>6, <1>7, SeqEqual
<1> QED BY <1>8 DEF t

\* What is before a place in the rest of s.
LEMMA InPlaceHead ==
    ASSUME NEW S, NEW o \in Seq(S), NEW s \in Seq(S), NEW n \in 0 .. Len(s),
           NEW b \in n + 1 .. Len(s) + 1
    PROVE  /\ SubSeq(o \o SubSeq(s, n + 1, Len(s)), 1, b - n + Len(o) - 1)
              = o \o SubSeq(s, n + 1, b - 1)
           /\ o \o SubSeq(s, n + 1, b - 1) \in Seq(S)
           /\ Len(o \o SubSeq(s, n + 1, b - 1)) = b - n + Len(o) - 1
<1> DEFINE t == o \o SubSeq(s, n + 1, Len(s))
           hi == b - n + Len(o) - 1
           mid == SubSeq(s, n + 1, b - 1)
<1>1. /\ t \in Seq(S) /\ Len(t) = Len(o) + Len(s) - n
      /\ \A k \in 1 .. Len(o) : t[k] = o[k]
      /\ \A k \in n + 1 .. Len(s) : t[k - n + Len(o)] = s[k]
  BY InPlaceElements
<1> HIDE DEF t
<1>2. Len(o) \in Nat /\ Len(s) \in Nat
  BY LenProperties
<1>3. hi \in Nat /\ hi <= Len(t) /\ n + 1 .. b - 1 \subseteq 1 .. Len(s)
  BY <1>1, <1>2
<1>4. /\ SubSeq(t, 1, hi) \in Seq(S)
      /\ Len(SubSeq(t, 1, hi)) = IF 1 <= hi THEN hi - 1 + 1 ELSE 0
      /\ \A k \in 1 .. hi - 1 + 1 : SubSeq(t, 1, hi)[k] = t[1 + k - 1]
  <2>1. \A k \in 1 .. hi : t[k] \in S
    BY <1>1, <1>3, ElementOfSeq
  <2>2. hi \in Int
    BY <1>3
  <2> QED BY <2>1, <2>2, SubSeqProperties
<1>5. /\ mid \in Seq(S)
      /\ Len(mid) = IF n + 1 <= b - 1 THEN b - 1 - (n + 1) + 1 ELSE 0
      /\ \A k \in 1 .. b - 1 - (n + 1) + 1 : mid[k] = s[n + 1 + k - 1]
  <2>1. \A k \in n + 1 .. b - 1 : s[k] \in S
    BY <1>3, ElementOfSeq
  <2>2. n + 1 \in Int /\ b - 1 \in Int
    BY <1>2
  <2> QED BY <2>1, <2>2, SubSeqProperties, SMTT(30)
<1> HIDE DEF mid
<1>6. /\ o \o mid \in Seq(S) /\ Len(o \o mid) = Len(o) + Len(mid)
      /\ \A k \in 1 .. Len(o) + Len(mid) :
             (o \o mid)[k] = IF k <= Len(o) THEN o[k] ELSE mid[k - Len(o)]
  BY <1>5, ConcatProperties
<1>7. Len(mid) = b - 1 - n /\ Len(o \o mid) = hi /\ Len(SubSeq(t, 1, hi)) = hi
  <2>1. Len(mid) = b - 1 - n
    BY <1>2, <1>5
  <2>2. Len(o \o mid) = hi
    BY <2>1, <1>2, <1>6
  <2>3. Len(SubSeq(t, 1, hi)) = hi
    BY <1>3, <1>4
  <2> QED BY <2>1, <2>2, <2>3
<1>8. ASSUME NEW k \in 1 .. hi PROVE SubSeq(t, 1, hi)[k] = (o \o mid)[k]
  <2>1. SubSeq(t, 1, hi)[k] = t[k]
    BY <1>2, <1>4
  <2>2. CASE k <= Len(o)
    BY <2>1, <2>2, <1>1, <1>2, <1>6, <1>7
  <2>3. CASE k > Len(o)
    <3>1. (o \o mid)[k] = mid[k - Len(o)]
      BY <2>3, <1>2, <1>6, <1>7
    <3>2. k - Len(o) \in 1 .. b - 1 - n /\ n + 1 + (k - Len(o)) - 1 = k - Len(o) + n
      BY <2>3, <1>2
    <3>3. mid[k - Len(o)] = s[k - Len(o) + n]
      BY <3>2, <1>5
    <3>4. k - Len(o) + n \in n + 1 .. Len(s) /\ k = (k - Len(o) + n) - n + Len(o)
      BY <3>2, <1>2
    <3> QED BY <2>1, <3>1, <3>3, <3>4, <1>1
  <2>4. k <= Len(o) \/ k > Len(o)
    BY <1>2, <1>3
  <2> QED BY <2>2, <2>3, <2>4, Zenon
<1>9. SubSeq(t, 1, hi) = o \o mid
  BY <1>4, <1>6, <1>7, <1>8, SeqEqual
<1> QED BY <1>6, <1>7, <1>9 DEF t, mid


-----------------------------------------------------------------------------
(* The indexes of the pass                                                  *)

\* What is out replaces the first next nodes, and the numeral that is being
\* read lies in what is left.
Indexes ==
    /\ in \in Seq(Node) /\ (\E S : out \in Seq(S)) /\ next \in 0 .. Len(in)
    /\ i \in Nat /\ begin \in Nat
    /\ ~done => i > next
    /\ begin # 0 => next < begin /\ begin < i /\ i <= Len(in) + 1

\* Where the nodes that are left are in the path.
LEMMA PathElements ==
    ASSUME Indexes
    PROVE  /\ Len(path) \in Nat /\ Len(out) \in Nat /\ Len(in) \in Nat
           /\ Moved(Len(in)) = Len(path)
           /\ \A k \in next + 1 .. Len(in) : path[Moved(k)] = in[k]
<1>1. PICK S : out \in Seq(S)
  BY DEF Indexes
<1> DEFINE T == S \cup Node
<1>2. out \in Seq(T) /\ in \in Seq(T)
  BY <1>1, SeqMonotonic DEF Indexes
<1> HIDE DEF T
<1>3. next \in 0 .. Len(in)
  BY DEF Indexes
<1>4. Len(out) \in Nat /\ Len(in) \in Nat
  BY <1>2, LenProperties
<1> QED BY <1>2, <1>3, <1>4, InPlaceElements DEF path, Moved

\* A stretch of them joined in the path is the stretch the pass writes, and
\* what is behind it. Its node then is at the place of the first of them.
LEMMA SplicedIsWritten ==
    ASSUME Indexes, NEW b \in next + 1 .. Len(in) + 1, NEW e \in b .. Len(in) + 1, NEW q
    PROVE  /\ InPlace!Spliced(Moved(b), Moved(e), q)
              = IF Joins(b, e, q) THEN Written(b, e, q) \o SubSeq(in, e, Len(in)) ELSE path
           /\ \E S : Written(b, e, q) \in Seq(S) /\ in \in Seq(S)
           /\ Len(Written(b, e, q)) = Moved(b)
<1>1. PICK S : out \in Seq(S)
  BY DEF Indexes
<1> DEFINE nodes == SubSeq(in, b, e - 1)
           node == InPlace!Join(nodes, q)
           T == S \cup Node \cup {node}
           head == out \o SubSeq(in, next + 1, b - 1)
<1>2. out \in Seq(T) /\ in \in Seq(T) /\ node \in T
  BY <1>1, SeqMonotonic DEF Indexes
<1>3. next \in 0 .. Len(in) /\ Len(in) \in Nat /\ Len(out) \in Nat
  BY <1>1, LenProperties DEF Indexes
<1> HIDE DEF T
<1>4. SubSeq(path, Moved(b), Moved(e) - 1) = nodes
  BY <1>2, <1>3, InPlaceStretch DEF path, Moved
<1>5. /\ SubSeq(path, 1, Moved(b) - 1) = head
      /\ head \in Seq(T) /\ Len(head) = Moved(b) - 1
  <2>1. /\ SubSeq(path, 1, b - next + Len(out) - 1) = head
        /\ head \in Seq(T) /\ Len(head) = b - next + Len(out) - 1
    BY <1>2, <1>3, InPlaceHead DEF path
  <2>2. b - next + Len(out) - 1 = Moved(b) - 1
    BY <1>3 DEF Moved
  <2> QED BY <2>1, <2>2
<1>6. SubSeq(path, Moved(e), Len(path)) = SubSeq(in, e, Len(in))
  <2>1. Len(in) + 1 \in e .. Len(in) + 1 /\ e \in next + 1 .. Len(in) + 1
    BY <1>3
  <2>2. SubSeq(path, Moved(e), Moved(Len(in) + 1) - 1) = SubSeq(in, e, Len(in) + 1 - 1)
    BY <2>1, <1>2, <1>3, InPlaceStretch DEF path, Moved
  <2>3. Moved(Len(in) + 1) - 1 = Len(path) /\ Len(in) + 1 - 1 = Len(in)
    BY <1>3, PathElements DEF Moved
  <2> QED BY <2>2, <2>3
<1> HIDE DEF head, nodes, node
<1>7. Written(b, e, q) = head \o <<node>>
  BY DEF Written, head, node, nodes
<1>8. <<node>> \in Seq(T) /\ Len(<<node>>) = 1
  BY <1>2
<1>9. head \o <<node>> \in Seq(T) /\ Len(head \o <<node>>) = Len(head) + 1
  BY <1>5, <1>8, ConcatProperties
<1>10. Len(Written(b, e, q)) = Moved(b)
  BY <1>3, <1>5, <1>7, <1>9 DEF Moved
<1>11. InPlace!Spliced(Moved(b), Moved(e), q)
       = IF InPlace!WorthJoining(nodes, q)
         THEN head \o <<node>> \o SubSeq(in, e, Len(in)) ELSE path
  BY <1>4, <1>5, <1>6 DEF InPlace!Spliced, node
<1> QED BY <1>2, <1>7, <1>9, <1>10, <1>11 DEF Joins, nodes

-----------------------------------------------------------------------------
(* Each step of the pass is one of the rewriter that joins in place         *)

\* The numeral that is being read, if any, begins in the path.
LEMMA BeginInPath ==
    ASSUME Indexes
    PROVE  LET mapped == IF begin = 0 THEN 0 ELSE Moved(begin)
           IN  (mapped = 0) <=> (begin = 0)
BY PathElements DEF Indexes, Moved

\* A node of a number is read as one in place.
LEMMA AppendNodeReads ==
    ASSUME Indexes, AppendNode
    PROVE  Indexes' /\ InPlace!ReadNumber
<1> DEFINE from == IF begin = 0 THEN i ELSE begin
           r == InPlace!AppendAll(Reading, in[i].form)
           mapped == IF begin = 0 THEN 0 ELSE Moved(begin)
<1>1. /\ ~done /\ i <= Len(in) /\ InPlace!IsNumber(in[i], commaAsDigit, periodAsDigit)
      /\ p' = r.p /\ begin' = IF r.ok THEN from ELSE 0
      /\ i' = IF r.ok \/ r.p.err = "none" THEN i + 1 ELSE from
      /\ commaAsDigit' = (commaAsDigit /\ (r.ok \/ r.p.err # "comma"))
      /\ periodAsDigit' = (periodAsDigit /\ (r.ok \/ r.p.err # "point"))
      /\ UNCHANGED <<in, out, next, done>>
  BY DEF AppendNode, Separators
<1>2. /\ Len(path) \in Nat /\ Len(out) \in Nat /\ Len(in) \in Nat
      /\ Moved(Len(in)) = Len(path)
      /\ \A k \in next + 1 .. Len(in) : path[Moved(k)] = in[k]
  BY PathElements
<1>3. next \in 0 .. Len(in) /\ i \in next + 1 .. Len(in) /\ begin \in Nat
  BY <1>1, <1>2 DEF Indexes
<1>4. path[Moved(i)] = in[i] /\ Moved(i) <= Len(path)
  BY <1>2, <1>3 DEF Moved
<1>5. (mapped = 0) <=> (begin = 0)
  BY BeginInPath
<1>6. Reading = IF mapped = 0 THEN InPlace!NewParser ELSE p
  BY <1>5 DEF Reading
<1> HIDE DEF r
<1>7. Indexes'
  BY <1>1, <1>2, <1>3 DEF Indexes
<1>8. /\ (IF begin = 0 THEN 0 ELSE Moved(begin))'
         = IF r.ok THEN IF mapped = 0 THEN Moved(i) ELSE mapped ELSE 0
      /\ Moved(i)' = IF r.ok \/ r.p.err = "none" THEN Moved(i) + 1
                     ELSE IF mapped = 0 THEN Moved(i) ELSE mapped
      /\ UNCHANGED path
  BY <1>1, <1>2, <1>3, <1>5 DEF Moved, path, Indexes
<1>9. r = InPlace!AppendAll(IF mapped = 0 THEN InPlace!NewParser ELSE p, path[Moved(i)].form)
  BY <1>4, <1>6 DEF r
<1> HIDE DEF mapped
<1>10. InPlace!ReadNumber
  BY <1>1, <1>4, <1>8, <1>9 DEF InPlace!ReadNumber, mapped
<1> QED BY <1>7, <1>10

\* The node the pass is at, and the one before it, are in the path.
LEMMA OtherInPath ==
    ASSUME Indexes, AtOther
    PROVE  /\ i \in next + 1 .. Len(in) /\ i - 1 \in Nat
           /\ Moved(i) <= Len(path) /\ path[Moved(i)] = in[i]
           /\ begin # 0 => path[Moved(i) - 1] = in[i - 1]
<1>1. /\ Len(path) \in Nat /\ Len(out) \in Nat /\ Len(in) \in Nat
      /\ Moved(Len(in)) = Len(path)
      /\ \A k \in next + 1 .. Len(in) : path[Moved(k)] = in[k]
  BY PathElements
<1>2. next \in 0 .. Len(in) /\ i \in next + 1 .. Len(in) /\ begin \in Nat
  BY <1>1 DEF Indexes, AtOther
<1>3. path[Moved(i)] = in[i] /\ Moved(i) <= Len(path)
  BY <1>1, <1>2 DEF Moved
<1>4. ASSUME begin # 0 PROVE path[Moved(i) - 1] = in[i - 1]
  <2>1. i - 1 \in next + 1 .. Len(in)
    BY <1>1, <1>2, <1>4 DEF Indexes
  <2>2. Moved(i - 1) = Moved(i) - 1
    BY <1>1, <1>2 DEF Moved
  <2> QED BY <2>1, <2>2, <1>1
<1> QED BY <1>2, <1>3, <1>4

\* A node that is no number reads as one in place, if the parser, the path and
\* the place to go on at are the ones of the rewriter that joins in place.
LEMMA OtherReads ==
    ASSUME Indexes, AtOther, PassNode,
           LET r == InPlace!Done(p)
               separator == InPlace!EndsWithSeparator(in[i - 1], r.p)
           IN  IF begin = 0 THEN Moved(i)' = Moved(i) + 1 /\ path' = path /\ p' = p
               ELSE /\ p' = r.p
                    /\ path' = IF r.ok THEN InPlace!Spliced(Moved(begin), Moved(i), r.p)
                               ELSE IF separator
                                    THEN InPlace!Spliced(Moved(begin), Moved(i) - 1, r.p) ELSE path
                    /\ Moved(i)' = IF r.ok THEN Moved(begin) + 2
                                   ELSE IF separator THEN Moved(begin) + 3 ELSE Moved(i) + 1
    PROVE  InPlace!ReadOther
<1> DEFINE mapped == IF begin = 0 THEN 0 ELSE Moved(begin)
<1>1. /\ ~done /\ ~InPlace!IsNumber(in[i], commaAsDigit, periodAsDigit)
      /\ Moved(i) <= Len(path) /\ path[Moved(i)] = in[i]
      /\ begin # 0 => path[Moved(i) - 1] = in[i - 1]
  BY OtherInPath DEF AtOther
<1>2. (mapped = 0) <=> (begin = 0)
  BY BeginInPath
<1>3. begin' = 0 /\ mapped' = 0
      /\ commaAsDigit' = (commaAsDigit \/ in[i].form # <<InPlace!Comma>>)
      /\ periodAsDigit' = (periodAsDigit \/ in[i].form # <<InPlace!Point>>)
      /\ UNCHANGED done
  BY DEF PassNode, Comma, Point, InPlace!Comma, InPlace!Point
<1>4. CASE begin = 0
  BY <1>1, <1>2, <1>3, <1>4 DEF InPlace!ReadOther
<1>5. CASE begin # 0
  BY <1>1, <1>2, <1>3, <1>5 DEF InPlace!ReadOther
<1> QED BY <1>4, <1>5

\* A node outside a numeral is passed over, as in place.
LEMMA SkipNodeReads ==
    ASSUME Indexes, SkipNode
    PROVE  Indexes' /\ InPlace!ReadOther
<1>1. /\ AtOther /\ PassNode /\ begin = 0 /\ begin' = 0
      /\ i' = i + 1 /\ UNCHANGED <<in, out, next, p, done>>
  BY DEF SkipNode, PassNode
<1>2. Len(out) \in Nat /\ Len(in) \in Nat
  BY PathElements
<1>3. next \in 0 .. Len(in) /\ i \in next + 1 .. Len(in)
  BY <1>1, OtherInPath DEF Indexes
<1>4. Indexes'
  BY <1>1, <1>2, <1>3 DEF Indexes
<1>5. Moved(i)' = Moved(i) + 1 /\ path' = path
  BY <1>1, <1>2, <1>3 DEF Moved, path
<1> QED BY <1>1, <1>4, <1>5, OtherReads

\* Where a numeral ends before the node e, it is joined as in place, and the
\* node the pass goes on at is, in the path, as far behind the joined one.
LEMMA EmitSplices ==
    ASSUME Indexes, AtOther, begin # 0, NEW e \in begin .. i, NEW q,
           UNCHANGED <<in, done>>, begin' = 0,
           IF Joins(begin, e, q) THEN Emit(begin, e, q) /\ i' = i + 1
           ELSE i' = begin + 2 + (i - e) /\ UNCHANGED <<out, next>>
    PROVE  /\ Indexes'
           /\ path' = InPlace!Spliced(Moved(begin), Moved(e), q)
           /\ Moved(i)' = Moved(begin) + 2 + (i - e)
<1>1. Len(out) \in Nat /\ Len(in) \in Nat
  BY PathElements
<1>2. /\ next \in 0 .. Len(in) /\ i \in next + 1 .. Len(in)
      /\ begin \in next + 1 .. Len(in) + 1 /\ begin \in Nat
      /\ e \in begin .. Len(in) + 1 /\ e - 1 >= next
  BY <1>1, OtherInPath DEF Indexes
<1>3. /\ InPlace!Spliced(Moved(begin), Moved(e), q)
         = IF Joins(begin, e, q) THEN Written(begin, e, q) \o SubSeq(in, e, Len(in)) ELSE path
      /\ \E S : Written(begin, e, q) \in Seq(S) /\ in \in Seq(S)
      /\ Len(Written(begin, e, q)) = Moved(begin)
  BY <1>2, SplicedIsWritten
<1>4. CASE Joins(begin, e, q)
  <2>1. out' = Written(begin, e, q) /\ next' = e - 1 /\ i' = i + 1
    BY <1>4 DEF Emit
  <2>2. (e - 1) + 1 = e
    BY <1>2
  <2>3. path' = Written(begin, e, q) \o SubSeq(in, e, Len(in))
    BY <2>1, <2>2 DEF path
  <2>4. Moved(i)' = (i + 1) - (e - 1) + Moved(begin)
    BY <2>1, <1>3 DEF Moved
  <2>5. Moved(begin) \in Int
    BY <1>1, <1>2 DEF Moved
  <2>6. Moved(i)' = Moved(begin) + 2 + (i - e)
    BY <2>4, <2>5, <1>2
  <2>7. Indexes'
    BY <2>1, <1>1, <1>2, <1>3 DEF Indexes
  <2> QED BY <2>3, <2>6, <2>7, <1>3, <1>4
<1>5. CASE ~Joins(begin, e, q)
  <2>1. i' = begin + 2 + (i - e) /\ UNCHANGED <<out, next>>
    BY <1>5
  <2>2. path' = path
    BY <2>1 DEF path
  <2>3. Moved(i)' = Moved(begin) + 2 + (i - e)
    BY <2>1, <1>1, <1>2 DEF Moved
  <2>4. Indexes'
    BY <2>1, <1>1, <1>2 DEF Indexes
  <2> QED BY <2>2, <2>3, <2>4, <1>3, <1>5
<1> QED BY <1>4, <1>5

\* A numeral that ends as a number is spliced, as in place.
LEMMA EndNumberReads ==
    ASSUME Indexes, EndNumber
    PROVE  Indexes' /\ InPlace!ReadOther
<1>1. /\ AtOther /\ PassNode /\ begin # 0 /\ begin' = 0 /\ UNCHANGED <<in, done>>
      /\ InPlace!Done(p).ok /\ p' = InPlace!Done(p).p
      /\ IF Joins(begin, i, p') THEN Emit(begin, i, p') /\ i' = i + 1
         ELSE i' = begin + 2 /\ UNCHANGED <<out, next>>
  BY DEF EndNumber, PassNode, BackTo
<1>2. i \in Nat /\ begin \in Nat /\ begin < i
  BY <1>1 DEF Indexes
<1>3. i \in begin .. i /\ begin + 2 + (i - i) = begin + 2
  BY <1>2
<1>4. /\ Indexes'
      /\ path' = InPlace!Spliced(Moved(begin), Moved(i), p')
      /\ Moved(i)' = Moved(begin) + 2 + (i - i)
  BY <1>1, <1>3, EmitSplices
<1>5. Moved(begin) + 2 + (i - i) = Moved(begin) + 2
  BY <1>2, PathElements DEF Moved, Indexes
<1> QED BY <1>1, <1>4, <1>5, OtherReads

\* One that ends with a separator is spliced without it.
LEMMA EndSeparatedReads ==
    ASSUME Indexes, EndSeparated
    PROVE  Indexes' /\ InPlace!ReadOther
<1>1. /\ AtOther /\ PassNode /\ begin # 0 /\ begin' = 0 /\ UNCHANGED <<in, done>>
      /\ ~InPlace!Done(p).ok /\ p' = InPlace!Done(p).p
      /\ InPlace!EndsWithSeparator(in[i - 1], p')
      /\ IF Joins(begin, i - 1, p') THEN Emit(begin, i - 1, p') /\ i' = i + 1
         ELSE i' = begin + 3 /\ UNCHANGED <<out, next>>
  BY DEF EndSeparated, PassNode
<1>2. i \in Nat /\ begin \in Nat /\ begin < i /\ next \in Int /\ Len(out) \in Nat
  BY <1>1, PathElements DEF Indexes
<1>3. i - 1 \in begin .. i /\ begin + 2 + (i - (i - 1)) = begin + 3
  BY <1>2
<1>4. /\ Indexes'
      /\ path' = InPlace!Spliced(Moved(begin), Moved(i - 1), p')
      /\ Moved(i)' = Moved(begin) + 2 + (i - (i - 1))
  BY <1>1, <1>3, EmitSplices
<1>5. Moved(begin) + 2 + (i - (i - 1)) = Moved(begin) + 3 /\ Moved(i - 1) = Moved(i) - 1
  BY <1>2 DEF Moved
<1> QED BY <1>1, <1>4, <1>5, OtherReads

\* One that ends as nothing stays as it is.
LEMMA EndNothingReads ==
    ASSUME Indexes, EndNothing
    PROVE  Indexes' /\ InPlace!ReadOther
<1>1. /\ AtOther /\ PassNode /\ begin # 0 /\ begin' = 0 /\ UNCHANGED <<in, out, next, done>>
      /\ ~InPlace!Done(p).ok /\ p' = InPlace!Done(p).p /\ i' = i + 1
      /\ ~InPlace!EndsWithSeparator(in[i - 1], p')
  BY DEF EndNothing, PassNode
<1>2. Len(out) \in Nat /\ Len(in) \in Nat
  BY PathElements
<1>3. next \in 0 .. Len(in) /\ i \in next + 1 .. Len(in)
  BY <1>1, OtherInPath DEF Indexes
<1>4. Indexes'
  BY <1>1, <1>2, <1>3 DEF Indexes
<1>5. Moved(i)' = Moved(i) + 1 /\ path' = path
  BY <1>1, <1>2, <1>3 DEF Moved, path
<1> QED BY <1>1, <1>4, <1>5, OtherReads

\* Nothing is left behind the last node.
LEMMA NothingLeft ==
    ASSUME NEW S, NEW s \in Seq(S), NEW t, Len(t) \in Nat
    PROVE  s \o SubSeq(t, Len(t) + 1, Len(t)) = s
<1>1. SubSeq(t, Len(t) + 1, Len(t)) = <<>>
  BY SubSeqEmpty
<1> QED BY <1>1, ConcatEmptySeq

\* At the end the last numeral is spliced, and the rest is put out.
LEMMA ReturnEnds ==
    ASSUME Indexes, Return
    PROVE  Indexes' /\ InPlace!End
<1> DEFINE r == InPlace!Done(p)
           last == IF r.ok THEN i ELSE i - 1
           joins == /\ begin # 0 /\ Joins(begin, last, r.p)
                    /\ r.ok \/ InPlace!EndsWithSeparator(in[i - 1], r.p)
           mapped == IF begin = 0 THEN 0 ELSE Moved(begin)
<1>1. /\ ~done /\ i > Len(in) /\ p' = (IF begin = 0 THEN p ELSE r.p)
      /\ out' = IF joins THEN Written(begin, last, r.p) \o SubSeq(in, last, Len(in)) ELSE path
      /\ next' = Len(in) /\ i' = Len(in) + 1 /\ done' = TRUE /\ begin' = 0
      /\ UNCHANGED <<in, flags>>
  BY DEF Return
<1> HIDE DEF r
<1>2. /\ Len(path) \in Nat /\ Len(out) \in Nat /\ Len(in) \in Nat
      /\ Moved(Len(in)) = Len(path)
      /\ \A k \in next + 1 .. Len(in) : path[Moved(k)] = in[k]
  BY PathElements
<1>3. next \in 0 .. Len(in) /\ i \in Nat /\ begin \in Nat
  BY DEF Indexes
<1>4. (mapped = 0) <=> (begin = 0)
  BY BeginInPath
<1>5. Moved(i) > Len(path)
  BY <1>1, <1>2, <1>3 DEF Moved
\* What the rewriter that joins in place does to the path.
<1>6. /\ begin # 0 => /\ r.ok => Moved(i) = Len(path) + 1
                      /\ ~r.ok => Moved(last) = Len(path) /\ path[Len(path)] = in[i - 1]
      /\ begin # 0 => begin \in next + 1 .. Len(in) + 1 /\ last \in begin .. Len(in) + 1
  <2> SUFFICES ASSUME begin # 0
               PROVE  /\ r.ok => Moved(i) = Len(path) + 1
                      /\ ~r.ok => Moved(last) = Len(path) /\ path[Len(path)] = in[i - 1]
                      /\ begin \in next + 1 .. Len(in) + 1 /\ last \in begin .. Len(in) + 1
    OBVIOUS
  <2>1. next < begin /\ begin < i /\ i = Len(in) + 1
    BY <1>1, <1>2, <1>3 DEF Indexes
  <2>2. Moved(i) = Len(path) + 1
    <3>1. /\ next \in Int /\ i = Len(in) + 1 /\ Len(in) \in Int /\ Len(out) \in Int
          /\ Moved(Len(in)) = Len(path)
      BY <2>1, <1>2, <1>3
    <3>2. Moved(i) = i - next + Len(out) /\ Moved(Len(in)) = Len(in) - next + Len(out)
      BY DEF Moved
    <3> QED BY <3>1, <3>2
  <2>3. i - 1 = Len(in) /\ Len(in) \in next + 1 .. Len(in)
    BY <2>1, <1>2, <1>3
  <2>4. path[Len(path)] = in[i - 1] /\ Moved(i - 1) = Len(path)
    BY <2>3, <1>2
  <2> QED BY <2>1, <2>2, <2>4, <1>2, <1>3
<1>7. begin # 0 => /\ InPlace!Spliced(Moved(begin), Moved(last), r.p)
                      = IF Joins(begin, last, r.p)
                        THEN Written(begin, last, r.p) \o SubSeq(in, last, Len(in)) ELSE path
                   /\ \E S : Written(begin, last, r.p) \in Seq(S) /\ in \in Seq(S)
  BY <1>6, SplicedIsWritten
<1> HIDE DEF last
<1>8. \E S : out' \in Seq(S)
  <2>1. CASE joins
    <3>1. PICK S : Written(begin, last, r.p) \in Seq(S) /\ in \in Seq(S)
      BY <2>1, <1>7
    <3>2. SubSeq(in, last, Len(in)) \in Seq(S)
      <4>1. last \in Nat \ {0} /\ last \in 1 .. Len(in) + 1
        BY <2>1, <1>2, <1>3, <1>6
      <4>2. \A k \in last .. Len(in) : in[k] \in S
        BY <3>1, <4>1, <1>2, ElementOfSeq
      <4> QED BY <4>1, <4>2, <1>2, SubSeqProperties
    <3>3. Written(begin, last, r.p) \o SubSeq(in, last, Len(in)) \in Seq(S)
      BY <3>1, <3>2, ConcatProperties
    <3> QED BY <2>1, <3>3, <1>1
  <2>2. CASE ~joins
    <3>1. PICK S : out \in Seq(S)
      BY DEF Indexes
    <3>2. out \in Seq(S \cup Node) /\ in \in Seq(S \cup Node)
      BY <3>1, SeqMonotonic DEF Indexes
    <3>3. path \in Seq(S \cup Node)
      BY <3>2, <1>3, InPlaceElements DEF path
    <3> QED BY <2>2, <3>3, <1>1
  <2> QED BY <2>1, <2>2
<1>9. Indexes'
  BY <1>1, <1>2, <1>3, <1>8 DEF Indexes
<1>10. path' = out' /\ Moved(i)' = Len(path') + 1
  <2>1. path' = out' \o SubSeq(in, Len(in) + 1, Len(in))
    BY <1>1 DEF path
  <2>2. path' = out'
    BY <2>1, <1>2, <1>8, NothingLeft
  <2>3. Moved(i)' = (Len(in) + 1) - Len(in) + Len(out')
    BY <1>1 DEF Moved
  <2>4. Len(out') \in Nat
    BY <1>8, LenProperties
  <2> QED BY <2>2, <2>3, <2>4, <1>2
<1>11. mapped' = 0 /\ UNCHANGED <<commaAsDigit, periodAsDigit>>
  BY <1>1 DEF flags
<1>12. CASE begin = 0
  <2>1. path' = path /\ p' = p
    BY <1>1, <1>10, <1>12
  <2> QED BY <2>1, <1>1, <1>4, <1>5, <1>9, <1>10, <1>11, <1>12 DEF InPlace!End, InPlace!flags
<1>13. CASE begin # 0
  <2>1. path' = IF r.ok THEN InPlace!Spliced(Moved(begin), Len(path) + 1, r.p)
                ELSE IF InPlace!EndsWithSeparator(path[Len(path)], r.p)
                     THEN InPlace!Spliced(Moved(begin), Len(path), r.p) ELSE path
    BY <1>1, <1>6, <1>7, <1>10, <1>13 DEF last
  <2>2. p' = r.p
    BY <1>1, <1>13
  <2> QED BY <2>1, <2>2, <1>1, <1>4, <1>5, <1>9, <1>10, <1>11, <1>13
          DEF InPlace!End, InPlace!flags, r
<1> QED BY <1>9, <1>12, <1>13

-----------------------------------------------------------------------------
(* From the first step to the last                                          *)

\* Before anything is put out, the path is the one it is given.
LEMMA Starts ==
    ASSUME Init
    PROVE  Indexes /\ InPlace!Init
<1>1. in \in Seq(Node) /\ in \in Paths
  BY PathsAssumption DEF Init
<1>2. out = <<>> /\ Len(out) = 0 /\ out \in Seq(Node) /\ next = 0 /\ i = 1 /\ begin = 0
  BY DEF Init
<1>3. Len(in) \in Nat
  BY <1>1, LenProperties
<1>4. path = in /\ Moved(i) = 1
  <2>1. SubSeq(in, 1, Len(in)) = in
    BY <1>1, SubSeqFull
  <2>2. <<>> \o in = in
    BY <1>1, ConcatEmptySeq
  <2> QED BY <2>1, <2>2, <1>2 DEF path, Moved
<1>5. Indexes
  BY <1>1, <1>2, <1>3 DEF Indexes
<1> QED BY <1>1, <1>2, <1>4, <1>5 DEF Init, InPlace!Init

\* Every iteration of the pass is an iteration of the rewriter that joins in
\* place, on the path the two slices stand for.
LEMMA Steps ==
    ASSUME Indexes, [Next]_vars
    PROVE  Indexes' /\ [InPlace!Next]_(InPlace!vars)
<1>1. CASE AppendNode
  BY <1>1, AppendNodeReads DEF InPlace!Next
<1>2. CASE SkipNode
  BY <1>2, SkipNodeReads DEF InPlace!Next
<1>3. CASE EndNumber
  BY <1>3, EndNumberReads DEF InPlace!Next
<1>4. CASE EndSeparated
  BY <1>4, EndSeparatedReads DEF InPlace!Next
<1>5. CASE EndNothing
  BY <1>5, EndNothingReads DEF InPlace!Next
<1>6. CASE Return
  BY <1>6, ReturnEnds DEF InPlace!Next
<1>7. CASE UNCHANGED vars
  BY <1>7 DEF vars, flags, Indexes, path, Moved, InPlace!vars, InPlace!flags
<1> QED BY <1>1, <1>2, <1>3, <1>4, <1>5, <1>6, <1>7 DEF Next

\* For every set of paths, of any nodes, the pass of JoinNumeric.Rewrite makes
\* step for step the path that the rewriter of equivalence_test.go makes, which
\* joins in the path itself (pathrewrite.go:27).
THEOREM SpecJoinsInPlace == Spec => JoinsInPlace
<1>1. Init => Indexes /\ InPlace!Init
  BY Starts
<1>2. Indexes /\ [Next]_vars => Indexes' /\ [InPlace!Next]_(InPlace!vars)
  BY Steps
<1> QED BY <1>1, <1>2, PTL DEF Spec, JoinsInPlace, InPlace!Spec

-----------------------------------------------------------------------------
(* No node is lost                                                          *)

Form == Seq(Characters)
Made(S) == \A n \in S : n.parts \in Seq(Form)

\* What out holds, too, is made of nodes.
Whole == (\E S : out \in Seq(S) /\ Made(S)) /\ PartsKept

\* The parts of two paths, one behind the other.
LEMMA PartsConcat ==
    ASSUME NEW S, Made(S), NEW s \in Seq(S), NEW t \in Seq(S)
    PROVE  Parts(s \o t) = Parts(s) \o Parts(t) /\ Parts(s) \in Seq(Form)
<1> DEFINE each(q) == [k \in DOMAIN q |-> q[k].parts]
<1>1. ASSUME NEW q \in Seq(S)
      PROVE  /\ each(q) \in Seq(Seq(Form)) /\ Len(each(q)) = Len(q)
             /\ \A k \in 1 .. Len(q) : each(q)[k] = q[k].parts
  <2> DEFINE W == Seq(Form)
  <2>1. Len(q) \in Nat /\ DOMAIN q = 1 .. Len(q)
    BY LenProperties
  <2>2. \A k \in 1 .. Len(q) : q[k].parts \in W
    BY ElementOfSeq DEF Made
  <2>3. each(q) \in [1 .. Len(q) -> W] /\ \A k \in 1 .. Len(q) : each(q)[k] = q[k].parts
    BY <2>1, <2>2
  <2> HIDE DEF each, W
  <2>4. each(q) \in Seq(W) /\ Len(each(q)) = Len(q)
    BY <2>1, <2>3, SMTT(30)
  <2> QED BY <2>3, <2>4 DEF W
<1> HIDE DEF each
<1>2. /\ s \o t \in Seq(S) /\ Len(s \o t) = Len(s) + Len(t)
      /\ \A k \in 1 .. Len(s) + Len(t) : (s \o t)[k] = IF k <= Len(s) THEN s[k] ELSE t[k - Len(s)]
  BY ConcatProperties
<1>3. Len(s) \in Nat /\ Len(t) \in Nat
  BY LenProperties
<1>4. each(s \o t) = each(s) \o each(t)
  <2>1. /\ each(s) \in Seq(Seq(Form)) /\ Len(each(s)) = Len(s)
        /\ \A k \in 1 .. Len(s) : each(s)[k] = s[k].parts
    BY <1>1
  <2>2. /\ each(t) \in Seq(Seq(Form)) /\ Len(each(t)) = Len(t)
        /\ \A k \in 1 .. Len(t) : each(t)[k] = t[k].parts
    BY <1>1
  <2>3. /\ each(s \o t) \in Seq(Seq(Form)) /\ Len(each(s \o t)) = Len(s) + Len(t)
        /\ \A k \in 1 .. Len(s) + Len(t) : each(s \o t)[k] = (s \o t)[k].parts
    BY <1>1, <1>2
  <2>4. /\ each(s) \o each(t) \in Seq(Seq(Form))
        /\ Len(each(s) \o each(t)) = Len(s) + Len(t)
        /\ \A k \in 1 .. Len(s) + Len(t) :
              (each(s) \o each(t))[k] = IF k <= Len(s) THEN each(s)[k] ELSE each(t)[k - Len(s)]
    <3> DEFINE W == Seq(Form)
               es == each(s)
               et == each(t)
    <3>1. es \in Seq(W) /\ et \in Seq(W) /\ Len(es) = Len(s) /\ Len(et) = Len(t)
      BY <2>1, <2>2
    <3> HIDE DEF W, es, et
    <3>2. /\ es \o et \in Seq(W) /\ Len(es \o et) = Len(es) + Len(et)
          /\ \A k \in 1 .. Len(es) + Len(et) :
                (es \o et)[k] = IF k <= Len(es) THEN es[k] ELSE et[k - Len(es)]
      BY <3>1, ConcatProperties
    <3> QED BY <3>1, <3>2 DEF W, es, et
  <2>5. ASSUME NEW k \in 1 .. Len(s) + Len(t)
        PROVE  each(s \o t)[k] = (each(s) \o each(t))[k]
    <3>1. CASE k <= Len(s)
      <4>1. k \in 1 .. Len(s)
        BY <1>3, <3>1
      <4>2. each(s \o t)[k] = s[k].parts
        BY <1>2, <2>3, <3>1
      <4> QED BY <2>1, <2>4, <3>1, <4>1, <4>2
    <3>2. CASE ~(k <= Len(s))
      <4>1. k - Len(s) \in 1 .. Len(t)
        BY <1>3, <3>2
      <4>2. each(s \o t)[k] = t[k - Len(s)].parts
        BY <1>2, <2>3, <3>2
      <4> QED BY <2>2, <2>4, <3>2, <4>1, <4>2
    <3> QED BY <3>1, <3>2
  <2> QED BY <2>3, <2>4, <2>5, SeqEqual
<1>5. Parts(s \o t) = FlattenSeq(each(s \o t)) /\ Parts(s) = FlattenSeq(each(s))
      /\ Parts(t) = FlattenSeq(each(t))
  BY DEF Parts, each
<1>6. FlattenSeq(each(s) \o each(t)) = FlattenSeq(each(s)) \o FlattenSeq(each(t))
  BY <1>1, FlattenConcat
<1>7. FlattenSeq(each(s)) \in Seq(Form)
  BY <1>1, <1>3, FlattenElements
<1> QED BY <1>4, <1>5, <1>6, <1>7

\* A joined node has the parts of the nodes it was joined from.
LEMMA JoinedParts ==
    ASSUME NEW nodes, NEW q
    PROVE  InPlace!Join(nodes, q).parts = Parts(nodes)
BY DEF InPlace!Join, InPlace!JoinNodes, Parts, InPlace!FlattenSeq, FlattenSeq

LEMMA PartsOfOne ==
    ASSUME NEW n, n.parts \in Seq(Form)
    PROVE  Parts(<<n>>) = n.parts
<1>1. [k \in DOMAIN <<n>> |-> <<n>>[k].parts] = <<n.parts>>
  OBVIOUS
<1>2. FlattenSeq(<<n.parts>>) = n.parts
  BY FlattenOne
<1> QED BY <1>1, <1>2 DEF Parts

\* The path after a join: the joined node stands for the stretch it replaces.
LEMMA WrittenKeeps ==
    ASSUME Indexes, Whole, NEW b \in next + 1 .. Len(in) + 1, NEW e \in b .. Len(in) + 1, NEW q
    PROVE  /\ \E S : Written(b, e, q) \in Seq(S) /\ in \in Seq(S) /\ Made(S)
           /\ Parts(Written(b, e, q) \o SubSeq(in, e, Len(in))) = Parts(in)
<1> DEFINE gap == SubSeq(in, next + 1, b - 1)
           nodes == SubSeq(in, b, e - 1)
           rest == SubSeq(in, e, Len(in))
           node == InPlace!Join(nodes, q)
<1>1. PICK S : out \in Seq(S) /\ Made(S)
  BY DEF Whole
<1>2. in \in Seq(Node) /\ next \in 0 .. Len(in) /\ Len(in) \in Nat
  BY LenProperties DEF Indexes
<1>3. Made(Node)
  BY DEF Made, Node, Form
<1>4. /\ gap \in Seq(Node) /\ nodes \in Seq(Node) /\ rest \in Seq(Node)
      /\ SubSeq(in, next + 1, Len(in)) = gap \o (nodes \o rest)
      /\ SubSeq(in, next + 1, Len(in)) \in Seq(Node)
  <2>1. \A k \in 1 .. Len(in) : in[k] \in Node
    BY <1>2, ElementOfSeq
  <2>2. \A x \in 1 .. Len(in) + 1 : \A y \in 0 .. Len(in) : SubSeq(in, x, y) \in Seq(Node)
    <3> SUFFICES ASSUME NEW x \in 1 .. Len(in) + 1, NEW y \in 0 .. Len(in)
                 PROVE  SubSeq(in, x, y) \in Seq(Node)
      OBVIOUS
    <3>1. x \in Int /\ y \in Int /\ \A k \in x .. y : in[k] \in Node
      BY <1>2, <2>1
    <3> QED BY <3>1, SubSeqProperties
  <2>3. /\ next + 1 \in 1 .. Len(in) + 1 /\ b \in 1 .. Len(in) + 1 /\ e \in 1 .. Len(in) + 1
        /\ b - 1 \in next + 1 - 1 .. Len(in) /\ b - 1 \in 0 .. Len(in)
        /\ e - 1 \in b - 1 .. Len(in) /\ e - 1 \in 0 .. Len(in)
        /\ Len(in) \in b - 1 .. Len(in) /\ Len(in) \in e - 1 .. Len(in) /\ Len(in) \in 0 .. Len(in)
        /\ (b - 1) + 1 = b /\ (e - 1) + 1 = e
    BY <1>2
  <2>4. gap \o SubSeq(in, (b - 1) + 1, Len(in)) = SubSeq(in, next + 1, Len(in))
    <3> DEFINE m == next + 1
               k == b - 1
    <3>1. m \in 1 .. Len(in) + 1 /\ k \in m - 1 .. Len(in) /\ Len(in) \in k .. Len(in)
      BY <2>3
    <3> HIDE DEF m, k
    <3>2. SubSeq(in, m, k) \o SubSeq(in, k + 1, Len(in)) = SubSeq(in, m, Len(in))
      BY <1>2, <3>1, ConcatAdjacentSubSeq
    <3> QED BY <3>2 DEF m, k
  <2>5. nodes \o SubSeq(in, (e - 1) + 1, Len(in)) = SubSeq(in, b, Len(in))
    BY <1>2, <2>3, ConcatAdjacentSubSeq
  <2> QED BY <2>2, <2>3, <2>4, <2>5
<1>5. Parts(nodes) \in Seq(Form) /\ Parts(rest) \in Seq(Form) /\ Parts(gap) \in Seq(Form)
  BY <1>3, <1>4, PartsConcat
<1>6. node.parts = Parts(nodes)
  BY JoinedParts
<1> DEFINE T == S \cup Node \cup {node}
<1>7. Made(T) /\ S \subseteq T /\ Node \subseteq T /\ node \in T
  BY <1>1, <1>3, <1>5, <1>6 DEF Made
<1>8. /\ out \in Seq(T) /\ in \in Seq(T) /\ gap \in Seq(T) /\ nodes \in Seq(T) /\ rest \in Seq(T)
      /\ <<node>> \in Seq(T)
  BY <1>1, <1>2, <1>4, <1>7, SeqMonotonic
<1> HIDE DEF T, gap, nodes, rest, node
<1>9. nodes \o rest \in Seq(T) /\ gap \o (nodes \o rest) \in Seq(T)
      /\ out \o gap \in Seq(T) /\ (out \o gap) \o <<node>> \in Seq(T)
      /\ out \in Seq(T)
  BY <1>8, ConcatProperties
<1>10. Written(b, e, q) = (out \o gap) \o <<node>>
  BY DEF Written, gap, node, nodes
<1>11. /\ Parts(out) \in Seq(Form) /\ Parts(out \o gap) = Parts(out) \o Parts(gap)
       /\ Parts((out \o gap) \o <<node>>) = Parts(out \o gap) \o Parts(<<node>>)
       /\ Parts(((out \o gap) \o <<node>>) \o rest)
          = Parts((out \o gap) \o <<node>>) \o Parts(rest)
       /\ Parts(nodes \o rest) = Parts(nodes) \o Parts(rest)
       /\ Parts(gap \o (nodes \o rest)) = Parts(gap) \o Parts(nodes \o rest)
       /\ Parts(out \o (gap \o (nodes \o rest))) = Parts(out) \o Parts(gap \o (nodes \o rest))
  BY <1>7, <1>8, <1>9, PartsConcat
<1>12. Parts(<<node>>) = Parts(nodes)
  BY <1>5, <1>6, PartsOfOne
<1>13. path = out \o (gap \o (nodes \o rest))
  BY <1>4 DEF path
<1>14. ((Parts(out) \o Parts(gap)) \o Parts(nodes)) \o Parts(rest)
       = Parts(out) \o (Parts(gap) \o (Parts(nodes) \o Parts(rest)))
  <2> DEFINE o == Parts(out)
             g == Parts(gap)
             n == Parts(nodes)
             r == Parts(rest)
  <2>1. o \in Seq(Form) /\ g \in Seq(Form) /\ n \in Seq(Form) /\ r \in Seq(Form)
    BY <1>5, <1>11
  <2> HIDE DEF o, g, n, r
  <2>2. \A x, y, z \in Seq(Form) : (x \o y) \o z = x \o (y \o z)
    BY ConcatAssociative
  <2>3. o \o g \in Seq(Form) /\ n \o r \in Seq(Form)
    BY <2>1, ConcatProperties
  <2>4. ((o \o g) \o n) \o r = (o \o g) \o (n \o r)
    BY <2>1, <2>2, <2>3, ZenonT(60)
  <2>5. (o \o g) \o (n \o r) = o \o (g \o (n \o r))
    BY <2>1, <2>2, <2>3, ZenonT(60)
  <2> QED BY <2>4, <2>5 DEF o, g, n, r
<1>15. Parts(((out \o gap) \o <<node>>) \o rest) = Parts(path)
  BY <1>11, <1>12, <1>13, <1>14
<1>16. Parts(path) = Parts(in)
  BY DEF Whole, PartsKept
<1>17. Written(b, e, q) \in Seq(T) /\ in \in Seq(T) /\ Made(T)
  BY <1>7, <1>8, <1>9, <1>10
<1> QED BY <1>10, <1>15, <1>16, <1>17 DEF rest

LEMMA WholeStarts == Init => Whole
<1> SUFFICES ASSUME Init PROVE Whole
  OBVIOUS
<1>1. in \in Seq(Node) /\ out = <<>> /\ next = 0
  BY PathsAssumption DEF Init
<1>2. path = in
  <2>1. SubSeq(in, 1, Len(in)) = in
    BY <1>1, SubSeqFull
  <2>2. <<>> \o in = in
    BY <1>1, ConcatEmptySeq
  <2> QED BY <1>1, <2>1, <2>2 DEF path
<1>3. Made(Node) /\ out \in Seq(Node)
  BY <1>1 DEF Made, Node, Form
<1> QED BY <1>2, <1>3 DEF Whole, PartsKept

\* Where the numeral ends, what is put out stands for the nodes before the end.
LEMMA EmitKeeps ==
    ASSUME Indexes, Whole, UNCHANGED in,
           NEW b \in next + 1 .. Len(in) + 1, NEW e \in b .. Len(in) + 1, NEW q,
           IF Joins(b, e, q) THEN Emit(b, e, q) ELSE UNCHANGED <<out, next>>
    PROVE  Whole'
<1>1. /\ \E S : Written(b, e, q) \in Seq(S) /\ in \in Seq(S) /\ Made(S)
      /\ Parts(Written(b, e, q) \o SubSeq(in, e, Len(in))) = Parts(in)
  BY WrittenKeeps
<1>2. CASE Joins(b, e, q)
  <2>1. out' = Written(b, e, q) /\ next' = e - 1 /\ (e - 1) + 1 = e
    BY <1>2 DEF Emit, Indexes
  <2>2. path' = Written(b, e, q) \o SubSeq(in, e, Len(in))
    BY <2>1 DEF path
  <2>3. PartsKept'
    BY <1>1, <2>2 DEF PartsKept, Parts
  <2>4. \E S : out' \in Seq(S) /\ Made(S)
    BY <1>1, <2>1
  <2> QED BY <2>3, <2>4 DEF Whole, Made
<1>3. CASE ~Joins(b, e, q)
  BY <1>3 DEF Whole, PartsKept, Parts, path
<1> QED BY <1>2, <1>3

LEMMA ReturnKeeps ==
    ASSUME Indexes, Whole, Return
    PROVE  Whole'
<1> DEFINE r == InPlace!Done(p)
           last == IF r.ok THEN i ELSE i - 1
           joins == /\ begin # 0 /\ Joins(begin, last, r.p)
                    /\ r.ok \/ InPlace!EndsWithSeparator(in[i - 1], r.p)
<1>1. /\ i > Len(in) /\ next' = Len(in) /\ in' = in
      /\ out' = IF joins THEN Written(begin, last, r.p) \o SubSeq(in, last, Len(in)) ELSE path
  BY DEF Return
<1>2. in \in Seq(Node) /\ next \in 0 .. Len(in) /\ Len(in) \in Nat /\ i \in Nat /\ begin \in Nat
  BY LenProperties DEF Indexes
<1>3. Parts(path) = Parts(in)
  BY DEF Whole, PartsKept
<1> HIDE DEF r
<1>4. (\E S : out' \in Seq(S) /\ Made(S)) /\ Parts(out') = Parts(in)
  <2>1. CASE joins
    <3>1. begin \in next + 1 .. Len(in) + 1 /\ last \in begin .. Len(in) + 1
      BY <2>1, <1>1, <1>2 DEF Indexes
    <3>2. PICK S : Written(begin, last, r.p) \in Seq(S) /\ in \in Seq(S) /\ Made(S)
      BY <3>1, WrittenKeeps
    <3>3. Parts(Written(begin, last, r.p) \o SubSeq(in, last, Len(in))) = Parts(in)
      BY <3>1, WrittenKeeps
    <3>4. SubSeq(in, last, Len(in)) \in Seq(S)
      <4>1. last \in Int /\ Len(in) \in Int /\ \A k \in last .. Len(in) : in[k] \in S
        BY <1>2, <3>1, <3>2, ElementOfSeq
      <4> QED BY <4>1, SubSeqProperties
    <3>5. Written(begin, last, r.p) \o SubSeq(in, last, Len(in)) \in Seq(S)
      BY <3>2, <3>4, ConcatProperties
    <3> QED BY <1>1, <2>1, <3>2, <3>3, <3>5
  <2>2. CASE ~joins
    <3>1. PICK S : out \in Seq(S) /\ Made(S)
      BY DEF Whole
    <3>2. Made(S \cup Node)
      BY <3>1 DEF Made, Node, Form
    <3>3. out \in Seq(S \cup Node) /\ in \in Seq(S \cup Node)
      BY <1>2, <3>1, SeqMonotonic
    <3>4. path \in Seq(S \cup Node)
      BY <3>3, <1>2, InPlaceElements DEF path
    <3> QED BY <1>1, <1>3, <2>2, <3>2, <3>4
  <2> QED BY <2>1, <2>2
<1>5. path' = out'
  <2>1. path' = out' \o SubSeq(in, Len(in) + 1, Len(in))
    BY <1>1 DEF path
  <2> QED BY <2>1, <1>2, <1>4, NothingLeft
<1> QED BY <1>1, <1>4, <1>5 DEF Whole, PartsKept, Parts, Made

LEMMA WholeKept ==
    ASSUME Indexes, Whole, [Next]_vars
    PROVE  Whole'
<1>1. ASSUME UNCHANGED <<in, out, next>>
      PROVE  Whole'
  BY <1>1 DEF Whole, PartsKept, Parts, path, Made
<1>2. CASE AppendNode
  BY <1>1, <1>2 DEF AppendNode
<1>3. CASE SkipNode
  BY <1>1, <1>3 DEF SkipNode, PassNode
<1>4. ASSUME AtOther, begin # 0
      PROVE  /\ begin \in next + 1 .. Len(in) + 1
             /\ i \in begin .. Len(in) + 1 /\ i - 1 \in begin .. Len(in) + 1
  <2>1. Len(in) \in Nat
    BY PathElements
  <2> QED BY <1>4, <2>1 DEF Indexes, AtOther
<1>5. CASE EndNumber
  BY <1>4, <1>5, EmitKeeps DEF EndNumber, PassNode
<1>6. CASE EndSeparated
  BY <1>4, <1>6, EmitKeeps DEF EndSeparated, PassNode
<1>7. CASE EndNothing
  BY <1>1, <1>7 DEF EndNothing, PassNode
<1>8. CASE Return
  BY <1>8, ReturnKeeps
<1>9. CASE UNCHANGED vars
  BY <1>1, <1>9 DEF vars
<1> QED BY <1>2, <1>3, <1>5, <1>6, <1>7, <1>8, <1>9 DEF Next

\* For every path and whatever the parser answers, no node is lost, repeated or
\* moved by the pass, however often it goes back (pathrewrite.go:28-99).
THEOREM SpecPartsKept == Spec => []PartsKept
<1>1. Init => Indexes /\ Whole
  BY Starts, WholeStarts
<1>2. Indexes /\ Whole /\ [Next]_vars => Indexes' /\ Whole'
  BY Steps, WholeKept
<1>3. Whole => PartsKept
  BY DEF Whole
<1> QED BY <1>1, <1>2, <1>3, PTL DEF Spec

-----------------------------------------------------------------------------
(* The parser keeps its type                                                *)

Answer == [ok : BOOLEAN, p : Parser]

LEMMA DecimalFields ==
    ASSUME NEW d \in Decimal, NEW s \in Seq(Digits), NEW x \in {-1} \cup Nat, NEW y \in Nat
    PROVE  /\ [d EXCEPT !.point = x, !.scale = y] \in Decimal
           /\ [d EXCEPT !.digits = s, !.scale = y] \in Decimal
BY DEF Decimal

LEMMA NormalizedDecimal ==
    ASSUME NEW d \in Decimal
    PROVE  InPlace!NormalizeScale(d) \in Decimal /\ InPlace!NormalizeScale(d).digits = d.digits
<1> DEFINE fraction == Len(d.digits) - d.point
<1>1. /\ d.digits \in Seq(Digits) /\ d.scale \in Nat /\ d.point \in {-1} \cup Nat
      /\ d.allZero \in BOOLEAN /\ Len(d.digits) \in Nat
  BY LenProperties DEF Decimal
<1>2. CASE d.point < 0
  BY <1>2 DEF InPlace!NormalizeScale
<1>3. CASE ~(d.point < 0) /\ fraction > d.scale
  <2>1. InPlace!NormalizeScale(d) = [d EXCEPT !.point = @ + d.scale, !.scale = 0]
    BY <1>3 DEF InPlace!NormalizeScale
  <2>2. d.point + d.scale \in {-1} \cup Nat /\ 0 \in Nat
    BY <1>1, <1>3
  <2> DEFINE x == d.point + d.scale
             y == 0
  <2>3. x \in {-1} \cup Nat /\ y \in Nat /\ InPlace!NormalizeScale(d) = [d EXCEPT !.point = x, !.scale = y]
    BY <2>1, <2>2
  <2>4. InPlace!NormalizeScale(d) \in Decimal
    <3> HIDE DEF x, y
    <3>1. [d EXCEPT !.point = x, !.scale = y] \in Decimal
      BY <1>1, <2>3 DEF Decimal
    <3> QED BY <2>3, <3>1
  <2> QED BY <2>4, <2>3
<1>4. CASE ~(d.point < 0) /\ ~(fraction > d.scale)
  <2>1. InPlace!NormalizeScale(d) = [d EXCEPT !.scale = @ - fraction, !.point = -1]
    BY <1>4 DEF InPlace!NormalizeScale
  <2>2. d.scale - fraction \in Nat
    BY <1>1, <1>4
  <2> HIDE DEF fraction
  <2> QED BY <1>1, <2>1, <2>2 DEF Decimal
<1> QED BY <1>2, <1>3, <1>4

LEMMA SumDecimal ==
    ASSUME NEW d \in Decimal, NEW o \in Decimal
    PROVE  InPlace!Add(d, o) \in Decimal
<1> DEFINE a == InPlace!NormalizeScale(d)
           b == InPlace!NormalizeScale(o)
           n == a.scale - InPlace!IntLength(b)
           head == a.digits \o InPlace!Zeros(n)
<1>1. a \in Decimal /\ b \in Decimal
  BY NormalizedDecimal
<1> HIDE DEF a, b
<1>2. /\ a.digits \in Seq(Digits) /\ a.scale \in Nat /\ a.point \in {-1} \cup Nat /\ a.allZero \in BOOLEAN
      /\ b.digits \in Seq(Digits) /\ b.scale \in Nat /\ b.point \in {-1} \cup Nat
      /\ Len(a.digits) \in Nat /\ Len(b.digits) \in Nat
  BY <1>1, LenProperties DEF Decimal
<1>3. InPlace!IntLength(b) \in Nat
  BY <1>2 DEF InPlace!IntLength
<1>4. CASE InPlace!IsZero(o)
  BY <1>4 DEF InPlace!Add
<1>5. CASE ~InPlace!IsZero(o) /\ InPlace!IsZero(d)
  BY <1>5 DEF InPlace!Add, Decimal
<1>6. CASE ~InPlace!IsZero(o) /\ ~InPlace!IsZero(d) /\ ~InPlace!Fits(d, o)
  BY <1>1, <1>6 DEF InPlace!Add, a
<1>7. CASE ~InPlace!IsZero(o) /\ ~InPlace!IsZero(d) /\ InPlace!Fits(d, o)
  <2>1. InPlace!Add(d, o) = [a EXCEPT !.digits = head \o b.digits, !.scale = b.scale,
                              !.point = IF b.point >= 0 THEN Len(head) + b.point ELSE @]
    BY <1>7 DEF InPlace!Add, a, b
  <2>2. n \in Nat
    BY <1>2, <1>3, <1>7 DEF InPlace!Fits, a, b
  <2> HIDE DEF n
  <2>3. InPlace!Zeros(n) \in Seq(Digits)
    BY <2>2 DEF InPlace!Zeros, Digits
  <2>4. head \in Seq(Digits) /\ Len(head) \in Nat
    BY <1>2, <2>3, ConcatProperties, LenProperties
  <2> HIDE DEF head
  <2>5. head \o b.digits \in Seq(Digits)
    BY <1>2, <2>4, ConcatProperties
  <2>6. (IF b.point >= 0 THEN Len(head) + b.point ELSE a.point) \in {-1} \cup Nat
    BY <1>2, <2>4
  <2> QED BY <1>1, <1>2, <2>1, <2>5, <2>6 DEF Decimal
<1> QED BY <1>4, <1>5, <1>6, <1>7

LEMMA ShiftedDecimal ==
    ASSUME NEW d \in Decimal, NEW n \in Nat
    PROVE  InPlace!ShiftScale(d, n) \in Decimal
<1>1. <<1>> \in Seq(Digits)
  BY DEF Digits
<1>2. /\ d.digits \in Seq(Digits) /\ d.scale \in Nat /\ d.point \in {-1} \cup Nat
      /\ d.allZero \in BOOLEAN
  BY DEF Decimal
<1>3. (IF d.digits = <<>> THEN <<1>> ELSE d.digits) \in Seq(Digits) /\ d.scale + n \in Nat
  BY <1>1, <1>2
<1>4. InPlace!ShiftScale(d, n) = [d EXCEPT !.digits = IF d.digits = <<>> THEN <<1>> ELSE d.digits,
                                   !.scale = d.scale + n]
  BY DEF InPlace!ShiftScale
<1> DEFINE digits == IF d.digits = <<>> THEN <<1>> ELSE d.digits
<1>5. InPlace!ShiftScale(d, n) = [d EXCEPT !.digits = digits, !.scale = d.scale + n]
  BY <1>4
<1>6. digits \in Seq(Digits)
  BY <1>3
<1> HIDE DEF digits
<1> QED BY <1>2, <1>3, <1>5, <1>6 DEF Decimal

LEMMA NewDecimalType == InPlace!NewDecimal \in Decimal /\ InPlace!NewParser \in Parser
BY DEF InPlace!NewDecimal, Decimal, InPlace!NewParser, Parser

LEMMA CharAnswers ==
    ASSUME NEW q \in Parser, NEW c \in Characters
    PROVE  InPlace!AppendChar(q, c) \in Answer
<1>1. /\ q.digitLen \in Nat /\ q.isFirstDigit \in BOOLEAN /\ q.hasComma \in BOOLEAN
      /\ q.hasHangingPoint \in BOOLEAN /\ q.err \in {"none", "point", "comma"}
      /\ q.total \in Decimal /\ q.subtotal \in Decimal /\ q.tmp \in Decimal
  BY DEF Parser
<1>2. InPlace!NewDecimal \in Decimal
  BY NewDecimalType
<1>3. InPlace!AppendComma(q) \in Answer
  BY <1>1 DEF InPlace!AppendComma, InPlace!Yes, InPlace!No, InPlace!NoFor, Answer, Parser
<1>4. InPlace!AppendPoint(q) \in Answer
  <2>1. Len(q.tmp.digits) \in Nat
    BY <1>1, LenProperties DEF Decimal
  <2>2. [q.tmp EXCEPT !.point = Len(q.tmp.digits)] \in Decimal
    BY <1>1, <2>1 DEF Decimal
  <2> QED BY <1>1, <2>2 DEF InPlace!AppendPoint, InPlace!Yes, InPlace!No, InPlace!NoFor, Answer, Parser
<1>5. ASSUME c \in SmallUnits PROVE InPlace!AppendSmallUnit(q, -c) \in Answer
  <2>1. -c \in Nat
    BY <1>5 DEF SmallUnits
  <2>2. InPlace!ShiftScale(q.tmp, -c) \in Decimal
    BY <1>1, <2>1, ShiftedDecimal
  <2>3. InPlace!Add(q.subtotal, InPlace!ShiftScale(q.tmp, -c)) \in Decimal
    BY <1>1, <2>2, SumDecimal
  <2> QED BY <1>1, <1>2, <2>2, <2>3 DEF InPlace!AppendSmallUnit, InPlace!StartUnit, InPlace!Yes, InPlace!No, Answer, Parser
<1>6. ASSUME c \in BigUnits PROVE InPlace!AppendBigUnit(q, -c) \in Answer
  <2>1. -c \in Nat
    BY <1>6 DEF BigUnits
  <2>2. InPlace!Add(q.subtotal, q.tmp) \in Decimal
    BY <1>1, SumDecimal
  <2>3. InPlace!ShiftScale(InPlace!Add(q.subtotal, q.tmp), -c) \in Decimal
    BY <2>1, <2>2, ShiftedDecimal
  <2>4. InPlace!Add(q.total, InPlace!ShiftScale(InPlace!Add(q.subtotal, q.tmp), -c)) \in Decimal
    BY <1>1, <2>3, SumDecimal
  <2> QED BY <1>1, <1>2, <2>2, <2>3, <2>4 DEF InPlace!AppendBigUnit, InPlace!StartUnit, InPlace!Yes, InPlace!No, Answer, Parser
<1>7. ASSUME c \in Digits PROVE InPlace!AppendNumeral(q, c) \in Answer
  <2>1. Append(q.tmp.digits, c) \in Seq(Digits)
    BY <1>1, <1>7, AppendProperties DEF Decimal
  <2>2. InPlace!AppendDigit(q.tmp, c) \in Decimal
    BY <1>1, <2>1 DEF InPlace!AppendDigit, Decimal
  <2>3. q.digitLen + 1 \in Nat
    BY <1>1
  <2>4. [q EXCEPT !.tmp = InPlace!AppendDigit(@, c), !.isFirstDigit = FALSE,
                  !.digitLen = @ + 1, !.hasHangingPoint = FALSE] \in Parser
    BY <1>1, <2>2, <2>3 DEF Parser
  <2> QED BY <2>4 DEF InPlace!AppendNumeral, InPlace!Yes, Answer
<1>8. InPlace!No(q) \in Answer
  BY DEF InPlace!No, Answer
<1>9. c = Comma \/ c = Point \/ c \in SmallUnits \/ c \in BigUnits \/ c \in Digits \/ c = Other
  BY DEF Characters
<1> HIDE DEF Answer
<1>10. /\ InPlace!Comma = Comma /\ InPlace!Point = Point /\ InPlace!Other = Other
       /\ InPlace!SmallUnits = SmallUnits /\ InPlace!BigUnits = BigUnits /\ InPlace!Digits = Digits
  BY DEF InPlace!Comma, Comma, InPlace!Point, Point, InPlace!Other, Other, InPlace!SmallUnits,
         SmallUnits, InPlace!BigUnits, BigUnits, InPlace!Digits, Digits
<1>11. /\ c = Comma => InPlace!AppendChar(q, c) = InPlace!AppendComma(q)
       /\ c = Point => InPlace!AppendChar(q, c) = InPlace!AppendPoint(q)
  <2>1. ASSUME c = Comma PROVE InPlace!AppendChar(q, c) = InPlace!AppendComma(q)
    <3>1. c # Point /\ c \notin SmallUnits /\ c \notin BigUnits
      BY <2>1 DEF SmallUnits, BigUnits, Comma, Point
    <3>2. c \notin Digits /\ c # Other
      BY <2>1 DEF Comma, Digits, Other
    <3> QED BY <1>10, <2>1, <3>1, <3>2 DEF InPlace!AppendChar
  <2>2. ASSUME c = Point PROVE InPlace!AppendChar(q, c) = InPlace!AppendPoint(q)
    <3>1. c # Comma /\ c \notin SmallUnits /\ c \notin BigUnits
      BY <2>2 DEF SmallUnits, BigUnits, Comma, Point
    <3>2. c \notin Digits /\ c # Other
      BY <2>2 DEF Point, Digits, Other
    <3> QED BY <1>10, <2>2, <3>1, <3>2 DEF InPlace!AppendChar
  <2> QED BY <2>1, <2>2
<1>12. c \in SmallUnits => InPlace!AppendChar(q, c) = InPlace!AppendSmallUnit(q, -c)
  <2> SUFFICES ASSUME c \in SmallUnits PROVE InPlace!AppendChar(q, c) = InPlace!AppendSmallUnit(q, -c)
    OBVIOUS
  <2>1. c # Comma /\ c # Point
    BY DEF SmallUnits, Comma, Point
  <2>2. c \notin BigUnits /\ c \notin Digits /\ c # Other
    BY DEF SmallUnits, BigUnits, Digits, Other
  <2> QED BY <1>10, <2>1, <2>2 DEF InPlace!AppendChar
<1>13. c \in BigUnits => InPlace!AppendChar(q, c) = InPlace!AppendBigUnit(q, -c)
  <2> SUFFICES ASSUME c \in BigUnits PROVE InPlace!AppendChar(q, c) = InPlace!AppendBigUnit(q, -c)
    OBVIOUS
  <2>1. c # Comma /\ c # Point /\ c \notin SmallUnits
    BY DEF SmallUnits, BigUnits, Comma, Point
  <2>2. c \notin Digits /\ c # Other
    BY DEF BigUnits, Digits, Other
  <2> QED BY <1>10, <2>1, <2>2 DEF InPlace!AppendChar
<1>14. c \in Digits => InPlace!AppendChar(q, c) = InPlace!AppendNumeral(q, c)
  <2> SUFFICES ASSUME c \in Digits PROVE InPlace!AppendChar(q, c) = InPlace!AppendNumeral(q, c)
    OBVIOUS
  <2>1. c # Comma /\ c # Point /\ c \notin SmallUnits /\ c \notin BigUnits /\ c # Other
    BY DEF SmallUnits, BigUnits, Comma, Point, Digits, Other
  <2> QED BY <1>10, <2>1 DEF InPlace!AppendChar
<1>15. c = Other => InPlace!AppendChar(q, c) = InPlace!No(q)
  <2> SUFFICES ASSUME c = Other PROVE InPlace!AppendChar(q, c) = InPlace!No(q)
    OBVIOUS
  <2>1. c # Comma /\ c # Point /\ c \notin SmallUnits /\ c \notin BigUnits /\ c \notin Digits
    BY DEF SmallUnits, BigUnits, Comma, Point, Digits, Other
  <2> QED BY <1>10, <2>1 DEF InPlace!AppendChar
<1> QED BY <1>3, <1>4, <1>5, <1>6, <1>7, <1>8, <1>9, <1>11, <1>12,
           <1>13, <1>14, <1>15

LEMMA DoneAnswers ==
    ASSUME NEW q \in Parser
    PROVE  InPlace!Done(q) \in Answer
<1> DEFINE sub == InPlace!Add(q.subtotal, q.tmp)
           r == [q EXCEPT !.subtotal = sub,
                          !.total = IF InPlace!Fits(q.subtotal, q.tmp) THEN InPlace!Add(@, sub) ELSE @]
<1>1. /\ q.digitLen \in Nat /\ q.isFirstDigit \in BOOLEAN /\ q.hasComma \in BOOLEAN
      /\ q.hasHangingPoint \in BOOLEAN /\ q.err \in {"none", "point", "comma"}
      /\ q.total \in Decimal /\ q.subtotal \in Decimal /\ q.tmp \in Decimal
  BY DEF Parser
<1>2. sub \in Decimal
  BY <1>1, SumDecimal
<1> HIDE DEF sub
<1>3. InPlace!Add(q.total, sub) \in Decimal
  BY <1>1, <1>2, SumDecimal
<1>4. r \in Parser
  BY <1>1, <1>2, <1>3 DEF Parser
<1> HIDE DEF r
<1>5. CASE q.hasHangingPoint
  <2>1. InPlace!Done(q) = [ok |-> FALSE, p |-> [r EXCEPT !.err = "point"]]
    BY <1>5 DEF InPlace!Done, InPlace!NoFor, InPlace!No, r, sub
  <2> QED BY <1>4, <2>1 DEF Parser, Answer
<1>6. CASE ~q.hasHangingPoint /\ q.hasComma /\ q.digitLen # 3
  <2>1. InPlace!Done(q) = [ok |-> FALSE, p |-> [r EXCEPT !.err = "comma"]]
    BY <1>6 DEF InPlace!Done, InPlace!NoFor, InPlace!No, r, sub
  <2> QED BY <1>4, <2>1 DEF Parser, Answer
<1>7. CASE ~q.hasHangingPoint /\ ~(q.hasComma /\ q.digitLen # 3)
  <2>1. InPlace!Done(q) = [ok |-> InPlace!Fits(q.subtotal, q.tmp) /\ InPlace!Fits(q.total, sub) /\ q.err = "none"
                          /\ ~InPlace!IsZero(r.total), p |-> r]
    BY <1>7 DEF InPlace!Done, r, sub
  <2> QED BY <1>4, <2>1 DEF Answer
<1> QED BY <1>5, <1>6, <1>7

-----------------------------------------------------------------------------
(* Reading a string, one character after the other                          *)

Fed(r, c) == IF r.ok THEN InPlace!AppendChar(r.p, c) ELSE r

\* The fold that AppendAll is, on the sets of places it goes through.
Folding(f, d, q, s) ==
    IF d = {} THEN InPlace!Yes(q) ELSE LET k == InPlace!Max(d) IN Fed(f[d \ {k}], s[k])
IsFold(f, D, q, s) == f = [d \in SUBSET D |-> Folding(f, d, q, s)]
Fold(q, s) == CHOOSE f : IsFold(f, DOMAIN s, q, s)
Up(q, s, k) == Fold(q, s)[1 .. k]

LEMMA LargestOf ==
    ASSUME NEW n \in Nat, NEW d \in SUBSET (1 .. n), n \in d
    PROVE  InPlace!Max(d) = n
<1>1. \A y \in d : n >= y
  OBVIOUS
<1>2. \A x \in d : x >= n => x = n
  OBVIOUS
<1>3. InPlace!Max(d) \in d /\ \A y \in d : InPlace!Max(d) >= y
  BY <1>1 DEF InPlace!Max
<1> QED BY <1>2, <1>3

LEMMA FoldExists ==
    ASSUME NEW q, NEW s, NEW n \in Nat
    PROVE  \E f : IsFold(f, 1 .. n, q, s)
<1> DEFINE P(m) == \E f : IsFold(f, 1 .. m, q, s)
           Missing == {m \in Nat : ~P(m)}
<1> SUFFICES ASSUME Missing # {} PROVE FALSE
  BY Zenon
<1>1. PICK m \in Missing : \A k \in Missing : m <= k
  <2>1. Missing \in SUBSET Nat
    OBVIOUS
  <2> HIDE DEF Missing
  <2> QED BY <2>1, Least
<1>2. m \in Nat /\ ~P(m)
  BY <1>1
<1>3. m # 0
  <2>1. P(0)
    <3> DEFINE f == [d \in SUBSET (1 .. 0) |-> InPlace!Yes(q)]
    <3>1. \A d \in SUBSET (1 .. 0) : d = {}
      OBVIOUS
    <3>2. f = [d \in SUBSET (1 .. 0) |-> Folding(f, d, q, s)]
      BY <3>1 DEF Folding
    <3> QED BY <3>2 DEF IsFold
  <2> HIDE DEF P
  <2> QED BY <1>2, <2>1
<1>4. PICK f : f = [d \in SUBSET (1 .. m - 1) |-> Folding(f, d, q, s)]
  <2>1. m - 1 \in Nat /\ ~(m <= m - 1)
    BY <1>2, <1>3
  <2>2. m - 1 \notin Missing
    <3> HIDE DEF Missing
    <3> QED BY <1>1, <2>1
  <2>3. P(m - 1)
    <3> HIDE DEF P
    <3> QED BY <2>1, <2>2
  <2> QED BY <2>3 DEF IsFold
<1> DEFINE g == [d \in SUBSET (1 .. m) |-> IF m \in d THEN Fed(f[d \ {m}], s[m]) ELSE f[d]]
<1>5. ASSUME NEW d \in SUBSET (1 .. m)
      PROVE  g[d] = Folding(g, d, q, s)
  <2>1. CASE m \in d
    <3>1. InPlace!Max(d) = m
      BY <1>2, <2>1, LargestOf
    <3>2. d \ {m} \in SUBSET (1 .. m) /\ m \notin d \ {m}
      OBVIOUS
    <3>3. g[d \ {m}] = f[d \ {m}]
      BY <3>2
    <3>4. g[d] = Fed(f[d \ {m}], s[m])
      BY <2>1
    <3> HIDE DEF g
    <3> QED BY <2>1, <3>1, <3>3, <3>4 DEF Folding
  <2>2. CASE m \notin d
    <3>1. d \in SUBSET (1 .. m - 1)
      BY <1>2, <2>2
    <3>2. g[d] = Folding(f, d, q, s)
      BY <1>4, <2>2, <3>1
    <3>3. \A k : d \ {k} \in SUBSET (1 .. m) /\ m \notin d \ {k}
      BY <2>2
    <3>4. \A k : g[d \ {k}] = f[d \ {k}]
      BY <3>3
    <3> HIDE DEF g
    <3> QED BY <3>2, <3>4 DEF Folding
  <2> QED BY <2>1, <2>2
<1>6. g = [d \in SUBSET (1 .. m) |-> Folding(g, d, q, s)]
  <2>1. g = [d \in SUBSET (1 .. m) |-> g[d]]
    OBVIOUS
  <2> HIDE DEF g
  <2> QED BY <1>5, <2>1
<1> HIDE DEF g
<1> QED BY <1>2, <1>6 DEF IsFold

LEMMA FoldSteps ==
    ASSUME NEW q, NEW S, NEW s \in Seq(S)
    PROVE  /\ InPlace!AppendAll(q, s) = Up(q, s, Len(s))
           /\ Up(q, s, 0) = InPlace!Yes(q)
           /\ \A k \in 0 .. Len(s) - 1 : Up(q, s, k + 1) = Fed(Up(q, s, k), s[k + 1])
<1>1. Len(s) \in Nat /\ DOMAIN s = 1 .. Len(s)
  BY LenProperties
<1>2. InPlace!AppendAll(q, s) = Up(q, s, Len(s))
  <2>1. InPlace!AppendAll(q, s) = Fold(q, s)[DOMAIN s]
    BY DEF InPlace!AppendAll, InPlace!FoldLeft, InPlace!MapThenFoldSet, Fold, IsFold,
           Folding, Fed
  <2> QED BY <1>1, <2>1 DEF Up
<1> DEFINE f == Fold(q, s)
<1>3. f = [d \in SUBSET (1 .. Len(s)) |-> Folding(f, d, q, s)]
  <2>1. \E h : IsFold(h, 1 .. Len(s), q, s)
    BY <1>1, FoldExists
  <2>2. IsFold(f, DOMAIN s, q, s)
    BY <1>1, <2>1 DEF Fold
  <2> QED BY <1>1, <2>2 DEF IsFold
<1> HIDE DEF f
<1>4. f[1 .. 0] = InPlace!Yes(q)
  <2>1. 1 .. 0 = {} /\ 1 .. 0 \in SUBSET (1 .. Len(s))
    OBVIOUS
  <2> QED BY <1>3, <2>1 DEF Folding
<1>5. ASSUME NEW k \in 0 .. Len(s) - 1
      PROVE  f[1 .. k + 1] = Fed(f[1 .. k], s[k + 1])
  <2>1. 1 .. k + 1 \in SUBSET (1 .. Len(s)) /\ k + 1 \in 1 .. k + 1 /\ k + 1 \in Nat
    BY <1>1
  <2>2. InPlace!Max(1 .. k + 1) = k + 1
    <3> DEFINE e == k + 1
               d == 1 .. e
    <3>1. e \in Nat /\ d \in SUBSET (1 .. e) /\ e \in d
      BY <1>1
    <3> HIDE DEF e, d
    <3>2. InPlace!Max(d) = e
      BY <3>1, LargestOf
    <3> QED BY <3>2 DEF e, d
  <2>3. (1 .. k + 1) \ {k + 1} = 1 .. k
    BY <1>1
  <2>4. 1 .. k + 1 # {}
    BY <2>1
  <2>5. f[1 .. k + 1] = Folding(f, 1 .. k + 1, q, s)
    BY <1>3, <2>1
  <2> QED BY <2>2, <2>3, <2>4, <2>5 DEF Folding
<1> QED BY <1>2, <1>4, <1>5 DEF Up, f

\* What is read of a string has the types, and depends on no more of it.
LEMMA UpAnswers ==
    ASSUME NEW q \in Parser, NEW s \in Seq(Characters), NEW n \in 0 .. Len(s)
    PROVE  Up(q, s, n) \in Answer
<1> DEFINE Bad == {k \in Nat : k <= Len(s) /\ Up(q, s, k) \notin Answer}
<1>1. Len(s) \in Nat
  BY LenProperties
<1> SUFFICES ASSUME Bad # {} PROVE FALSE
  BY <1>1
<1>2. PICK m \in Bad : \A k \in Bad : m <= k
  <2>1. Bad \in SUBSET Nat
    OBVIOUS
  <2> HIDE DEF Bad
  <2> QED BY <2>1, Least
<1>3. m \in Nat /\ m <= Len(s) /\ Up(q, s, m) \notin Answer
  BY <1>2
<1>4. m # 0
  <2>1. InPlace!Yes(q) \in Answer
    BY DEF InPlace!Yes, Answer
  <2>2. Up(q, s, 0) = InPlace!Yes(q)
    BY FoldSteps
  <2> QED BY <1>3, <2>1, <2>2
<1>5. Up(q, s, m - 1) \in Answer
  <2>1. m - 1 \in Nat /\ m - 1 <= Len(s) /\ ~(m <= m - 1)
    BY <1>1, <1>3, <1>4
  <2>2. m - 1 \notin Bad
    <3> HIDE DEF Bad
    <3> QED BY <1>2, <2>1
  <2> QED BY <2>1, <2>2
<1>6. Up(q, s, m) = Fed(Up(q, s, m - 1), s[m])
  <2>1. m - 1 \in 0 .. Len(s) - 1 /\ (m - 1) + 1 = m
    BY <1>1, <1>3, <1>4
  <2>2. \A k \in 0 .. Len(s) - 1 : Up(q, s, k + 1) = Fed(Up(q, s, k), s[k + 1])
    BY FoldSteps
  <2>3. Up(q, s, (m - 1) + 1) = Fed(Up(q, s, m - 1), s[(m - 1) + 1])
    BY <2>1, <2>2
  <2> QED BY <2>1, <2>3
<1>7. s[m] \in Characters
  BY <1>1, <1>3, <1>4, ElementOfSeq
<1> DEFINE r == Up(q, s, m - 1)
<1>8. r \in Answer
  BY <1>5
<1> HIDE DEF r
<1>9. r.ok \in BOOLEAN /\ r.p \in Parser
  BY <1>8 DEF Answer
<1>10. InPlace!AppendChar(r.p, s[m]) \in Answer
  BY <1>7, <1>9, CharAnswers
<1>11. Fed(r, s[m]) \in Answer
  BY <1>8, <1>10 DEF Fed
<1> QED BY <1>3, <1>6, <1>11 DEF r

LEMMA AppendConcat ==
    ASSUME NEW q \in Parser, NEW s \in Seq(Characters), NEW t \in Seq(Characters)
    PROVE  LET r == InPlace!AppendAll(q, s)
           IN  /\ r \in Answer /\ r.ok \in BOOLEAN /\ r.p \in Parser
               /\ InPlace!AppendAll(q, s \o t) = IF r.ok THEN InPlace!AppendAll(r.p, t) ELSE r
<1> DEFINE u == s \o t
           r == InPlace!AppendAll(q, s)
           Then(k) == IF r.ok THEN Up(r.p, t, k) ELSE r
<1>1. /\ Len(s) \in Nat /\ Len(t) \in Nat /\ u \in Seq(Characters) /\ Len(u) = Len(s) + Len(t)
      /\ \A k \in 1 .. Len(s) + Len(t) : u[k] = IF k <= Len(s) THEN s[k] ELSE t[k - Len(s)]
  BY LenProperties, ConcatProperties
<1> HIDE DEF u
<1>2. /\ r = Up(q, s, Len(s)) /\ Up(q, s, 0) = InPlace!Yes(q)
      /\ \A k \in 0 .. Len(s) - 1 : Up(q, s, k + 1) = Fed(Up(q, s, k), s[k + 1])
  BY FoldSteps
<1>3. /\ InPlace!AppendAll(q, u) = Up(q, u, Len(u)) /\ Up(q, u, 0) = InPlace!Yes(q)
      /\ \A k \in 0 .. Len(u) - 1 : Up(q, u, k + 1) = Fed(Up(q, u, k), u[k + 1])
  BY <1>1, FoldSteps
<1>4. r \in Answer
  BY <1>1, <1>2, UpAnswers
<1> HIDE DEF r
<1>5. r.ok \in BOOLEAN /\ r.p \in Parser /\ (r.ok => r = InPlace!Yes(r.p))
  BY <1>4 DEF Answer, InPlace!Yes
<1>6. /\ InPlace!AppendAll(r.p, t) = Up(r.p, t, Len(t)) /\ Up(r.p, t, 0) = InPlace!Yes(r.p)
      /\ \A k \in 0 .. Len(t) - 1 : Up(r.p, t, k + 1) = Fed(Up(r.p, t, k), t[k + 1])
  BY FoldSteps
\* The first string is read as it is alone.
<1>7. ASSUME NEW n \in 0 .. Len(s) PROVE Up(q, u, n) = Up(q, s, n)
  <2> DEFINE Bad == {k \in Nat : k <= Len(s) /\ Up(q, u, k) # Up(q, s, k)}
  <2> SUFFICES ASSUME Bad # {} PROVE FALSE
    BY <1>1
  <2>1. PICK m \in Bad : \A k \in Bad : m <= k
    <3>1. Bad \in SUBSET Nat
      OBVIOUS
    <3> HIDE DEF Bad
    <3> QED BY <3>1, Least
  <2>2. m \in Nat /\ m <= Len(s) /\ Up(q, u, m) # Up(q, s, m)
    BY <2>1
  <2>3. m # 0
    BY <1>2, <1>3, <2>2
  <2>4. m - 1 \in Nat /\ m - 1 <= Len(s) /\ ~(m <= m - 1) /\ (m - 1) + 1 = m
        /\ m - 1 \in 0 .. Len(s) - 1 /\ m - 1 \in 0 .. Len(u) - 1
    BY <1>1, <2>2, <2>3
  <2>5. Up(q, u, m - 1) = Up(q, s, m - 1)
    <3>1. m - 1 \notin Bad
      <4> HIDE DEF Bad
      <4> QED BY <2>1, <2>4
    <3> QED BY <2>4, <3>1
  <2>6. u[m] = s[m]
    BY <1>1, <2>2, <2>3
  <2>7. Up(q, u, (m - 1) + 1) = Fed(Up(q, u, m - 1), u[(m - 1) + 1])
        /\ Up(q, s, (m - 1) + 1) = Fed(Up(q, s, m - 1), s[(m - 1) + 1])
    BY <1>2, <1>3, <2>4
  <2> HIDE DEF Bad
  <2> QED BY <2>2, <2>4, <2>5, <2>6, <2>7
\* And the second from where that ends, if it was read.
<1>8. ASSUME NEW n \in 0 .. Len(t) PROVE Up(q, u, Len(s) + n) = Then(n)
  <2> HIDE DEF Then
  <2> DEFINE Bad == {k \in Nat : k <= Len(t) /\ Up(q, u, Len(s) + k) # Then(k)}
  <2>0. n \in Nat /\ n <= Len(t)
    BY <1>1
  <2> SUFFICES ASSUME Bad # {} PROVE FALSE
    BY <2>0
  <2>1. PICK m \in Bad : \A k \in Bad : m <= k
    <3>1. Bad \in SUBSET Nat
      OBVIOUS
    <3> HIDE DEF Bad
    <3> QED BY <3>1, Least
  <2>2. m \in Nat /\ m <= Len(t) /\ Up(q, u, Len(s) + m) # Then(m)
    BY <2>1
  <2>3. m # 0
    <3>1. Len(s) \in 0 .. Len(s) /\ Len(s) + 0 = Len(s)
      BY <1>1
    <3>2. Up(q, u, Len(s) + 0) = r
      BY <3>1, <1>2, <1>7
    <3>3. Then(0) = r
      BY <1>5, <1>6 DEF Then
    <3> QED BY <2>2, <3>2, <3>3
  <2>4. m - 1 \in Nat /\ m - 1 <= Len(t) /\ ~(m <= m - 1) /\ (m - 1) + 1 = m
        /\ m - 1 \in 0 .. Len(t) - 1 /\ Len(s) + (m - 1) \in 0 .. Len(u) - 1
        /\ (Len(s) + (m - 1)) + 1 = Len(s) + m
    BY <1>1, <2>2, <2>3
  <2>5. Up(q, u, Len(s) + (m - 1)) = Then(m - 1)
    <3>1. m - 1 \notin Bad
      <4> HIDE DEF Bad
      <4> QED BY <2>1, <2>4
    <3> QED BY <2>4, <3>1
  <2>6. u[Len(s) + m] = t[m]
    <3> DEFINE e == Len(s) + m
    <3>1. e \in 1 .. Len(s) + Len(t) /\ ~(e <= Len(s)) /\ e - Len(s) = m
      BY <1>1, <2>2, <2>3
    <3> HIDE DEF e
    <3> QED BY <1>1, <3>1 DEF e
  <2>7. Up(q, u, (Len(s) + (m - 1)) + 1) = Fed(Up(q, u, Len(s) + (m - 1)), u[(Len(s) + (m - 1)) + 1])
    BY <1>3, <2>4
  <2>8. Up(q, u, Len(s) + m) = Fed(Then(m - 1), t[m])
    BY <2>4, <2>5, <2>6, <2>7
  <2>9. Then(m) = Fed(Then(m - 1), t[m])
    <3>1. CASE r.ok
      <4>1. Up(r.p, t, (m - 1) + 1) = Fed(Up(r.p, t, m - 1), t[(m - 1) + 1])
        BY <1>6, <2>4
      <4> QED BY <2>4, <3>1, <4>1 DEF Then
    <3>2. CASE ~r.ok
      BY <3>2 DEF Fed, Then
    <3> QED BY <3>1, <3>2
  <2> QED BY <2>2, <2>8, <2>9
<1>9. Up(q, u, Len(u)) = Then(Len(t))
  BY <1>1, <1>8
<1> QED BY <1>3, <1>4, <1>5, <1>6, <1>9 DEF u, r, Then

LEMMA AppendOne ==
    ASSUME NEW q, NEW c \in Characters
    PROVE  InPlace!AppendAll(q, <<c>>) = InPlace!AppendChar(q, c)
<1> DEFINE s == <<c>>
<1>1. s \in Seq(Characters) /\ Len(s) = 1 /\ s[1] = c
  OBVIOUS
<1> HIDE DEF s
<1>2. /\ InPlace!AppendAll(q, s) = Up(q, s, Len(s)) /\ Up(q, s, 0) = InPlace!Yes(q)
      /\ \A k \in 0 .. Len(s) - 1 : Up(q, s, k + 1) = Fed(Up(q, s, k), s[k + 1])
  BY <1>1, FoldSteps
<1>4. 0 \in 0 .. Len(s) - 1 /\ 0 + 1 = 1
  BY <1>1
<1>5. Up(q, s, 0 + 1) = Fed(Up(q, s, 0), s[0 + 1])
  BY <1>2, <1>4
<1>3. InPlace!Yes(q).ok /\ InPlace!Yes(q).p = q
  BY DEF InPlace!Yes
<1> QED BY <1>1, <1>2, <1>3, <1>4, <1>5 DEF Fed, s

-----------------------------------------------------------------------------
(* A separator that is given up                                             *)

LEMMA SeparatorAnswers ==
    ASSUME NEW q \in Parser
    PROVE  /\ InPlace!AppendChar(q, Comma) = InPlace!AppendComma(q)
           /\ InPlace!AppendChar(q, Point) = InPlace!AppendPoint(q)
<1>1. /\ InPlace!Comma = Comma /\ InPlace!Point = Point /\ InPlace!Other = Other
      /\ InPlace!SmallUnits = SmallUnits /\ InPlace!BigUnits = BigUnits /\ InPlace!Digits = Digits
  BY DEF InPlace!Comma, Comma, InPlace!Point, Point, InPlace!Other, Other, InPlace!SmallUnits,
         SmallUnits, InPlace!BigUnits, BigUnits, InPlace!Digits, Digits
<1>2. /\ Comma # Point /\ Comma \notin SmallUnits /\ Comma \notin BigUnits
      /\ Comma \notin Digits /\ Comma # Other
      /\ Point \notin SmallUnits /\ Point \notin BigUnits
      /\ Point \notin Digits /\ Point # Other
  BY DEF SmallUnits, BigUnits, Comma, Point, Digits, Other
<1>3. InPlace!AppendChar(q, Comma) = InPlace!AppendComma(q)
  BY <1>1, <1>2 DEF InPlace!AppendChar
<1>4. InPlace!AppendChar(q, Point) = InPlace!AppendPoint(q)
  BY <1>1, <1>2 DEF InPlace!AppendChar
<1> QED BY <1>3, <1>4

\* The decimal o is d, or d with a point behind its last digit.
Hung(o, d) == o = d \/ (d.scale = 0 /\ d.point = -1 /\ o = [d EXCEPT !.point = Len(d.digits)])

LEMMA HungItself ==
    ASSUME NEW d, NEW o, o = d
    PROVE  Hung(o, d)
BY DEF Hung

LEMMA HungSame ==
    ASSUME NEW d \in Decimal, NEW o, Hung(o, d)
    PROVE  /\ InPlace!IsZero(o) = InPlace!IsZero(d)
           /\ InPlace!NormalizeScale(o) = InPlace!NormalizeScale(d)
           /\ InPlace!Render(o) = InPlace!Render(d)
<1>1. CASE o = d
  BY <1>1
<1>2. CASE d.scale = 0 /\ d.point = -1 /\ o = [d EXCEPT !.point = Len(d.digits)]
  <2>1. Len(d.digits) \in Nat
    BY LenProperties DEF Decimal
  <2> DEFINE n == Len(d.digits)
  <2>2. o = [d EXCEPT !.point = n] /\ n \in Nat
    BY <1>2, <2>1
  <2>3. o.digits = d.digits /\ o.scale = 0 /\ o.point = n /\ Len(o.digits) = n
    BY <1>2 DEF Decimal
  <2> HIDE DEF n
  <2>4. InPlace!NormalizeScale(o) = [o EXCEPT !.scale = 0, !.point = -1]
    <3>1. Len(o.digits) - o.point = 0 /\ ~(o.point < 0) /\ ~(0 > o.scale) /\ o.scale - 0 = 0
      BY <2>2, <2>3
    <3> QED BY <3>1 DEF InPlace!NormalizeScale
  <2>5. [o EXCEPT !.scale = 0, !.point = -1] = d
    BY <1>2, <2>2 DEF Decimal
  <2>6. InPlace!NormalizeScale(d) = d
    BY <1>2 DEF InPlace!NormalizeScale
  <2>7. InPlace!IsZero(o) = InPlace!IsZero(d)
    BY <2>3 DEF InPlace!IsZero
  <2> QED BY <2>4, <2>5, <2>6, <2>7 DEF InPlace!Render
<1> QED BY <1>1, <1>2 DEF Hung

LEMMA HungSum ==
    ASSUME NEW d \in Decimal, NEW o \in Decimal, NEW h, Hung(h, o)
    PROVE  /\ InPlace!Fits(d, h) = InPlace!Fits(d, o)
           /\ Hung(InPlace!Add(d, h), InPlace!Add(d, o))
<1>1. /\ InPlace!IsZero(h) = InPlace!IsZero(o)
      /\ InPlace!NormalizeScale(h) = InPlace!NormalizeScale(o)
  BY HungSame
<1>2. InPlace!Fits(d, h) = InPlace!Fits(d, o)
  BY <1>1 DEF InPlace!Fits
<1>3. CASE InPlace!IsZero(o)
  <2>1. InPlace!Add(d, h) = d /\ InPlace!Add(d, o) = d
    BY <1>1, <1>3 DEF InPlace!Add
  <2> QED BY <1>2, <2>1, HungItself
<1>4. CASE ~InPlace!IsZero(o) /\ InPlace!IsZero(d)
  <2>1. /\ InPlace!Add(d, h) = [h EXCEPT !.allZero = d.allZero]
        /\ InPlace!Add(d, o) = [o EXCEPT !.allZero = d.allZero]
    BY <1>1, <1>4 DEF InPlace!Add
  <2>2. CASE h = o
    BY <1>2, <2>1, <2>2, HungItself
  <2>3. CASE o.scale = 0 /\ o.point = -1 /\ h = [o EXCEPT !.point = Len(o.digits)]
    <3> DEFINE x == [o EXCEPT !.allZero = d.allZero]
    <3>1. x.scale = 0 /\ x.point = -1 /\ x.digits = o.digits
      BY <2>3 DEF Decimal
    <3>2. [h EXCEPT !.allZero = d.allZero] = [x EXCEPT !.point = Len(o.digits)]
      BY <2>3 DEF Decimal
    <3>3. InPlace!Add(d, o) = x /\ InPlace!Add(d, h) = [x EXCEPT !.point = Len(x.digits)]
      BY <2>1, <3>1, <3>2
    <3> HIDE DEF x
    <3>4. Hung([x EXCEPT !.point = Len(x.digits)], x)
      BY <3>1 DEF Hung
    <3> QED BY <1>2, <3>3, <3>4
  <2> QED BY <2>2, <2>3, <1>2 DEF Hung
<1>5. CASE ~InPlace!IsZero(o) /\ ~InPlace!IsZero(d)
  <2>1. InPlace!Add(d, h) = InPlace!Add(d, o)
    BY <1>1, <1>2, <1>5 DEF InPlace!Add
  <2> QED BY <1>2, <2>1, HungItself
<1> QED BY <1>2, <1>3, <1>4, <1>5

\* A separator changes nothing of the number that has been read before it.
LEMMA SeparatorKeepsNumber ==
    ASSUME NEW q \in Parser, NEW c \in {Comma, Point}, InPlace!AppendChar(q, c).ok
    PROVE  InPlace!Render(InPlace!Done(InPlace!AppendChar(q, c).p).p.total)
           = InPlace!Render(InPlace!Done(q).p.total)
<1> DEFINE r == InPlace!AppendChar(q, c).p
           total(s) == IF InPlace!Fits(s.subtotal, s.tmp)
                       THEN InPlace!Add(s.total, InPlace!Add(s.subtotal, s.tmp)) ELSE s.total
<1>1. q.total \in Decimal /\ q.subtotal \in Decimal /\ q.tmp \in Decimal
  BY DEF Parser
<1>2. \A s \in Parser : InPlace!Done(s).p.total = total(s)
  <2> SUFFICES ASSUME NEW s \in Parser PROVE InPlace!Done(s).p.total = total(s)
    OBVIOUS
  <2> DEFINE t == [s EXCEPT !.subtotal = InPlace!Add(s.subtotal, s.tmp),
                            !.total = IF InPlace!Fits(s.subtotal, s.tmp)
                                      THEN InPlace!Add(@, InPlace!Add(s.subtotal, s.tmp)) ELSE @]
  <2>1. t.total = total(s)
    BY DEF Parser
  <2>2. \A e : [t EXCEPT !.err = e].total = t.total
    BY DEF Parser
  <2>3. InPlace!Done(s).p = t \/ InPlace!Done(s).p = [t EXCEPT !.err = "point"]
        \/ InPlace!Done(s).p = [t EXCEPT !.err = "comma"]
    <3> HIDE DEF total
    <3> QED BY DEF InPlace!Done, InPlace!NoFor, InPlace!No
  <2> HIDE DEF t
  <2> QED BY <2>1, <2>2, <2>3
<1>3. r \in Parser
  <2>1. c \in Characters
    BY DEF Characters
  <2> QED BY <2>1, CharAnswers DEF Answer
<1>4. r.total = q.total /\ r.subtotal = q.subtotal /\ Hung(r.tmp, q.tmp)
  <2>1. CASE c = Comma
    <3>1. InPlace!AppendChar(q, c) = InPlace!AppendComma(q)
      BY <2>1, SeparatorAnswers
    <3>2. InPlace!CheckComma(q)
      BY <3>1 DEF InPlace!AppendComma, InPlace!NoFor, InPlace!No
    <3>3. r = [q EXCEPT !.hasComma = TRUE, !.digitLen = 0]
      BY <3>1, <3>2 DEF InPlace!AppendComma, InPlace!Yes
    <3> HIDE DEF r
    <3> QED BY <3>3 DEF Parser, Hung
  <2>2. CASE c = Point
    <3>1. InPlace!AppendChar(q, c) = InPlace!AppendPoint(q)
      BY <2>2, SeparatorAnswers
    <3>2. /\ ~(q.hasHangingPoint \/ q.isFirstDigit)
          /\ ~(q.hasComma /\ ~InPlace!CheckComma(q))
          /\ ~(q.tmp.scale # 0 \/ q.tmp.point >= 0)
      BY <3>1 DEF InPlace!AppendPoint, InPlace!NoFor, InPlace!No
    <3> DEFINE h == [q EXCEPT !.hasHangingPoint = TRUE]
    <3>3. InPlace!AppendPoint(q) =
              InPlace!Yes([h EXCEPT !.tmp.point = Len(q.tmp.digits), !.hasComma = FALSE])
      BY <3>2 DEF InPlace!AppendPoint
    <3>4. r = [h EXCEPT !.tmp.point = Len(q.tmp.digits), !.hasComma = FALSE]
      BY <3>1, <3>3 DEF InPlace!Yes
    <3> HIDE DEF r
    <3>5. r.total = q.total /\ r.subtotal = q.subtotal /\ r.tmp = [q.tmp EXCEPT !.point = Len(q.tmp.digits)]
      BY <3>4 DEF Parser
    <3>6. q.tmp.scale = 0 /\ q.tmp.point = -1
      BY <1>1, <3>2 DEF Decimal
    <3> QED BY <3>5, <3>6 DEF Hung
  <2> QED BY <2>1, <2>2
<1> HIDE DEF r
<1>5. /\ InPlace!Fits(r.subtotal, r.tmp) = InPlace!Fits(q.subtotal, q.tmp)
      /\ Hung(InPlace!Add(r.subtotal, r.tmp), InPlace!Add(q.subtotal, q.tmp))
  BY <1>1, <1>4, HungSum
<1>6. InPlace!Add(q.subtotal, q.tmp) \in Decimal
  BY <1>1, SumDecimal
<1>7. Hung(InPlace!Add(r.total, InPlace!Add(r.subtotal, r.tmp)),
           InPlace!Add(q.total, InPlace!Add(q.subtotal, q.tmp)))
  <2> DEFINE h == InPlace!Add(r.subtotal, r.tmp)
             o == InPlace!Add(q.subtotal, q.tmp)
  <2>1. Hung(h, o) /\ o \in Decimal /\ r.total = q.total
    BY <1>4, <1>5, <1>6
  <2> HIDE DEF h, o
  <2>2. Hung(InPlace!Add(q.total, h), InPlace!Add(q.total, o))
    BY <1>1, <2>1, HungSum
  <2> QED BY <2>1, <2>2 DEF h, o
<1>8. total(q) \in Decimal
  BY <1>1, <1>6, SumDecimal
<1>9. Hung(total(r), total(q))
  BY <1>4, <1>5, <1>7 DEF Hung
<1> HIDE DEF total
<1>10. InPlace!Render(total(r)) = InPlace!Render(total(q))
  BY <1>8, <1>9, HungSame
<1> QED BY <1>2, <1>3, <1>10 DEF r

\* No number begins with a separator.
LEMMA NoSeparatorFirst ==
    ASSUME NEW c \in {Comma, Point}
    PROVE  ~InPlace!AppendAll(InPlace!NewParser, <<c>>).ok
<1> DEFINE q == InPlace!NewParser
<1>1. q \in Parser /\ q.isFirstDigit
  BY NewDecimalType DEF InPlace!NewParser
<1>2. c \in Characters
  BY DEF Characters
<1>3. InPlace!AppendAll(q, <<c>>) = InPlace!AppendChar(q, c)
  BY <1>2, AppendOne
<1> HIDE DEF q
<1>4. ~InPlace!AppendComma(q).ok
  BY <1>1 DEF InPlace!AppendComma, InPlace!CheckComma, InPlace!NoFor, InPlace!No
<1>5. ~InPlace!AppendPoint(q).ok
  BY <1>1 DEF InPlace!AppendPoint, InPlace!NoFor, InPlace!No
<1> QED BY <1>1, <1>3, <1>4, <1>5, SeparatorAnswers DEF q

-----------------------------------------------------------------------------
(* The text of a stretch of the path, that is read as a number              *)

Stretch(b, e) == SubSeq(in, b, e - 1)
Text(b, e) == FlattenSeq(Parts(Stretch(b, e)))

\* The nodes the pass is given stand for themselves.
Alone == in \in Seq(Node) /\ \A k \in DOMAIN in : in[k].parts = <<in[k].form>>

LEMMA StretchSplits ==
    ASSUME in \in Seq(Node), NEW b \in 1 .. Len(in) + 1, NEW m \in b .. Len(in) + 1,
           NEW e \in m .. Len(in) + 1
    PROVE  /\ Stretch(b, e) = Stretch(b, m) \o Stretch(m, e)
           /\ Stretch(b, e) \in Seq(Node) /\ Stretch(b, m) \in Seq(Node) /\ Stretch(m, e) \in Seq(Node)
<1>1. Len(in) \in Nat
  BY LenProperties
<1>2. ASSUME NEW x \in 1 .. Len(in) + 1, NEW y \in 1 .. Len(in) + 1
      PROVE  Stretch(x, y) \in Seq(Node)
  <2>1. x \in Int /\ y - 1 \in Int /\ x .. y - 1 \subseteq 1 .. Len(in)
    BY <1>1
  <2>2. \A k \in x .. y - 1 : in[k] \in Node
    BY <2>1, ElementOfSeq
  <2> QED BY <2>1, <2>2, SubSeqProperties DEF Stretch
<1>3. Stretch(b, m) \o Stretch(m, e) = Stretch(b, e)
  <2> DEFINE k == m - 1
             n == e - 1
  <2>1. k \in b - 1 .. Len(in) /\ n \in k .. Len(in) /\ k + 1 = m
    BY <1>1
  <2> HIDE DEF k, n
  <2>2. SubSeq(in, b, k) \o SubSeq(in, k + 1, n) = SubSeq(in, b, n)
    BY <2>1, ConcatAdjacentSubSeq
  <2> QED BY <2>1, <2>2 DEF Stretch, k, n
<1>4. m \in 1 .. Len(in) + 1 /\ e \in 1 .. Len(in) + 1
  BY <1>1
<1> QED BY <1>2, <1>3, <1>4

LEMMA TextSplits ==
    ASSUME in \in Seq(Node), NEW b \in 1 .. Len(in) + 1, NEW m \in b .. Len(in) + 1,
           NEW e \in m .. Len(in) + 1
    PROVE  /\ Parts(Stretch(b, e)) = Parts(Stretch(b, m)) \o Parts(Stretch(m, e))
           /\ Parts(Stretch(b, e)) \in Seq(Form)
           /\ Parts(Stretch(b, m)) \in Seq(Form) /\ Parts(Stretch(m, e)) \in Seq(Form)
           /\ Text(b, e) = Text(b, m) \o Text(m, e)
           /\ Text(b, e) \in Seq(Characters)
           /\ Text(b, m) \in Seq(Characters) /\ Text(m, e) \in Seq(Characters)
<1> DEFINE s == Stretch(b, m)
           t == Stretch(m, e)
<1>1. Stretch(b, e) = s \o t /\ s \in Seq(Node) /\ t \in Seq(Node) /\ Stretch(b, e) \in Seq(Node)
  BY StretchSplits
<1>2. Made(Node)
  BY DEF Made, Node, Form
<1> HIDE DEF s, t
<1>3. Parts(s \o t) = Parts(s) \o Parts(t) /\ Parts(s) \in Seq(Form) /\ Parts(t) \in Seq(Form)
      /\ Parts(Stretch(b, e)) \in Seq(Form)
  BY <1>1, <1>2, PartsConcat
<1>4. ASSUME NEW x \in Seq(Form) PROVE FlattenSeq(x) \in Seq(Characters)
  <2>1. Len(x) \in Nat /\ x \in Seq(Seq(Characters))
    BY LenProperties DEF Form
  <2> QED BY <2>1, FlattenElements
<1>5. FlattenSeq(Parts(s) \o Parts(t)) = FlattenSeq(Parts(s)) \o FlattenSeq(Parts(t))
  <2> DEFINE x == Parts(s)
             y == Parts(t)
  <2>1. x \in Seq(Seq(Characters)) /\ y \in Seq(Seq(Characters))
    BY <1>3 DEF Form
  <2> HIDE DEF x, y
  <2>2. FlattenSeq(x \o y) = FlattenSeq(x) \o FlattenSeq(y)
    BY <2>1, FlattenConcat
  <2> QED BY <2>2 DEF x, y
<1> QED BY <1>1, <1>3, <1>4, <1>5 DEF Text, s, t

LEMMA TextOfNode ==
    ASSUME Alone, NEW k \in 1 .. Len(in)
    PROVE  /\ Parts(Stretch(k, k + 1)) = <<in[k].form>>
           /\ Text(k, k + 1) = in[k].form
           /\ in[k] \in Node /\ in[k].form \in Seq(Characters)
           /\ in[k].parts = <<in[k].form>>
           /\ Stretch(k, k + 1) = <<in[k]>>
<1>1. Len(in) \in Nat /\ k \in Nat /\ DOMAIN in = 1 .. Len(in)
  BY LenProperties DEF Alone
<1>2. in[k] \in Node /\ in[k].parts = <<in[k].form>>
  BY <1>1, ElementOfSeq DEF Alone
<1> DEFINE n == in[k]
           f == in[k].form
<1>3. n.parts \in Seq(Form) /\ f \in Seq(Characters)
  BY <1>2 DEF Node, Form
<1>4. Stretch(k, k + 1) = <<n>>
  <2>1. \A i_1 \in k .. k : in[i_1] \in Node
    BY <1>1, <1>2
  <2>2. k \in Int /\ (k + 1) - 1 = k
    BY <1>1
  <2>3. /\ SubSeq(in, k, k) \in Seq(Node) /\ Len(SubSeq(in, k, k)) = IF k <= k THEN k - k + 1 ELSE 0
        /\ \A j \in 1 .. k - k + 1 : SubSeq(in, k, k)[j] = in[k + j - 1]
    BY <2>1, <2>2, SubSeqProperties
  <2>4. Len(SubSeq(in, k, k)) = 1 /\ SubSeq(in, k, k)[1] = n
    BY <1>1, <2>3
  <2>5. SubSeq(in, k, k) = <<n>>
    <3>1. <<n>> \in Seq(Node) /\ Len(<<n>>) = 1 /\ <<n>>[1] = n
      BY <1>2
    <3>2. \A j \in 1 .. 1 : SubSeq(in, k, k)[j] = <<n>>[j]
      BY <2>4, <3>1
    <3> QED BY <2>3, <2>4, <3>1, <3>2, SeqEqual
  <2> QED BY <2>2, <2>5 DEF Stretch
<1> HIDE DEF n
<1>5. Parts(<<n>>) = n.parts
  BY <1>3, PartsOfOne
<1>6. Parts(Stretch(k, k + 1)) = <<f>>
  BY <1>2, <1>4, <1>5 DEF n
<1>7. FlattenSeq(<<f>>) = f
  BY <1>3, FlattenOne
<1> QED BY <1>2, <1>3, <1>4, <1>6, <1>7 DEF Text, n

LEMMA TextOfNone ==
    ASSUME in \in Seq(Node), NEW k \in 1 .. Len(in) + 1
    PROVE  Text(k, k) = <<>> /\ Parts(Stretch(k, k)) = <<>>
<1>1. k \in Int /\ k - 1 \in Int /\ k - 1 < k
  BY LenProperties
<1>2. Stretch(k, k) = <<>>
  BY <1>1, SubSeqEmpty DEF Stretch
<1>3. FlattenSeq(<<>>) = <<>>
  BY EmptySeq DEF FlattenSeq
<1>4. Parts(<<>>) = <<>>
  <2>1. [k_1 \in DOMAIN <<>> |-> <<>>[k_1].parts] = <<>>
    OBVIOUS
  <2> QED BY <1>3, <2>1 DEF Parts
<1> QED BY <1>2, <1>3, <1>4 DEF Text

\* One node after the other.
LEMMA TextGrows ==
    ASSUME Alone, NEW b \in 1 .. Len(in), NEW k \in b .. Len(in)
    PROVE  /\ Text(b, k + 1) = Text(b, k) \o in[k].form
           /\ Text(b, k) \in Seq(Characters) /\ Text(b, k + 1) \in Seq(Characters)
           /\ in[k].form \in Seq(Characters)
<1>1. /\ Len(in) \in Nat /\ in \in Seq(Node) /\ b \in 1 .. Len(in) + 1 /\ k \in b .. Len(in) + 1
      /\ k + 1 \in k .. Len(in) + 1 /\ k \in 1 .. Len(in)
  BY LenProperties DEF Alone
<1>2. /\ Text(b, k + 1) = Text(b, k) \o Text(k, k + 1)
      /\ Text(b, k + 1) \in Seq(Characters) /\ Text(b, k) \in Seq(Characters)
  <2> DEFINE e == k + 1
  <2>1. e \in k .. Len(in) + 1
    BY <1>1
  <2> HIDE DEF e
  <2>2. /\ Text(b, e) = Text(b, k) \o Text(k, e)
        /\ Text(b, e) \in Seq(Characters) /\ Text(b, k) \in Seq(Characters)
    BY <1>1, <2>1, TextSplits
  <2> QED BY <2>2 DEF e
<1> QED BY <1>1, <1>2, TextOfNode

\* A stretch has as many parts as nodes.
LEMMA PartsCount ==
    ASSUME Alone, NEW b \in 1 .. Len(in) + 1, NEW e \in b .. Len(in) + 1
    PROVE  Len(Parts(Stretch(b, e))) = e - b
<1> DEFINE Bad == {m \in Nat : m \in b .. Len(in) + 1 /\ Len(Parts(Stretch(b, m))) # m - b}
<1>1. Len(in) \in Nat /\ in \in Seq(Node) /\ e \in Nat /\ b \in Nat
  BY LenProperties DEF Alone
<1> SUFFICES ASSUME Bad # {} PROVE FALSE
  BY <1>1
<1>2. PICK m \in Bad : \A k \in Bad : m <= k
  <2>1. Bad \in SUBSET Nat
    OBVIOUS
  <2> HIDE DEF Bad
  <2> QED BY <2>1, Least
<1>3. m \in Nat /\ m \in b .. Len(in) + 1 /\ Len(Parts(Stretch(b, m))) # m - b
  BY <1>2
<1>4. m # b
  <2>1. Len(Parts(Stretch(b, b))) = 0
    BY <1>1, TextOfNone
  <2> QED BY <1>1, <1>3, <2>1
<1> DEFINE k == m - 1
<1>5. k \in Nat /\ k \in b .. Len(in) /\ k \in b .. Len(in) + 1 /\ ~(m <= k) /\ k + 1 = m
      /\ m \in k .. Len(in) + 1 /\ k \in 1 .. Len(in) /\ k - b + 1 = m - b
  BY <1>1, <1>3, <1>4
<1> HIDE DEF k
<1>6. Len(Parts(Stretch(b, k))) = k - b
  <2>1. k \notin Bad
    <3> HIDE DEF Bad
    <3> QED BY <1>2, <1>5
  <2> QED BY <1>5, <2>1
<1>7. /\ Parts(Stretch(b, m)) = Parts(Stretch(b, k)) \o Parts(Stretch(k, m))
      /\ Parts(Stretch(b, k)) \in Seq(Form) /\ Parts(Stretch(k, m)) \in Seq(Form)
  BY <1>1, <1>5, TextSplits
<1>8. Len(Parts(Stretch(k, m))) = 1
  <2>1. Parts(Stretch(k, k + 1)) = <<in[k].form>>
    BY <1>5, TextOfNode
  <2> QED BY <1>5, <2>1
<1>9. Len(Parts(Stretch(b, m))) = (k - b) + 1
  <2> DEFINE x == Parts(Stretch(b, k))
             y == Parts(Stretch(k, m))
  <2>1. x \in Seq(Form) /\ y \in Seq(Form) /\ Len(x) = k - b /\ Len(y) = 1
    BY <1>6, <1>7, <1>8
  <2> HIDE DEF x, y
  <2>2. Len(x \o y) = Len(x) + Len(y)
    BY <2>1, ConcatProperties
  <2>3. Parts(Stretch(b, m)) = x \o y
    BY <1>7 DEF x, y
  <2> QED BY <2>1, <2>2, <2>3
<1> QED BY <1>3, <1>5, <1>9

\* What the parser makes of a stretch of the path.
Read(b, e) == InPlace!AppendAll(InPlace!NewParser, Text(b, e))

LEMMA ReadNone ==
    ASSUME in \in Seq(Node), NEW k \in 1 .. Len(in) + 1
    PROVE  Read(k, k) = InPlace!Yes(InPlace!NewParser)
<1> DEFINE s == <<>>
           q == InPlace!NewParser
<1>1. s \in Seq(Characters) /\ Len(s) = 0
  OBVIOUS
<1> HIDE DEF s, q
<1>2. InPlace!AppendAll(q, s) = Up(q, s, Len(s)) /\ Up(q, s, 0) = InPlace!Yes(q)
  BY <1>1, FoldSteps
<1>3. Text(k, k) = s
  BY TextOfNone DEF s
<1> QED BY <1>1, <1>2, <1>3 DEF Read, q

\* A string is read on from where the first part of it ends, if that was read.
LEMMA ReadSplits ==
    ASSUME in \in Seq(Node), NEW b \in 1 .. Len(in) + 1, NEW m \in b .. Len(in) + 1,
           NEW e \in m .. Len(in) + 1
    PROVE  /\ Read(b, m) \in Answer /\ Read(b, m).ok \in BOOLEAN /\ Read(b, m).p \in Parser
           /\ Read(b, e) = IF Read(b, m).ok THEN InPlace!AppendAll(Read(b, m).p, Text(m, e))
                           ELSE Read(b, m)
           /\ Read(b, e).ok => Read(b, m).ok
<1> DEFINE q == InPlace!NewParser
           s == Text(b, m)
           t == Text(m, e)
           r == InPlace!AppendAll(q, s)
<1>1. Text(b, e) = s \o t /\ s \in Seq(Characters) /\ t \in Seq(Characters)
  BY TextSplits
<1>2. q \in Parser
  BY NewDecimalType
<1> HIDE DEF q, s, t
<1>3. /\ r \in Answer /\ r.ok \in BOOLEAN /\ r.p \in Parser
      /\ InPlace!AppendAll(q, s \o t) = IF r.ok THEN InPlace!AppendAll(r.p, t) ELSE r
  BY <1>1, <1>2, AppendConcat
<1>4. r = Read(b, m) /\ InPlace!AppendAll(q, s \o t) = Read(b, e)
  BY <1>1 DEF Read, q, s
<1> HIDE DEF r
<1> QED BY <1>3, <1>4 DEF t

LEMMA ReadGrows ==
    ASSUME Alone, NEW b \in 1 .. Len(in), NEW k \in b .. Len(in)
    PROVE  /\ Read(b, k) \in Answer /\ Read(b, k).ok \in BOOLEAN /\ Read(b, k).p \in Parser
           /\ Read(b, k + 1) = IF Read(b, k).ok THEN InPlace!AppendAll(Read(b, k).p, in[k].form)
                               ELSE Read(b, k)
<1> DEFINE e == k + 1
<1>1. /\ Len(in) \in Nat /\ in \in Seq(Node) /\ b \in 1 .. Len(in) + 1 /\ k \in b .. Len(in) + 1
      /\ e \in k .. Len(in) + 1 /\ k \in 1 .. Len(in)
  BY LenProperties DEF Alone
<1>2. Text(k, e) = in[k].form
  BY <1>1, TextOfNode
<1> HIDE DEF e
<1>3. /\ Read(b, k) \in Answer /\ Read(b, k).ok \in BOOLEAN /\ Read(b, k).p \in Parser
      /\ Read(b, e) = IF Read(b, k).ok THEN InPlace!AppendAll(Read(b, k).p, Text(k, e)) ELSE Read(b, k)
  BY <1>1, ReadSplits
<1> QED BY <1>2, <1>3 DEF e

LEMMA ParseIs ==
    ASSUME NEW b, NEW e
    PROVE  InPlace!Parse(Text(b, e)) = IF Read(b, e).ok THEN InPlace!Done(Read(b, e).p) ELSE Read(b, e)
BY DEF InPlace!Parse, Read

\* A stretch that ends with a separator and was read is read without it, as the
\* same number.
LEMMA SeparatorLast ==
    ASSUME Alone, NEW b \in 1 .. Len(in), NEW k \in b .. Len(in),
           NEW c \in {Comma, Point}, in[k].form = <<c>>, Read(b, k + 1).ok
    PROVE  /\ b < k /\ Read(b, k).ok
           /\ InPlace!Render(InPlace!Done(Read(b, k + 1).p).p.total)
              = InPlace!Render(InPlace!Done(Read(b, k).p).p.total)
<1>1. /\ Read(b, k).ok \in BOOLEAN /\ Read(b, k).p \in Parser
      /\ Read(b, k + 1) = IF Read(b, k).ok THEN InPlace!AppendAll(Read(b, k).p, <<c>>) ELSE Read(b, k)
  BY ReadGrows
<1>2. Read(b, k).ok
  BY <1>1
<1>3. c \in Characters
  BY DEF Characters
<1>4. Read(b, k + 1) = InPlace!AppendChar(Read(b, k).p, c)
  BY <1>1, <1>2, <1>3, AppendOne
<1>5. b # k
  <2> SUFFICES ASSUME b = k PROVE FALSE
    OBVIOUS
  <2>1. Read(k, k) = InPlace!Yes(InPlace!NewParser)
    <3>1. in \in Seq(Node) /\ k \in 1 .. Len(in) + 1
      BY DEF Alone
    <3> QED BY <3>1, ReadNone
  <2>2. Read(k, k).p = InPlace!NewParser
    BY <2>1 DEF InPlace!Yes
  <2>3. Read(b, k + 1) = InPlace!AppendAll(InPlace!NewParser, <<c>>)
    BY <1>1, <1>2, <2>2
  <2> QED BY <2>3, NoSeparatorFirst
<1>6. InPlace!Render(InPlace!Done(InPlace!AppendChar(Read(b, k).p, c).p).p.total)
      = InPlace!Render(InPlace!Done(Read(b, k).p).p.total)
  <2> DEFINE q == Read(b, k).p
  <2>1. q \in Parser /\ InPlace!AppendChar(q, c).ok
    BY <1>1, <1>4
  <2> HIDE DEF q
  <2>2. InPlace!Render(InPlace!Done(InPlace!AppendChar(q, c).p).p.total)
        = InPlace!Render(InPlace!Done(q).p.total)
    BY <2>1, SeparatorKeepsNumber
  <2> QED BY <2>2 DEF q
<1>7. b < k
  BY <1>5, LenProperties DEF Alone
<1> QED BY <1>2, <1>4, <1>6, <1>7

LEMMA SeparatorForms ==
    ASSUME NEW n, NEW q, InPlace!EndsWithSeparator(n, q)
    PROVE  \E c \in {Comma, Point} : n.form = <<c>>
BY DEF InPlace!EndsWithSeparator, InPlace!Comma, InPlace!Point, Comma, Point

-----------------------------------------------------------------------------
(* The nodes of the path that is made have the form of their number         *)

FormRight(n) ==
    (Normalize /\ Len(n.parts) > 1 /\ InPlace!Parse(Source(n)).ok) =>
        n.form = InPlace!Render(InPlace!Parse(Source(n)).p.total)

\* The number of a stretch is the total of q.
Reads(b, e, q) ==
    InPlace!Parse(Text(b, e)).ok =>
        InPlace!Render(q.total) = InPlace!Render(InPlace!Parse(Text(b, e)).p.total)

LEMMA JoinedRight ==
    ASSUME NEW b, NEW e, NEW q, Reads(b, e, q)
    PROVE  FormRight(InPlace!Join(Stretch(b, e), q))
<1> DEFINE n == InPlace!Join(Stretch(b, e), q)
<1>1. n.parts = Parts(Stretch(b, e))
  BY JoinedParts
<1>2. Normalize => n.form = InPlace!Render(q.total)
  BY DEF InPlace!Join, InPlace!JoinNodes
<1> HIDE DEF n
<1>3. Source(n) = Text(b, e)
  BY <1>1 DEF Source, Text
<1>4. FormRight(n)
  BY <1>2, <1>3 DEF FormRight, Reads
<1> QED BY <1>4 DEF n

LEMMA AloneRight ==
    ASSUME Alone, NEW k \in 1 .. Len(in)
    PROVE  FormRight(in[k])
<1>1. Len(in[k].parts) = 1
  BY TextOfNode
<1> QED BY <1>1 DEF FormRight

\* What is being read as a number is the parser's, and are nodes that may be
\* part of one.
ReadSo ==
    begin # 0 => /\ Read(begin, i) = InPlace!Yes(p)
                 /\ \A k \in begin .. i - 1 : InPlace!IsNumber(in[k], TRUE, TRUE)

LEMMA ReadingIs ==
    ASSUME Indexes, Alone, ReadSo, AppendNode
    PROVE  LET from == IF begin = 0 THEN i ELSE begin
               r == InPlace!AppendAll(Reading, in[i].form)
           IN  /\ from \in 1 .. Len(in) /\ i \in from .. Len(in) /\ i \in Nat
               /\ (begin = 0 => from = i) /\ (begin # 0 => from = begin)
               /\ Read(from, i + 1) = r /\ r.ok \in BOOLEAN
<1> DEFINE from == IF begin = 0 THEN i ELSE begin
           r == InPlace!AppendAll(Reading, in[i].form)
<1>1. ~done /\ i <= Len(in)
  BY DEF AppendNode
<1>2. Len(in) \in Nat /\ in \in Seq(Node)
  BY LenProperties DEF Alone
<1>3. /\ from \in 1 .. Len(in) /\ i \in from .. Len(in) /\ i \in Nat
      /\ (begin = 0 => from = i) /\ (begin # 0 => from = begin)
  BY <1>1, <1>2 DEF Indexes
<1>4. Read(from, i) = InPlace!Yes(Reading)
  <2>1. CASE begin = 0
    <3>1. Read(i, i) = InPlace!Yes(InPlace!NewParser)
      <4>1. i \in 1 .. Len(in) + 1
        BY <1>1, <1>2, <1>3
      <4> QED BY <1>2, <4>1, ReadNone
    <3> QED BY <2>1, <3>1 DEF Reading
  <2>2. CASE begin # 0
    BY <2>2 DEF ReadSo, Reading
  <2> QED BY <2>1, <2>2
<1> HIDE DEF from
<1>5. Read(from, i + 1) = IF Read(from, i).ok THEN InPlace!AppendAll(Read(from, i).p, in[i].form)
                          ELSE Read(from, i)
  BY <1>3, ReadGrows
<1>6. Read(from, i).ok /\ Read(from, i).p = Reading
  BY <1>4 DEF InPlace!Yes
<1>7. Read(from, i + 1) = r
  BY <1>5, <1>6
<1>8. Read(from, i + 1).ok \in BOOLEAN
  <2> DEFINE e == i + 1
  <2>1. /\ from \in 1 .. Len(in) + 1 /\ e \in from .. Len(in) + 1 /\ e \in e .. Len(in) + 1
    BY <1>2, <1>3
  <2> HIDE DEF e
  <2>2. Read(from, e).ok \in BOOLEAN
    BY <1>2, <2>1, ReadSplits
  <2> QED BY <2>2 DEF e
<1> QED BY <1>3, <1>7, <1>8 DEF from

LEMMA AppendNodeReadSo ==
    ASSUME Indexes, Alone, ReadSo, AppendNode
    PROVE  ReadSo'
<1> DEFINE from == IF begin = 0 THEN i ELSE begin
           r == InPlace!AppendAll(Reading, in[i].form)
<1>1. /\ InPlace!IsNumber(in[i], commaAsDigit, periodAsDigit)
      /\ p' = r.p /\ begin' = IF r.ok THEN from ELSE 0
      /\ i' = IF r.ok \/ r.p.err = "none" THEN i + 1 ELSE from
      /\ in' = in
  BY DEF AppendNode
<1>2. /\ from \in 1 .. Len(in) /\ i \in from .. Len(in) /\ i \in Nat
      /\ (begin = 0 => from = i) /\ (begin # 0 => from = begin)
      /\ Read(from, i + 1) = r /\ r.ok \in BOOLEAN
  BY ReadingIs
<1>3. InPlace!IsNumber(in[i], TRUE, TRUE)
  BY <1>1 DEF InPlace!IsNumber
<1>4. \A k \in from .. i : InPlace!IsNumber(in[k], TRUE, TRUE)
  <2> SUFFICES ASSUME NEW k \in from .. i PROVE InPlace!IsNumber(in[k], TRUE, TRUE)
    OBVIOUS
  <2>1. CASE k = i
    BY <1>3, <2>1
  <2>2. CASE k # i
    <3>1. begin # 0 /\ k \in begin .. i - 1
      BY <1>2, <2>2
    <3> QED BY <3>1 DEF ReadSo
  <2> QED BY <2>1, <2>2
<1>5. r.ok => Read(from, i + 1) = InPlace!Yes(r.p)
  <2> DEFINE e == i + 1
  <2>1. /\ from \in 1 .. Len(in) + 1 /\ e \in from .. Len(in) + 1 /\ e \in e .. Len(in) + 1
        /\ in \in Seq(Node)
    <3>1. Len(in) \in Nat /\ in \in Seq(Node)
      BY LenProperties DEF Alone
    <3> HIDE DEF from
    <3> QED BY <1>2, <3>1
  <2> HIDE DEF e
  <2>2. Read(from, e) \in Answer
    BY <2>1, ReadSplits
  <2>3. r \in Answer
    BY <1>2, <2>2 DEF e
  <2> HIDE DEF r
  <2> QED BY <1>2, <2>3 DEF Answer, InPlace!Yes
<1> HIDE DEF from, r
<1>6. ASSUME begin' # 0 PROVE r.ok /\ begin' = from /\ i' = i + 1
  BY <1>1, <1>2, <1>6
<1>7. ASSUME begin' # 0
      PROVE  Read(begin, i)' = InPlace!Yes(p')
  <2>1. Read(begin, i)' = Read(begin', i')
    BY <1>1 DEF Read, Text, Stretch, Parts
  <2> QED BY <1>1, <1>5, <1>6, <1>7, <2>1
<1>8. ASSUME begin' # 0, NEW k \in begin' .. i' - 1
      PROVE  InPlace!IsNumber(in'[k], TRUE, TRUE)
  <2>1. k \in from .. i
    BY <1>2, <1>6, <1>8
  <2> QED BY <1>1, <1>4, <2>1
<1>9. InPlace!Yes(p)' = InPlace!Yes(p')
  BY DEF InPlace!Yes
<1> QED BY <1>7, <1>8, <1>9 DEF ReadSo, InPlace!IsNumber

LEMMA ReadSoKept ==
    ASSUME Indexes, Alone, ReadSo, [Next]_vars
    PROVE  Alone' /\ ReadSo'
<1>1. in' = in
  BY DEF Next, vars, AppendNode, SkipNode, EndNumber, EndSeparated, EndNothing, Return, PassNode
<1>2. Alone'
  BY <1>1 DEF Alone
<1>3. CASE AppendNode
  BY <1>2, <1>3, AppendNodeReadSo
<1>4. CASE SkipNode \/ EndNumber \/ EndSeparated \/ EndNothing \/ Return
  <2>1. begin' = 0
    BY <1>4 DEF SkipNode, EndNumber, EndSeparated, EndNothing, Return, PassNode
  <2> QED BY <1>2, <2>1 DEF ReadSo
<1>5. CASE UNCHANGED vars
  <2>1. ReadSo'
    BY <1>5 DEF vars, ReadSo, Read, Text, Stretch, Parts, InPlace!Yes, InPlace!IsNumber
  <2> QED BY <1>2, <2>1
<1> QED BY <1>2, <1>3, <1>4, <1>5 DEF Next

\* At a node that is no number, and at the end of the path, what has been read
\* is the number before it, without its last separator if there is one.
LEMMA NumberRead ==
    ASSUME Indexes, Alone, ReadSo, ~done, begin # 0
    PROVE  /\ begin \in next + 1 .. Len(in) /\ i \in begin + 1 .. Len(in) + 1
           /\ InPlace!Parse(Text(begin, i)) = InPlace!Done(p)
           /\ Reads(begin, i, InPlace!Done(p).p)
           /\ InPlace!EndsWithSeparator(in[i - 1], InPlace!Done(p).p) =>
                  begin < i - 1 /\ Reads(begin, i - 1, InPlace!Done(p).p)
<1>1. Len(in) \in Nat /\ in \in Seq(Node)
  BY LenProperties DEF Alone
<1>2. /\ begin \in next + 1 .. Len(in) /\ i \in begin + 1 .. Len(in) + 1 /\ i \in Nat
      /\ begin \in Nat /\ next \in Nat
  BY <1>1 DEF Indexes
<1>3. Read(begin, i).ok /\ Read(begin, i).p = p
  BY DEF ReadSo, InPlace!Yes
<1>4. InPlace!Parse(Text(begin, i)) = InPlace!Done(p)
  BY <1>3, ParseIs
<1>5. Reads(begin, i, InPlace!Done(p).p)
  BY <1>4 DEF Reads
<1>6. ASSUME InPlace!EndsWithSeparator(in[i - 1], InPlace!Done(p).p)
      PROVE  begin < i - 1 /\ Reads(begin, i - 1, InPlace!Done(p).p)
  <2> DEFINE k == i - 1
  <2>1. k \in begin .. Len(in) /\ k + 1 = i /\ begin \in 1 .. Len(in)
    BY <1>1, <1>2
  <2>2. PICK c \in {Comma, Point} : in[k].form = <<c>>
    BY <1>6, SeparatorForms
  <2> HIDE DEF k
  <2>3. /\ begin < k /\ Read(begin, k).ok
        /\ InPlace!Render(InPlace!Done(Read(begin, k + 1).p).p.total)
           = InPlace!Render(InPlace!Done(Read(begin, k).p).p.total)
    BY <1>3, <2>1, <2>2, SeparatorLast
  <2>4. InPlace!Parse(Text(begin, k)) = InPlace!Done(Read(begin, k).p)
    BY <2>3, ParseIs
  <2>5. Reads(begin, k, InPlace!Done(p).p)
    BY <1>3, <2>1, <2>3, <2>4 DEF Reads
  <2> QED BY <2>3, <2>5 DEF k
<1> QED BY <1>2, <1>4, <1>5, <1>6

Right == \E S : out \in Seq(S) /\ \A n \in S : FormRight(n)

LEMMA RightNodes ==
    ASSUME Indexes, Alone, Right
    PROVE  \E S : /\ out \in Seq(S) /\ in \in Seq(S) /\ path \in Seq(S)
                  /\ \A n \in S : FormRight(n)
<1>1. PICK S : out \in Seq(S) /\ \A n \in S : FormRight(n)
  BY DEF Right
<1>2. in \in Seq(Node) /\ Len(in) \in Nat /\ next \in 0 .. Len(in)
  BY LenProperties DEF Alone, Indexes
<1> DEFINE T == S \cup {n \in Node : FormRight(n)}
<1>3. \A n \in T : FormRight(n)
  BY <1>1
<1>4. \A k \in 1 .. Len(in) : in[k] \in T
  <2> SUFFICES ASSUME NEW k \in 1 .. Len(in) PROVE in[k] \in T
    OBVIOUS
  <2>1. in[k] \in Node /\ FormRight(in[k])
    BY AloneRight, TextOfNode
  <2> QED BY <2>1
<1>5. S \subseteq T
  OBVIOUS
<1> HIDE DEF T
<1>6. out \in Seq(T) /\ in \in Seq(T)
  BY <1>1, <1>2, <1>4, <1>5, SeqMonotonic
<1>7. path \in Seq(T)
  BY <1>2, <1>6, InPlaceElements DEF path
<1> QED BY <1>3, <1>6, <1>7

LEMMA WrittenRight ==
    ASSUME Indexes, Alone, Right, NEW b \in next + 1 .. Len(in) + 1, NEW e \in b .. Len(in) + 1,
           NEW q, Reads(b, e, q)
    PROVE  \E S : /\ Written(b, e, q) \in Seq(S) /\ in \in Seq(S)
                  /\ \A n \in S : FormRight(n)
<1> DEFINE node == InPlace!Join(Stretch(b, e), q)
           gap == SubSeq(in, next + 1, b - 1)
<1>1. PICK S : out \in Seq(S) /\ in \in Seq(S) /\ \A n \in S : FormRight(n)
  BY RightNodes
<1>2. Len(in) \in Nat /\ next \in 0 .. Len(in)
  BY LenProperties DEF Alone, Indexes
<1>3. FormRight(node)
  BY JoinedRight
<1> HIDE DEF node
<1> DEFINE T == S \cup {node}
<1>4. \A n \in T : FormRight(n)
  BY <1>1, <1>3
<1>5. S \subseteq T /\ node \in T
  OBVIOUS
<1> HIDE DEF T
<1>6. out \in Seq(T) /\ in \in Seq(T) /\ <<node>> \in Seq(T)
  BY <1>1, <1>5, SeqMonotonic
<1>7. gap \in Seq(T)
  <2>1. next + 1 .. b - 1 \subseteq 1 .. Len(in) /\ next + 1 \in Int /\ b - 1 \in Int
    BY <1>2
  <2>2. \A k \in next + 1 .. b - 1 : in[k] \in T
    BY <1>6, <2>1, ElementOfSeq
  <2> QED BY <2>1, <2>2, SubSeqProperties
<1> HIDE DEF gap
<1>8. out \o gap \in Seq(T)
  BY <1>6, <1>7, ConcatProperties
<1>9. (out \o gap) \o <<node>> \in Seq(T)
  BY <1>6, <1>8, ConcatProperties
<1>10. Written(b, e, q) = (out \o gap) \o <<node>>
  BY DEF Written, gap, node, Stretch
<1> QED BY <1>4, <1>6, <1>9, <1>10

LEMMA EmitRight ==
    ASSUME Indexes, Alone, Right,
           NEW b \in next + 1 .. Len(in) + 1, NEW e \in b .. Len(in) + 1, NEW q, Reads(b, e, q),
           IF Joins(b, e, q) THEN Emit(b, e, q) ELSE UNCHANGED <<out, next>>
    PROVE  Right'
<1>1. CASE Joins(b, e, q)
  <2>1. out' = Written(b, e, q)
    BY <1>1 DEF Emit
  <2>2. PICK S : Written(b, e, q) \in Seq(S) /\ \A n \in S : FormRight(n)
    BY WrittenRight
  <2> QED BY <2>1, <2>2 DEF Right, FormRight
<1>2. CASE ~Joins(b, e, q)
  BY <1>2 DEF Right, FormRight
<1> QED BY <1>1, <1>2

LEMMA RightKept ==
    ASSUME Indexes, Alone, ReadSo, Right, [Next]_vars
    PROVE  Right'
<1>1. ASSUME UNCHANGED out PROVE Right'
  BY <1>1 DEF Right, FormRight
<1>2. CASE AppendNode \/ SkipNode \/ EndNothing \/ UNCHANGED vars
  BY <1>1, <1>2 DEF AppendNode, SkipNode, EndNothing, vars
<1> DEFINE q == InPlace!Done(p).p
<1>3. ASSUME ~done, begin # 0
      PROVE  /\ begin \in next + 1 .. Len(in) + 1 /\ i \in begin .. Len(in) + 1
             /\ Reads(begin, i, q)
             /\ InPlace!EndsWithSeparator(in[i - 1], q) =>
                    i - 1 \in begin .. Len(in) + 1 /\ Reads(begin, i - 1, q)
  <2>1. /\ begin \in next + 1 .. Len(in) /\ i \in begin + 1 .. Len(in) + 1
        /\ Reads(begin, i, q)
        /\ InPlace!EndsWithSeparator(in[i - 1], q) => begin < i - 1 /\ Reads(begin, i - 1, q)
    BY <1>3, NumberRead
  <2>2. Len(in) \in Nat /\ next \in Nat
    BY LenProperties DEF Indexes
  <2> HIDE DEF q
  <2> QED BY <2>1, <2>2
<1>4. CASE EndNumber
  <2>1. ~done /\ begin # 0
    BY <1>4 DEF EndNumber, AtOther
  <2>2. IF Joins(begin, i, q) THEN Emit(begin, i, q) ELSE UNCHANGED <<out, next>>
    BY <1>4 DEF EndNumber
  <2> HIDE DEF q
  <2> QED BY <1>3, <2>1, <2>2, EmitRight
<1>5. CASE EndSeparated
  <2>1. ~done /\ begin # 0 /\ InPlace!EndsWithSeparator(in[i - 1], q)
    BY <1>5 DEF EndSeparated, AtOther
  <2>2. IF Joins(begin, i - 1, q) THEN Emit(begin, i - 1, q) ELSE UNCHANGED <<out, next>>
    BY <1>5 DEF EndSeparated
  <2> HIDE DEF q
  <2> QED BY <1>3, <2>1, <2>2, EmitRight
<1>6. CASE Return
  <2> DEFINE r == InPlace!Done(p)
             last == IF r.ok THEN i ELSE i - 1
             joins == /\ begin # 0 /\ Joins(begin, last, r.p)
                      /\ r.ok \/ InPlace!EndsWithSeparator(in[i - 1], r.p)
  <2>1. /\ ~done
        /\ out' = IF joins THEN Written(begin, last, r.p) \o SubSeq(in, last, Len(in)) ELSE path
    BY <1>6 DEF Return
  <2> HIDE DEF r
  <2>2. CASE joins
    <3>1. /\ begin \in next + 1 .. Len(in) + 1 /\ last \in begin .. Len(in) + 1
          /\ Reads(begin, last, r.p)
      BY <1>3, <2>1, <2>2 DEF r
    <3> HIDE DEF last
    <3>2. PICK S : /\ Written(begin, last, r.p) \in Seq(S) /\ in \in Seq(S)
                   /\ \A n \in S : FormRight(n)
      BY <3>1, WrittenRight
    <3>3. SubSeq(in, last, Len(in)) \in Seq(S)
      <4>1. Len(in) \in Nat /\ last \in Int /\ last .. Len(in) \subseteq 1 .. Len(in)
        BY <3>1, LenProperties DEF Indexes
      <4>2. \A k \in last .. Len(in) : in[k] \in S
        BY <3>2, <4>1, ElementOfSeq
      <4> QED BY <4>1, <4>2, SubSeqProperties
    <3>4. out' \in Seq(S)
      BY <2>1, <2>2, <3>2, <3>3, ConcatProperties DEF last
    <3> QED BY <3>2, <3>4 DEF Right, FormRight
  <2>3. CASE ~joins
    <3>1. out' = path
      BY <2>1, <2>3
    <3>2. PICK S : path \in Seq(S) /\ \A n \in S : FormRight(n)
      BY RightNodes
    <3> QED BY <3>1, <3>2 DEF Right, FormRight
  <2> QED BY <2>2, <2>3
<1> QED BY <1>2, <1>4, <1>5, <1>6 DEF Next

LEMMA RightIsForm ==
    ASSUME Indexes, Alone, Right
    PROVE  JoinedForm
<1>1. PICK S : path \in Seq(S) /\ \A n \in S : FormRight(n)
  BY RightNodes
<1>2. \A k \in DOMAIN path : path[k] \in S
  BY <1>1, LenProperties
<1> HIDE DEF path
<1> QED BY <1>1, <1>2 DEF JoinedForm, FormRight

-----------------------------------------------------------------------------
(* Where a stretch of the path given is one node of the path made           *)

JoinedAt(s, b, e) ==
    \E k \in DOMAIN s : Len(Parts(SubSeq(s, 1, k - 1))) = b - 1 /\ Len(s[k].parts) = e - b + 1

\* It stays there, whatever is put behind.
LEMMA JoinedStays ==
    ASSUME NEW S, NEW s \in Seq(S), NEW t \in Seq(S), NEW b, NEW e, JoinedAt(s, b, e)
    PROVE  JoinedAt(s \o t, b, e)
<1>1. /\ Len(s) \in Nat /\ DOMAIN s = 1 .. Len(s) /\ Len(t) \in Nat
  BY LenProperties
<1>2. /\ s \o t \in Seq(S) /\ Len(s \o t) = Len(s) + Len(t)
      /\ \A k \in 1 .. Len(s) + Len(t) : (s \o t)[k] = IF k <= Len(s) THEN s[k] ELSE t[k - Len(s)]
  BY ConcatProperties
<1>3. PICK k \in 1 .. Len(s) : Len(Parts(SubSeq(s, 1, k - 1))) = b - 1 /\ Len(s[k].parts) = e - b + 1
  BY <1>1 DEF JoinedAt
<1> DEFINE u == s \o t
<1>4. u \in Seq(S) /\ DOMAIN u = 1 .. Len(u) /\ k \in 1 .. Len(u) /\ u[k] = s[k]
      /\ \A m \in 1 .. k - 1 : u[m] = s[m]
  BY <1>1, <1>2, LenProperties
<1> HIDE DEF u
<1>5. SubSeq(u, 1, k - 1) = SubSeq(s, 1, k - 1)
  <2>1. k - 1 \in Int /\ 1 \in Int /\ 1 .. k - 1 \subseteq 1 .. Len(s) /\ 1 .. k - 1 \subseteq 1 .. Len(u)
        /\ k - 1 - 1 + 1 = k - 1
    BY <1>1, <1>3, <1>4
  <2>2. \A m \in 1 .. k - 1 : u[m] \in S /\ s[m] \in S
    BY <1>4, <2>1, ElementOfSeq
  <2>3. /\ SubSeq(u, 1, k - 1) \in Seq(S)
        /\ Len(SubSeq(u, 1, k - 1)) = IF 1 <= k - 1 THEN k - 1 - 1 + 1 ELSE 0
        /\ \A m \in 1 .. k - 1 - 1 + 1 : SubSeq(u, 1, k - 1)[m] = u[1 + m - 1]
    BY <2>1, <2>2, SubSeqProperties
  <2>4. /\ SubSeq(s, 1, k - 1) \in Seq(S)
        /\ Len(SubSeq(s, 1, k - 1)) = IF 1 <= k - 1 THEN k - 1 - 1 + 1 ELSE 0
        /\ \A m \in 1 .. k - 1 - 1 + 1 : SubSeq(s, 1, k - 1)[m] = s[1 + m - 1]
    BY <2>1, <2>2, SubSeqProperties
  <2>5. Len(SubSeq(u, 1, k - 1)) = k - 1 /\ Len(SubSeq(s, 1, k - 1)) = k - 1
    BY <1>1, <1>3, <2>3, <2>4
  <2>6. \A m \in 1 .. k - 1 : SubSeq(u, 1, k - 1)[m] = SubSeq(s, 1, k - 1)[m]
    <3> SUFFICES ASSUME NEW m \in 1 .. k - 1 PROVE SubSeq(u, 1, k - 1)[m] = SubSeq(s, 1, k - 1)[m]
      OBVIOUS
    <3>1. 1 + m - 1 = m /\ m \in 1 .. k - 1 - 1 + 1
      BY <2>1
    <3> QED BY <1>4, <2>3, <2>4, <3>1
  <2> QED BY <2>3, <2>4, <2>5, <2>6, SeqEqual
<1>6. JoinedAt(u, b, e)
  BY <1>3, <1>4, <1>5 DEF JoinedAt
<1> QED BY <1>6 DEF u

LEMMA NodeJoined ==
    ASSUME NEW S, NEW s \in Seq(S), NEW n \in S, NEW b, NEW e,
           Len(Parts(s)) = b - 1, Len(n.parts) = e - b + 1
    PROVE  JoinedAt(s \o <<n>>, b, e)
<1> DEFINE u == s \o <<n>>
           k == Len(s) + 1
<1>1. Len(s) \in Nat /\ DOMAIN s = 1 .. Len(s)
  BY LenProperties
<1>2. <<n>> \in Seq(S) /\ Len(<<n>>) = 1 /\ <<n>>[1] = n
  OBVIOUS
<1>3. /\ u \in Seq(S) /\ Len(u) = Len(s) + Len(<<n>>)
      /\ \A m \in 1 .. Len(s) + Len(<<n>>) : u[m] = IF m <= Len(s) THEN s[m] ELSE <<n>>[m - Len(s)]
  BY <1>2, ConcatProperties
<1> HIDE DEF u
<1>4. /\ DOMAIN u = 1 .. Len(s) + 1 /\ k \in DOMAIN u /\ u[k] = n /\ k - 1 = Len(s)
      /\ \A m \in 1 .. Len(s) : u[m] = s[m]
  <2>1. DOMAIN u = 1 .. Len(s) + 1
    BY <1>2, <1>3, LenProperties
  <2>2. k \in 1 .. Len(s) + 1 /\ ~(k <= Len(s)) /\ k - Len(s) = 1 /\ k - 1 = Len(s)
    BY <1>1
  <2>3. \A m \in 1 .. Len(s) : u[m] = s[m]
    BY <1>1, <1>2, <1>3
  <2> HIDE DEF k
  <2>4. u[k] = n
    BY <1>2, <1>3, <2>2
  <2> QED BY <2>1, <2>2, <2>3, <2>4
<1>5. SubSeq(u, 1, Len(s)) = s
  <2>1. Len(s) \in Int /\ 1 \in Int /\ \A m \in 1 .. Len(s) : u[m] \in S
    BY <1>1, <1>4, ElementOfSeq
  <2>2. /\ SubSeq(u, 1, Len(s)) \in Seq(S)
        /\ Len(SubSeq(u, 1, Len(s))) = IF 1 <= Len(s) THEN Len(s) - 1 + 1 ELSE 0
        /\ \A m \in 1 .. Len(s) - 1 + 1 : SubSeq(u, 1, Len(s))[m] = u[1 + m - 1]
    BY <2>1, SubSeqProperties
  <2>3. Len(SubSeq(u, 1, Len(s))) = Len(s)
    BY <1>1, <2>2
  <2>4. \A m \in 1 .. Len(s) : SubSeq(u, 1, Len(s))[m] = s[m]
    <3> SUFFICES ASSUME NEW m \in 1 .. Len(s) PROVE SubSeq(u, 1, Len(s))[m] = s[m]
      OBVIOUS
    <3>1. 1 + m - 1 = m /\ m \in 1 .. Len(s) - 1 + 1
      BY <1>1
    <3> QED BY <1>4, <2>2, <3>1
  <2> QED BY <2>2, <2>3, <2>4, SeqEqual
<1> HIDE DEF k
<1>6. JoinedAt(u, b, e)
  BY <1>4, <1>5 DEF JoinedAt
<1> QED BY <1>6 DEF u

\* The path made stands for the nodes before next.
Counted == Len(Parts(out)) = next

\* What is out, with the nodes up to b behind it.
MadeUpTo(b) == out \o Stretch(next + 1, b)

LEMMA OutCounts ==
    ASSUME Indexes, Alone, Whole, Counted, NEW b \in next + 1 .. Len(in) + 1
    PROVE  /\ \E S : MadeUpTo(b) \in Seq(S) /\ out \in Seq(S) /\ in \in Seq(S) /\ Made(S)
           /\ Len(Parts(MadeUpTo(b))) = b - 1
<1>1. PICK S : out \in Seq(S) /\ Made(S)
  BY DEF Whole
<1> DEFINE T == S \cup Node
           gap == Stretch(next + 1, b)
<1>2. in \in Seq(Node) /\ Len(in) \in Nat /\ next \in 0 .. Len(in)
  BY LenProperties DEF Indexes
<1>3. Made(T)
  BY <1>1 DEF Made, Node, Form
<1>4. S \subseteq T /\ Node \subseteq T
  OBVIOUS
<1> HIDE DEF T
<1>5. gap \in Seq(Node) /\ Len(Parts(gap)) = b - (next + 1)
  <2> DEFINE a == next + 1
  <2>1. a \in 1 .. Len(in) + 1 /\ b \in a .. Len(in) + 1 /\ b \in b .. Len(in) + 1
    BY <1>2
  <2> HIDE DEF a
  <2>2. Stretch(a, b) \in Seq(Node) /\ Len(Parts(Stretch(a, b))) = b - a
    BY <1>2, <2>1, StretchSplits, PartsCount
  <2> QED BY <2>2 DEF a
<1> HIDE DEF gap
<1>6. out \in Seq(T) /\ in \in Seq(T) /\ gap \in Seq(T)
  BY <1>1, <1>2, <1>4, <1>5, SeqMonotonic
<1>7. out \o gap \in Seq(T)
  BY <1>6, ConcatProperties
<1>8. /\ Parts(out \o gap) = Parts(out) \o Parts(gap)
      /\ Parts(out) \in Seq(Form) /\ Parts(gap) \in Seq(Form)
  BY <1>3, <1>6, PartsConcat
<1>9. Len(Parts(out \o gap)) = Len(Parts(out)) + Len(Parts(gap))
  <2> DEFINE x == Parts(out)
             y == Parts(gap)
  <2>1. x \in Seq(Form) /\ y \in Seq(Form)
    BY <1>8
  <2> HIDE DEF x, y
  <2>2. Len(x \o y) = Len(x) + Len(y)
    BY <2>1, ConcatProperties
  <2> QED BY <1>8, <2>2 DEF x, y
<1>10. Len(Parts(out \o gap)) = b - 1
  BY <1>2, <1>5, <1>9 DEF Counted
<1> QED BY <1>3, <1>6, <1>7, <1>10 DEF MadeUpTo, gap

\* A node that is left as it is stands for itself in the path made.
LEMMA GapJoined ==
    ASSUME Indexes, Alone, Whole, Counted, NEW m \in next + 1 .. Len(in) + 1,
           NEW b \in next + 1 .. m - 1
    PROVE  JoinedAt(MadeUpTo(m), b, b)
<1>1. Len(in) \in Nat /\ in \in Seq(Node) /\ next \in 0 .. Len(in) /\ b \in Nat
  BY LenProperties DEF Indexes
<1> DEFINE c == b + 1
           a == next + 1
<1>2. /\ b \in next + 1 .. Len(in) + 1 /\ b \in 1 .. Len(in) /\ c \in next + 1 .. Len(in) + 1
      /\ a \in 1 .. Len(in) + 1 /\ b \in a .. Len(in) + 1 /\ c \in b .. Len(in) + 1
      /\ m \in c .. Len(in) + 1 /\ c \in a .. Len(in) + 1 /\ b - b + 1 = 1
  BY <1>1
<1>3. Len(Parts(MadeUpTo(b))) = b - 1
  BY <1>2, OutCounts
<1>4. PICK S : MadeUpTo(m) \in Seq(S) /\ out \in Seq(S) /\ in \in Seq(S) /\ Made(S)
  BY OutCounts
<1> HIDE DEF a, c
<1>5. /\ Stretch(a, c) = Stretch(a, b) \o Stretch(b, c) /\ Stretch(a, m) = Stretch(a, c) \o Stretch(c, m)
  BY <1>1, <1>2, StretchSplits
<1>6. ASSUME NEW x \in 1 .. Len(in) + 1, NEW y \in x .. Len(in) + 1
      PROVE  Stretch(x, y) \in Seq(S)
  <2>1. x \in Int /\ y - 1 \in Int /\ x .. y - 1 \subseteq 1 .. Len(in)
    BY <1>1
  <2>2. \A k \in x .. y - 1 : in[k] \in S
    BY <1>4, <2>1, ElementOfSeq
  <2> QED BY <2>1, <2>2, SubSeqProperties DEF Stretch
<1>7. /\ Stretch(a, b) \in Seq(S) /\ Stretch(b, c) \in Seq(S) /\ Stretch(c, m) \in Seq(S)
      /\ Stretch(a, c) \in Seq(S)
  <2>1. b \in 1 .. Len(in) + 1 /\ c \in 1 .. Len(in) + 1
    BY <1>1, <1>2
  <2> QED BY <1>2, <1>6, <2>1
<1>8. Stretch(b, c) = <<in[b]>> /\ in[b] \in S /\ Len(in[b].parts) = 1
  <2>1. in[b].parts = <<in[b].form>>
    BY <1>2, TextOfNode
  <2>2. in[b] \in S
    BY <1>2, <1>4, ElementOfSeq
  <2>3. Stretch(b, c) = <<in[b]>>
    BY <1>2, TextOfNode DEF c
  <2> QED BY <2>1, <2>2, <2>3
<1> DEFINE n == in[b]
<1>9. out \o Stretch(a, b) \in Seq(S) /\ n \in S /\ Len(n.parts) = b - b + 1
  BY <1>2, <1>4, <1>7, <1>8, ConcatProperties
<1>10. Len(Parts(out \o Stretch(a, b))) = b - 1
  BY <1>3 DEF MadeUpTo, a
<1> HIDE DEF n
<1>11. JoinedAt((out \o Stretch(a, b)) \o <<n>>, b, b)
  <2> DEFINE s == out \o Stretch(a, b)
  <2>1. s \in Seq(S) /\ Len(Parts(s)) = b - 1
    BY <1>9, <1>10
  <2> HIDE DEF s
  <2>2. JoinedAt(s \o <<n>>, b, b)
    BY <1>9, <2>1, NodeJoined
  <2> QED BY <2>2 DEF s
<1>12. MadeUpTo(m) = ((out \o Stretch(a, b)) \o <<n>>) \o Stretch(c, m)
  <2> DEFINE x == Stretch(a, b)
             y == Stretch(b, c)
             z == Stretch(c, m)
  <2>1. out \in Seq(S) /\ x \in Seq(S) /\ y \in Seq(S) /\ z \in Seq(S) /\ Stretch(a, m) = (x \o y) \o z
    BY <1>4, <1>5, <1>7
  <2>2. y = <<n>>
    BY <1>8 DEF n
  <2> HIDE DEF x, y, z
  <2>3. x \o y \in Seq(S)
    BY <2>1, ConcatProperties
  <2>0. \A f, g, h \in Seq(S) : (f \o g) \o h = f \o (g \o h)
    BY ConcatAssociative, SMTT(30)
  <2>4. out \o ((x \o y) \o z) = (out \o (x \o y)) \o z
    BY <2>0, <2>1, <2>3, ZenonT(60)
  <2>5. out \o (x \o y) = (out \o x) \o y
    BY <2>0, <2>1, ZenonT(60)
  <2> QED BY <2>1, <2>2, <2>4, <2>5 DEF MadeUpTo, a, x, z
<1>13. (out \o Stretch(a, b)) \o <<n>> \in Seq(S)
  <2>1. <<n>> \in Seq(S)
    BY <1>9
  <2> QED BY <1>9, <2>1, ConcatProperties
<1>14. JoinedAt(((out \o Stretch(a, b)) \o <<n>>) \o Stretch(c, m), b, b)
  <2> DEFINE s == (out \o Stretch(a, b)) \o <<n>>
             t == Stretch(c, m)
  <2>1. s \in Seq(S) /\ t \in Seq(S) /\ JoinedAt(s, b, b)
    BY <1>7, <1>11, <1>13
  <2> HIDE DEF s, t
  <2>2. JoinedAt(s \o t, b, b)
    BY <2>1, JoinedStays
  <2> QED BY <2>2 DEF s, t
<1> QED BY <1>12, <1>14

LEMMA OutStays ==
    ASSUME Indexes, Alone, Whole, Counted, NEW b \in next + 1 .. Len(in) + 1, NEW c, NEW d,
           JoinedAt(out, c, d)
    PROVE  JoinedAt(MadeUpTo(b), c, d)
<1>1. PICK S : MadeUpTo(b) \in Seq(S) /\ out \in Seq(S) /\ in \in Seq(S) /\ Made(S)
  BY OutCounts
<1>2. Stretch(next + 1, b) \in Seq(S)
  <2>1. next + 1 \in Int /\ b - 1 \in Int /\ next + 1 .. b - 1 \subseteq 1 .. Len(in)
    BY LenProperties DEF Indexes
  <2>2. \A k \in next + 1 .. b - 1 : in[k] \in S
    BY <1>1, <2>1, ElementOfSeq
  <2> QED BY <2>1, <2>2, SubSeqProperties DEF Stretch
<1> DEFINE t == Stretch(next + 1, b)
<1>3. t \in Seq(S)
  BY <1>2
<1> HIDE DEF t
<1>4. JoinedAt(out \o t, c, d)
  BY <1>1, <1>3, JoinedStays
<1> QED BY <1>4 DEF MadeUpTo, t

\* A join keeps what was joined before, and every node passed.
LEMMA WrittenJoined ==
    ASSUME Indexes, Alone, Whole, Counted, NEW b \in next + 1 .. Len(in) + 1,
           NEW e \in b .. Len(in) + 1, NEW q
    PROVE  /\ Len(Parts(Written(b, e, q))) = e - 1
           /\ JoinedAt(Written(b, e, q), b, e - 1)
           /\ \A c, d : JoinedAt(out, c, d) => JoinedAt(Written(b, e, q), c, d)
           /\ \A c \in next + 1 .. b - 1 : JoinedAt(Written(b, e, q), c, c)
<1> DEFINE node == InPlace!Join(Stretch(b, e), q)
           s == MadeUpTo(b)
<1>1. PICK S : s \in Seq(S) /\ in \in Seq(S) /\ Made(S)
  BY OutCounts
<1>2. Len(Parts(s)) = b - 1
  BY OutCounts
<1>3. Len(in) \in Nat /\ next \in 0 .. Len(in) /\ in \in Seq(Node)
  BY LenProperties DEF Indexes
<1>4. node.parts = Parts(Stretch(b, e))
  BY JoinedParts
<1>5. node.parts \in Seq(Form) /\ Len(node.parts) = e - b
  <2>1. b \in 1 .. Len(in) + 1 /\ e \in e .. Len(in) + 1
    BY <1>3
  <2>2. Parts(Stretch(b, e)) \in Seq(Form) /\ Len(Parts(Stretch(b, e))) = e - b
    BY <1>3, <2>1, TextSplits, PartsCount
  <2> QED BY <1>4, <2>2
<1>6. Written(b, e, q) = s \o <<node>>
  BY DEF Written, MadeUpTo, Stretch
<1>9. \A c, d : JoinedAt(out, c, d) => JoinedAt(s, c, d)
  BY OutStays
<1>10. \A c \in next + 1 .. b - 1 : JoinedAt(s, c, c)
  BY GapJoined
<1> HIDE DEF node, s
<1> DEFINE T == S \cup {node}
<1>7. s \in Seq(T) /\ node \in T /\ <<node>> \in Seq(T) /\ Made(T)
  <2>1. S \subseteq T
    OBVIOUS
  <2>2. Made(T)
    BY <1>1, <1>5 DEF Made
  <2> QED BY <1>1, <2>1, <2>2, SeqMonotonic
<1> HIDE DEF T
<1>8. Len(node.parts) = (e - 1) - b + 1
  BY <1>3, <1>5
<1>11. JoinedAt(s \o <<node>>, b, e - 1)
  <2> DEFINE x == e - 1
  <2>1. Len(node.parts) = x - b + 1
    BY <1>8
  <2> HIDE DEF x
  <2>2. JoinedAt(s \o <<node>>, b, x)
    BY <1>2, <1>7, <2>1, NodeJoined
  <2> QED BY <2>2 DEF x
<1>12. \A c, d : JoinedAt(s, c, d) => JoinedAt(s \o <<node>>, c, d)
  BY <1>7, JoinedStays
<1>13. Len(Parts(s \o <<node>>)) = e - 1
  <2> DEFINE x == Parts(s)
             y == Parts(<<node>>)
  <2>1. Parts(s \o <<node>>) = x \o y /\ x \in Seq(Form) /\ y \in Seq(Form)
    BY <1>7, PartsConcat
  <2>2. y = node.parts
    BY <1>5, PartsOfOne
  <2>3. Len(x) = b - 1 /\ Len(y) = e - b
    BY <1>2, <1>5, <2>2
  <2> HIDE DEF x, y
  <2>4. Len(x \o y) = Len(x) + Len(y)
    BY <2>1, ConcatProperties
  <2> QED BY <1>3, <2>1, <2>3, <2>4
<1> QED BY <1>6, <1>9, <1>10, <1>11, <1>12, <1>13

LEMMA PathJoined ==
    ASSUME Indexes, Alone, Whole, Counted
    PROVE  /\ \A c, d : JoinedAt(out, c, d) => JoinedAt(path, c, d)
           /\ \A c \in next + 1 .. Len(in) : JoinedAt(path, c, c)
           /\ Len(Parts(path)) = Len(in)
<1> DEFINE m == Len(in) + 1
<1>1. Len(in) \in Nat /\ next \in 0 .. Len(in) /\ m - 1 = Len(in) /\ m \in next + 1 .. Len(in) + 1
  BY LenProperties DEF Indexes
<1>2. path = MadeUpTo(m)
  BY <1>1 DEF path, MadeUpTo, Stretch
<1> HIDE DEF m
<1>3. /\ \A c, d : JoinedAt(out, c, d) => JoinedAt(MadeUpTo(m), c, d)
      /\ \A c \in next + 1 .. m - 1 : JoinedAt(MadeUpTo(m), c, c)
      /\ Len(Parts(MadeUpTo(m))) = m - 1
  BY <1>1, OutStays, GapJoined, OutCounts
<1> QED BY <1>1, <1>2, <1>3

\* The path returned is what is out.
LEMMA ReturnedIsOut ==
    ASSUME Whole', in' = in, next' = Len(in), Len(in) \in Nat
    PROVE  path' = out'
<1>1. PICK S : out' \in Seq(S)
  BY DEF Whole
<1>2. path' = out' \o SubSeq(in, Len(in) + 1, Len(in))
  BY DEF path
<1> QED BY <1>1, <1>2, NothingLeft

LEMMA CountedKept ==
    ASSUME Indexes, Alone, Whole, Counted, ReadSo, [Next]_vars
    PROVE  Counted'
<1>1. ASSUME UNCHANGED <<out, next>> PROVE Counted'
  BY <1>1 DEF Counted, Parts
<1>2. CASE AppendNode \/ SkipNode \/ EndNothing \/ UNCHANGED vars
  BY <1>1, <1>2 DEF AppendNode, SkipNode, EndNothing, vars
<1> DEFINE q == InPlace!Done(p).p
<1>3. Len(in) \in Nat /\ next \in Nat
  BY LenProperties DEF Indexes
<1>4. ASSUME ~done, begin # 0
      PROVE  /\ begin \in next + 1 .. Len(in) + 1 /\ i \in begin .. Len(in) + 1
             /\ InPlace!EndsWithSeparator(in[i - 1], q) => i - 1 \in begin .. Len(in) + 1
  <2>1. /\ begin \in next + 1 .. Len(in) /\ i \in begin + 1 .. Len(in) + 1
        /\ InPlace!EndsWithSeparator(in[i - 1], q) => begin < i - 1
    BY <1>4, NumberRead
  <2> HIDE DEF q
  <2> QED BY <1>3, <2>1
<1>5. ASSUME NEW e, ~done, begin # 0, e \in begin .. Len(in) + 1,
             IF Joins(begin, e, q) THEN Emit(begin, e, q) ELSE UNCHANGED <<out, next>>
      PROVE  Counted'
  <2>1. CASE Joins(begin, e, q)
    <3>1. out' = Written(begin, e, q) /\ next' = e - 1
      BY <1>5, <2>1 DEF Emit
    <3>2. begin \in next + 1 .. Len(in) + 1
      BY <1>4, <1>5
    <3> HIDE DEF q
    <3>3. Len(Parts(Written(begin, e, q))) = e - 1
      BY <1>5, <3>2, WrittenJoined
    <3> QED BY <3>1, <3>3 DEF Counted, Parts
  <2>2. CASE ~Joins(begin, e, q)
    BY <1>1, <1>5, <2>2
  <2> QED BY <2>1, <2>2
<1>6. CASE EndNumber
  <2>1. /\ ~done /\ begin # 0
        /\ IF Joins(begin, i, q) THEN Emit(begin, i, q) ELSE UNCHANGED <<out, next>>
    BY <1>6 DEF EndNumber, AtOther
  <2> HIDE DEF q
  <2> QED BY <1>4, <1>5, <2>1
<1>7. CASE EndSeparated
  <2>1. /\ ~done /\ begin # 0 /\ InPlace!EndsWithSeparator(in[i - 1], q)
        /\ IF Joins(begin, i - 1, q) THEN Emit(begin, i - 1, q) ELSE UNCHANGED <<out, next>>
    BY <1>7 DEF EndSeparated, AtOther
  <2> HIDE DEF q
  <2> QED BY <1>4, <1>5, <2>1
<1>8. CASE Return
  <2>1. next' = Len(in) /\ in' = in
    BY <1>8 DEF Return
  <2>2. Whole'
    BY WholeKept
  <2>3. path' = out'
    BY <1>3, <2>1, <2>2, ReturnedIsOut
  <2>4. Parts(path') = Parts(in)
    BY <2>1, <2>2 DEF Whole, PartsKept, Parts
  <2>5. Len(Parts(in)) = Len(in)
    <3>1. Stretch(1, Len(in) + 1) = in
      <4>1. SubSeq(in, 1, Len(in)) = in /\ Len(in) + 1 - 1 = Len(in)
        BY <1>3, SubSeqFull DEF Indexes
      <4> QED BY <4>1 DEF Stretch
    <3> DEFINE a == 1
               m == Len(in) + 1
    <3>2. a \in 1 .. Len(in) + 1 /\ m \in a .. Len(in) + 1 /\ m - a = Len(in)
      BY <1>3
    <3>4. Stretch(a, m) = in
      BY <3>1
    <3> HIDE DEF a, m
    <3>3. Len(Parts(Stretch(a, m))) = m - a
      BY <3>2, PartsCount
    <3> QED BY <3>2, <3>3, <3>4
  <2> QED BY <2>1, <2>3, <2>4, <2>5 DEF Counted, Parts
<1> QED BY <1>2, <1>6, <1>7, <1>8 DEF Next

-----------------------------------------------------------------------------
(* Every run of number nodes is read from its first node to its last        *)

LEMMA RunFacts ==
    ASSUME Alone, NEW b \in 1 .. Len(in), NEW e \in b .. Len(in), NumberRun(b, e)
    PROVE  /\ \A k \in b .. e : \A x, y : InPlace!IsNumber(in[k], x, y)
           /\ \A k \in {b - 1, e + 1} \cap 1 .. Len(in) : \A x, y : ~InPlace!IsNumber(in[k], x, y)
           /\ in[b].numeral
           /\ InPlace!Parse(Text(b, e + 1)).ok
           /\ \A m \in b .. e + 1 : Read(b, m).ok
<1>1. Len(in) \in Nat /\ in \in Seq(Node) /\ DOMAIN in = 1 .. Len(in)
  BY LenProperties DEF Alone
<1>2. ASSUME NEW k \in b .. e, NEW x, NEW y PROVE InPlace!IsNumber(in[k], x, y)
  <2>1. in[k] \in Node
    BY <1>1, ElementOfSeq
  <2>2. in[k].cats # {} /\ in[k].cats \subseteq {"NUMERIC", "KANJINUMERIC"}
    BY <2>1 DEF NumberRun, IsRun, Node
  <2> QED BY <2>2 DEF InPlace!IsNumber
<1>3. ASSUME NEW k \in {b - 1, e + 1} \cap 1 .. Len(in), NEW x, NEW y
      PROVE  ~InPlace!IsNumber(in[k], x, y)
  <2>1. in[k].cats = {} /\ in[k].form # <<Comma>> /\ in[k].form # <<Point>>
    BY <1>1 DEF NumberRun, IsRun
  <2> QED BY <2>1 DEF InPlace!IsNumber, InPlace!Comma, InPlace!Point, Comma, Point
<1>4. in[b].numeral
  BY DEF NumberRun
<1>5. InPlace!Parse(Text(b, e + 1)).ok
  <2>1. (e + 1) - 1 = e
    BY <1>1
  <2>2. Stretch(b, e + 1) = SubSeq(in, b, e)
    BY <2>1 DEF Stretch
  <2> QED BY <2>2 DEF NumberRun, Text
<1>6. Read(b, e + 1).ok
  BY <1>5, ParseIs
<1>7. ASSUME NEW m \in b .. e + 1 PROVE Read(b, m).ok
  <2> DEFINE f == e + 1
  <2>1. b \in 1 .. Len(in) + 1 /\ m \in b .. Len(in) + 1 /\ f \in m .. Len(in) + 1
    BY <1>1
  <2>2. Read(b, f).ok
    BY <1>6
  <2> HIDE DEF f
  <2> QED BY <1>1, <2>1, <2>2, ReadSplits
<1> QED BY <1>2, <1>3, <1>4, <1>5, <1>7

\* A run is ahead, or being read, or has been joined; a single node may also
\* have been left as it is.
Reached(b, e) ==
    \/ i <= b
    \/ begin = b /\ b < i /\ i <= e + 1
    \/ /\ e < IF begin = 0 THEN i ELSE begin
       /\ JoinedAt(out, b, e) \/ (b = e /\ next < b)

LEMMA AppendNodeReaches ==
    ASSUME Indexes, Alone, ReadSo, AppendNode,
           NEW b \in 1 .. Len(in), NEW e \in b .. Len(in), NumberRun(b, e), Reached(b, e)
    PROVE  Reached(b, e)'
<1> DEFINE from == IF begin = 0 THEN i ELSE begin
           r == InPlace!AppendAll(Reading, in[i].form)
<1>1. /\ InPlace!IsNumber(in[i], commaAsDigit, periodAsDigit)
      /\ begin' = IF r.ok THEN from ELSE 0
      /\ i' = IF r.ok \/ r.p.err = "none" THEN i + 1 ELSE from
      /\ in' = in /\ out' = out /\ next' = next
  BY DEF AppendNode
<1>2. /\ from \in 1 .. Len(in) /\ i \in from .. Len(in) /\ i \in Nat
      /\ (begin = 0 => from = i) /\ (begin # 0 => from = begin)
      /\ Read(from, i + 1) = r /\ r.ok \in BOOLEAN
  BY ReadingIs
<1>3. Len(in) \in Nat /\ b \in Nat /\ e \in Nat
  BY LenProperties DEF Alone
<1>4. JoinedAt(out, b, e)' <=> JoinedAt(out, b, e)
  BY <1>1 DEF JoinedAt, Parts
<1>5. /\ \A k \in {b - 1, e + 1} \cap 1 .. Len(in) : \A x, y : ~InPlace!IsNumber(in[k], x, y)
      /\ \A m \in b .. e + 1 : Read(b, m).ok
  BY RunFacts
<1> HIDE DEF r, from
\* It is ahead: the first of its nodes is read, or one before it.
<1>6. CASE i < b
  BY <1>1, <1>2, <1>3, <1>6 DEF Reached
<1>7. CASE i = b
  <2>1. begin = 0
    <3> SUFFICES ASSUME begin # 0 PROVE FALSE
      OBVIOUS
    <3>1. begin \in Nat /\ begin < i
      BY DEF Indexes
    <3>2. i - 1 \in begin .. i - 1 /\ b - 1 \in {b - 1, e + 1} \cap 1 .. Len(in)
      BY <1>2, <1>3, <1>7, <3>1
    <3>3. InPlace!IsNumber(in[b - 1], TRUE, TRUE)
      BY <1>7, <3>2 DEF ReadSo
    <3> QED BY <1>5, <3>2, <3>3
  <2>2. from = b /\ i + 1 \in b .. e + 1
    BY <1>2, <1>3, <1>7, <2>1
  <2>3. r.ok
    BY <1>2, <1>5, <2>2
  <2>4. begin' = b /\ i' = i + 1
    BY <1>1, <2>2, <2>3
  <2> QED BY <1>3, <1>7, <2>4 DEF Reached
\* It is being read, and goes on to be.
<1>8. CASE begin = b /\ b < i /\ i <= e + 1
  <2>1. i # e + 1
    <3> SUFFICES ASSUME i = e + 1 PROVE FALSE
      OBVIOUS
    <3>1. i \in {b - 1, e + 1} \cap 1 .. Len(in)
      BY <1>2, <1>3
    <3> QED BY <1>1, <1>5, <3>1
  <2>2. from = b /\ i + 1 \in b .. e + 1
    BY <1>2, <1>3, <1>8, <2>1
  <2>3. r.ok
    BY <1>2, <1>5, <2>2
  <2>4. begin' = b /\ i' = i + 1
    BY <1>1, <2>2, <2>3
  <2> QED BY <1>2, <1>3, <1>8, <2>1, <2>4 DEF Reached
<1>9. CASE e < from /\ (JoinedAt(out, b, e) \/ (b = e /\ next < b))
  <2>1. e < IF begin' = 0 THEN i' ELSE begin'
    BY <1>1, <1>2, <1>3, <1>9
  <2> QED BY <1>1, <1>4, <1>9, <2>1 DEF Reached
<1> QED BY <1>2, <1>3, <1>6, <1>7, <1>8, <1>9 DEF Reached, from

\* Where a node that is no number is reached, the run is ahead of it, ends just
\* before it, or is behind.
LEMMA OtherReached ==
    ASSUME Indexes, Alone, ReadSo, AtOther,
           NEW b \in 1 .. Len(in), NEW e \in b .. Len(in), NumberRun(b, e), Reached(b, e)
    PROVE  \/ i < b
           \/ /\ begin = b /\ i = e + 1
              /\ InPlace!Done(p).ok
           \/ /\ e < IF begin = 0 THEN i ELSE begin
              /\ JoinedAt(out, b, e) \/ (b = e /\ next < b)
<1>1. /\ Len(in) \in Nat /\ b \in Nat /\ e \in Nat /\ i \in Nat /\ begin \in Nat /\ i <= Len(in)
      /\ ~done
  BY LenProperties DEF Alone, Indexes, AtOther
<1>2. /\ \A k \in b .. e : \A x, y : InPlace!IsNumber(in[k], x, y)
      /\ InPlace!Parse(Text(b, e + 1)).ok
  BY RunFacts
<1>3. i \notin b .. e
  BY <1>2 DEF AtOther
<1>4. CASE i <= b
  BY <1>1, <1>3, <1>4
<1>5. CASE begin = b /\ b < i /\ i <= e + 1
  <2>1. i = e + 1
    BY <1>1, <1>3, <1>5
  <2>2. begin # 0
    BY <1>1, <1>5
  <2>3. InPlace!Parse(Text(begin, i)) = InPlace!Done(p)
    BY <1>1, <2>2, NumberRead
  <2> QED BY <1>2, <1>5, <2>1, <2>3
<1> QED BY <1>4, <1>5 DEF Reached

\* Only a single node may not be worth joining.
LEMMA NotWorthJoining ==
    ASSUME Alone, NEW b \in 1 .. Len(in), NEW e \in b .. Len(in), in[b].numeral, NEW q,
           ~Joins(b, e + 1, q)
    PROVE  b = e
<1> DEFINE nodes == Stretch(b, e + 1)
<1>1. Len(in) \in Nat /\ b \in Nat /\ e \in Nat
  BY LenProperties DEF Alone
<1>2. ~InPlace!WorthJoining(nodes, q)
  BY DEF Joins, Stretch
<1>3. Len(nodes) = e + 1 - b /\ nodes \in Seq(Node) /\ nodes # <<>> /\ nodes[1] = in[b]
  <2>1. b \in Int /\ e \in Int /\ b <= e /\ (e + 1) - 1 = e /\ 1 \in 1 .. e - b + 1
    BY <1>1
  <2>2. \A k \in b .. e : in[k] \in Node
    BY <1>1, ElementOfSeq DEF Alone
  <2>3. nodes = SubSeq(in, b, e)
    BY <2>1 DEF Stretch
  <2> HIDE DEF nodes
  <2>4. /\ nodes \in Seq(Node) /\ Len(nodes) = IF b <= e THEN e - b + 1 ELSE 0
        /\ \A k \in 1 .. e - b + 1 : nodes[k] = in[b + k - 1]
    BY <2>1, <2>2, <2>3, SubSeqProperties
  <2>5. nodes[1] = in[b + 1 - 1] /\ b + 1 - 1 = b
    BY <1>1, <2>1, <2>4
  <2>6. Len(nodes) = e + 1 - b /\ Len(nodes) # 0
    BY <1>1, <2>1, <2>4
  <2> QED BY <2>4, <2>5, <2>6, EmptySeq
<1> HIDE DEF nodes
<1>4. ~(Len(nodes) > 1)
  BY <1>2, <1>3 DEF InPlace!WorthJoining
<1> QED BY <1>1, <1>3, <1>4

\* The number before a node is joined where it is worth it.
LEMMA EmitReaches ==
    ASSUME Indexes, Alone, Whole, Counted, UNCHANGED in,
           NEW c \in next + 1 .. Len(in) + 1, NEW f \in c .. Len(in) + 1, NEW q,
           IF Joins(c, f, q) THEN Emit(c, f, q) ELSE UNCHANGED <<out, next>>,
           NEW b \in 1 .. Len(in), NEW e \in b .. Len(in), in[b].numeral,
           \/ b = c /\ e = f - 1
           \/ e < c /\ (JoinedAt(out, b, e) \/ (b = e /\ next < b))
    PROVE  JoinedAt(out, b, e)' \/ (b = e /\ next' < b)
<1>1. /\ Len(in) \in Nat /\ b \in Nat /\ e \in Nat /\ c \in Nat /\ f \in Nat /\ next \in Nat
  BY LenProperties DEF Alone, Indexes
<1>2. CASE Joins(c, f, q)
  <2>1. out' = Written(c, f, q)
    BY <1>2 DEF Emit
  <2>2. /\ JoinedAt(Written(c, f, q), c, f - 1)
        /\ \A x, y : JoinedAt(out, x, y) => JoinedAt(Written(c, f, q), x, y)
        /\ \A x \in next + 1 .. c - 1 : JoinedAt(Written(c, f, q), x, x)
    BY WrittenJoined
  <2>3. JoinedAt(Written(c, f, q), b, e)
    <3>1. CASE b = e /\ next < b /\ e < c
      <4>1. b \in next + 1 .. c - 1
        BY <1>1, <3>1
      <4> QED BY <2>2, <3>1, <4>1
    <3> QED BY <2>2, <3>1
  <2>4. JoinedAt(out, b, e)' <=> JoinedAt(out', b, e)
    BY DEF JoinedAt, Parts
  <2> QED BY <2>1, <2>3, <2>4
<1>3. CASE ~Joins(c, f, q)
  <2>1. out' = out /\ next' = next
    BY <1>3
  <2>2. JoinedAt(out, b, e)' <=> JoinedAt(out, b, e)
    BY <2>1 DEF JoinedAt, Parts
  <2>3. CASE b = c /\ e = f - 1
    <3>1. f = e + 1 /\ next < b
      BY <1>1, <2>3
    <3>2. b = e
      BY <1>3, <2>3, <3>1, NotWorthJoining
    <3> QED BY <2>1, <3>1, <3>2
  <2>4. CASE e < c /\ (JoinedAt(out, b, e) \/ (b = e /\ next < b))
    BY <2>1, <2>2, <2>4
  <2> QED BY <2>3, <2>4
<1> QED BY <1>2, <1>3

LEMMA OtherReaches ==
    ASSUME Indexes, Alone, Whole, Counted, ReadSo,
           SkipNode \/ EndNumber \/ EndSeparated \/ EndNothing,
           NEW b \in 1 .. Len(in), NEW e \in b .. Len(in), NumberRun(b, e), Reached(b, e)
    PROVE  Reached(b, e)'
<1> DEFINE q == InPlace!Done(p).p
           Low == IF begin = 0 THEN i ELSE begin
           Behind == e < Low /\ (JoinedAt(out, b, e) \/ (b = e /\ next < b))
<1>1. AtOther /\ ~done /\ i <= Len(in) /\ begin' = 0 /\ in' = in
  BY DEF SkipNode, EndNumber, EndSeparated, EndNothing, AtOther, PassNode
<1>2. /\ Len(in) \in Nat /\ b \in Nat /\ e \in Nat /\ i \in Nat /\ begin \in Nat /\ next \in Nat
      /\ begin # 0 => begin < i
  BY <1>1, LenProperties DEF Alone, Indexes
<1>3. in[b].numeral
  BY RunFacts
<1>4. \/ i < b
      \/ begin = b /\ i = e + 1 /\ InPlace!Done(p).ok
      \/ Behind
  BY <1>1, OtherReached
<1>5. ASSUME begin # 0
      PROVE  /\ begin \in next + 1 .. Len(in) + 1 /\ i \in begin .. Len(in) + 1
             /\ InPlace!EndsWithSeparator(in[i - 1], q) =>
                    begin < i - 1 /\ i - 1 \in begin .. Len(in) + 1
  <2>1. /\ begin \in next + 1 .. Len(in) /\ i \in begin + 1 .. Len(in) + 1
        /\ InPlace!EndsWithSeparator(in[i - 1], q) => begin < i - 1
    BY <1>1, <1>5, NumberRead
  <2> HIDE DEF q
  <2> QED BY <1>2, <2>1
<1>6. ASSUME UNCHANGED <<out, next>>, Behind PROVE JoinedAt(out, b, e)' \/ (b = e /\ next' < b)
  BY <1>6 DEF JoinedAt, Parts
<1>7. ASSUME i' <= b \/ (e < i' /\ (JoinedAt(out, b, e)' \/ (b = e /\ next' < b)))
      PROVE  Reached(b, e)'
  BY <1>1, <1>7 DEF Reached
<1> HIDE DEF q
<1>8. CASE SkipNode
  <2>1. i' = i + 1 /\ begin = 0 /\ UNCHANGED <<out, next>>
    BY <1>8 DEF SkipNode
  <2> QED BY <1>2, <1>4, <1>6, <1>7, <2>1
<1>9. CASE EndNothing
  <2>1. i' = i + 1 /\ begin # 0 /\ ~InPlace!Done(p).ok /\ UNCHANGED <<out, next>>
    BY <1>9 DEF EndNothing
  <2> QED BY <1>2, <1>4, <1>6, <1>7, <2>1
<1>10. CASE EndNumber
  <2>1. /\ begin # 0
        /\ IF Joins(begin, i, q) THEN Emit(begin, i, q) ELSE UNCHANGED <<out, next>>
        /\ i' = IF Joins(begin, i, q) THEN i + 1 ELSE begin + 2
    BY <1>10 DEF EndNumber, q, BackTo
  <2>2. CASE i < b
    BY <1>2, <1>7, <2>1, <2>2
  <2>3. CASE ~(i < b)
    <3>1. (b = begin /\ e = i - 1) \/ (e < begin /\ (JoinedAt(out, b, e) \/ (b = e /\ next < b)))
      BY <1>2, <1>4, <2>1, <2>3
    <3>2. JoinedAt(out, b, e)' \/ (b = e /\ next' < b)
      BY <1>1, <1>3, <1>5, <2>1, <3>1, EmitReaches
    <3>3. e < i'
      <4>1. CASE b = begin /\ e = i - 1 /\ ~Joins(begin, i, q)
        <5>1. ~Joins(b, e + 1, q)
          <6>1. e + 1 = i
            BY <1>2, <4>1
          <6> QED BY <4>1, <6>1
        <5>2. b = e
          BY <1>3, <5>1, NotWorthJoining
        <5> QED BY <1>2, <2>1, <4>1, <5>2
      <4>2. CASE b = begin /\ e = i - 1 /\ Joins(begin, i, q)
        BY <1>2, <2>1, <4>2
      <4>3. CASE e < begin
        BY <1>2, <2>1, <4>3
      <4> QED BY <3>1, <4>1, <4>2, <4>3
    <3> QED BY <1>7, <3>2, <3>3
  <2> QED BY <2>2, <2>3
<1>11. CASE EndSeparated
  <2>1. /\ begin # 0 /\ ~InPlace!Done(p).ok /\ InPlace!EndsWithSeparator(in[i - 1], q)
        /\ IF Joins(begin, i - 1, q) THEN Emit(begin, i - 1, q) ELSE UNCHANGED <<out, next>>
        /\ i' = IF Joins(begin, i - 1, q) THEN i + 1 ELSE begin + 3
    BY <1>11 DEF EndSeparated, q
  <2>2. begin < i - 1 /\ i - 1 \in begin .. Len(in) + 1
    BY <1>5, <2>1
  <2>3. CASE i < b
    BY <1>2, <1>7, <2>1, <2>2, <2>3
  <2>4. CASE ~(i < b)
    <3>1. e < begin /\ (JoinedAt(out, b, e) \/ (b = e /\ next < b))
      BY <1>2, <1>4, <2>1, <2>4
    <3>2. JoinedAt(out, b, e)' \/ (b = e /\ next' < b)
      BY <1>1, <1>3, <1>5, <2>1, <2>2, <3>1, EmitReaches
    <3>3. e < i'
      BY <1>2, <2>1, <2>2, <3>1
    <3> QED BY <1>7, <3>2, <3>3
  <2> QED BY <2>3, <2>4
<1> QED BY <1>8, <1>9, <1>10, <1>11

\* At the end of the path every run is behind.
LEMMA ReturnJoins ==
    ASSUME Indexes, Alone, Whole, Counted, ReadSo, Return,
           NEW b \in 1 .. Len(in), NEW e \in b .. Len(in), NumberRun(b, e), Reached(b, e)
    PROVE  JoinedAt(out, b, e)'
<1> DEFINE r == InPlace!Done(p)
           last == IF r.ok THEN i ELSE i - 1
           joins == /\ begin # 0 /\ Joins(begin, last, r.p)
                    /\ r.ok \/ InPlace!EndsWithSeparator(in[i - 1], r.p)
<1>1. /\ ~done /\ i > Len(in)
      /\ out' = IF joins THEN Written(begin, last, r.p) \o SubSeq(in, last, Len(in)) ELSE path
  BY DEF Return
<1>2. /\ Len(in) \in Nat /\ b \in Nat /\ e \in Nat /\ i \in Nat /\ begin \in Nat /\ next \in Nat
      /\ begin # 0 => begin < i
  BY <1>1, LenProperties DEF Alone, Indexes
<1>3. in[b].numeral /\ InPlace!Parse(Text(b, e + 1)).ok
  BY RunFacts
<1>4. ASSUME begin # 0
      PROVE  /\ begin \in next + 1 .. Len(in) + 1 /\ i \in begin .. Len(in) + 1
             /\ InPlace!Parse(Text(begin, i)) = r
             /\ InPlace!EndsWithSeparator(in[i - 1], r.p) => i - 1 \in begin .. Len(in) + 1
  <2>1. /\ begin \in next + 1 .. Len(in) /\ i \in begin + 1 .. Len(in) + 1
        /\ InPlace!Parse(Text(begin, i)) = r
        /\ InPlace!EndsWithSeparator(in[i - 1], r.p) => begin < i - 1
    BY <1>1, <1>4, NumberRead
  <2> HIDE DEF r
  <2> QED BY <1>2, <2>1
<1> HIDE DEF r
<1>5. \/ begin = b /\ begin # 0 /\ i = e + 1 /\ r.ok
      \/ JoinedAt(out, b, e) /\ e < IF begin = 0 THEN i ELSE begin
      \/ b = e /\ next < b /\ e < IF begin = 0 THEN i ELSE begin
  <2>1. CASE begin = b /\ b < i /\ i <= e + 1
    <3>1. begin # 0 /\ i = e + 1
      BY <1>1, <1>2, <2>1
    <3> QED BY <1>3, <1>4, <2>1, <3>1
  <2>2. ~(i <= b)
    BY <1>1, <1>2
  <2> QED BY <2>1, <2>2 DEF Reached
<1>6. JoinedAt(out, b, e)' <=> JoinedAt(out', b, e)
  BY DEF JoinedAt, Parts
<1>7. CASE joins
  <2>1. begin \in next + 1 .. Len(in) + 1 /\ last \in begin .. Len(in) + 1
    BY <1>4, <1>7
  <2> HIDE DEF last
  <2> DEFINE W == Written(begin, last, r.p)
  <2>2. /\ JoinedAt(W, begin, last - 1)
        /\ \A x, y : JoinedAt(out, x, y) => JoinedAt(W, x, y)
        /\ \A x \in next + 1 .. begin - 1 : JoinedAt(W, x, x)
    BY <2>1, WrittenJoined
  <2>3. PICK S : W \in Seq(S) /\ in \in Seq(S)
    BY <2>1, WrittenKeeps
  <2> HIDE DEF W
  <2>4. JoinedAt(W, b, e)
    <3>1. CASE begin = b /\ i = e + 1 /\ r.ok
      <4>1. last - 1 = e
        BY <1>2, <3>1 DEF last
      <4> QED BY <2>2, <3>1, <4>1
    <3>2. CASE JoinedAt(out, b, e)
      BY <2>2, <3>2
    <3>3. CASE b = e /\ next < b /\ e < IF begin = 0 THEN i ELSE begin
      <4>1. b \in next + 1 .. begin - 1
        BY <1>2, <1>7, <3>3
      <4> QED BY <2>2, <3>3, <4>1
    <3> QED BY <1>5, <3>1, <3>2, <3>3
  <2> DEFINE rest == SubSeq(in, last, Len(in))
  <2>5. rest \in Seq(S)
    <3>1. Len(in) \in Int /\ last \in Int /\ last .. Len(in) \subseteq 1 .. Len(in)
      BY <1>2, <2>1
    <3>2. \A k \in last .. Len(in) : in[k] \in S
      BY <2>3, <3>1, ElementOfSeq
    <3> QED BY <3>1, <3>2, SubSeqProperties
  <2>6. out' = W \o rest
    BY <1>1, <1>7 DEF W
  <2> HIDE DEF rest
  <2>7. JoinedAt(W \o rest, b, e)
    BY <2>3, <2>4, <2>5, JoinedStays
  <2> QED BY <1>6, <2>6, <2>7
<1>8. CASE ~joins
  <2>1. out' = path
    BY <1>1, <1>8
  <2>2. JoinedAt(out, b, e) \/ (b = e /\ next < b)
    <3>1. CASE begin = b /\ begin # 0 /\ i = e + 1 /\ r.ok
      <4>1. ~Joins(b, e + 1, r.p)
        BY <1>8, <3>1
      <4>2. b = e
        BY <1>3, <4>1, NotWorthJoining
      <4>3. next < b
        BY <1>2, <1>4, <3>1
      <4> QED BY <4>2, <4>3
    <3> QED BY <1>5, <3>1
  <2>3. JoinedAt(path, b, e)
    <3>1. CASE b = e /\ next < b
      <4>1. b \in next + 1 .. Len(in)
        BY <1>2, <3>1
      <4> QED BY <3>1, <4>1, PathJoined
    <3> QED BY <2>2, <3>1, PathJoined
  <2> QED BY <1>6, <2>1, <2>3
<1> QED BY <1>7, <1>8

\* Every run of numbers is ahead, being read or joined; and joined in the end.
RunsRead ==
    \A b \in 1 .. Len(in) : \A e \in b .. Len(in) :
        NumberRun(b, e) => IF done THEN JoinedAt(out, b, e) ELSE Reached(b, e)
Ended == done => next = Len(in)

LEMMA RunsReadKept ==
    ASSUME Indexes, Alone, Whole, Counted, ReadSo, RunsRead, Ended, [Next]_vars
    PROVE  RunsRead' /\ Ended'
<1>1. in' = in
  BY DEF Next, vars, AppendNode, SkipNode, EndNumber, EndSeparated, EndNothing, Return, PassNode
<1>2. \A b, e : NumberRun(b, e)' <=> NumberRun(b, e)
  BY <1>1 DEF NumberRun, IsRun, Parts
<1>3. CASE UNCHANGED vars
  <2>1. in' = in /\ out' = out /\ next' = next /\ i' = i /\ begin' = begin /\ done' = done
    BY <1>3 DEF vars
  <2>2. \A b, e : (JoinedAt(out, b, e)' <=> JoinedAt(out, b, e)) /\ (Reached(b, e)' <=> Reached(b, e))
    BY <2>1 DEF JoinedAt, Parts, Reached
  <2> QED BY <1>2, <2>1, <2>2 DEF RunsRead, Ended
<1>4. CASE AppendNode
  <2>1. ~done /\ ~done'
    BY <1>4 DEF AppendNode
  <2>2. ASSUME NEW b \in 1 .. Len(in), NEW e \in b .. Len(in), NumberRun(b, e) PROVE Reached(b, e)'
    BY <1>4, <2>1, <2>2, AppendNodeReaches DEF RunsRead
  <2> QED BY <1>1, <1>2, <2>1, <2>2 DEF RunsRead, Ended
<1>5. CASE SkipNode \/ EndNumber \/ EndSeparated \/ EndNothing
  <2>1. ~done /\ ~done'
    BY <1>5 DEF SkipNode, EndNumber, EndSeparated, EndNothing, AtOther, PassNode
  <2>2. ASSUME NEW b \in 1 .. Len(in), NEW e \in b .. Len(in), NumberRun(b, e) PROVE Reached(b, e)'
    BY <1>5, <2>1, <2>2, OtherReaches DEF RunsRead
  <2> QED BY <1>1, <1>2, <2>1, <2>2 DEF RunsRead, Ended
<1>6. CASE Return
  <2>1. ~done /\ done' /\ next' = Len(in)
    BY <1>6 DEF Return
  <2>2. ASSUME NEW b \in 1 .. Len(in), NEW e \in b .. Len(in), NumberRun(b, e)
        PROVE  JoinedAt(out, b, e)'
    BY <1>6, <2>1, <2>2, ReturnJoins DEF RunsRead
  <2> QED BY <1>1, <1>2, <2>1, <2>2 DEF RunsRead, Ended
<1> QED BY <1>3, <1>4, <1>5, <1>6 DEF Next

\* The inductive invariant, behind the indexes and the parts.
NumbersInv == Alone /\ ReadSo /\ Right /\ Counted /\ RunsRead /\ Ended

LEMMA NumbersStart ==
    ASSUME Init
    PROVE  NumbersInv
<1>1. /\ in \in Paths /\ out = <<>> /\ next = 0 /\ i = 1 /\ begin = 0 /\ done = FALSE
  BY DEF Init
<1>2. Alone
  BY <1>1, PathsAssumption, PartsAssumption DEF Alone
<1>3. Len(in) \in Nat
  BY <1>2, LenProperties DEF Alone
<1>4. Right
  <2> DEFINE S == {n \in Node : FormRight(n)}
  <2>1. \A n \in S : FormRight(n)
    OBVIOUS
  <2> HIDE DEF S
  <2>2. out \in Seq(S)
    BY <1>1, EmptySeq
  <2> QED BY <2>1, <2>2 DEF Right
<1>5. Counted
  <2>1. FlattenSeq(<<>>) = <<>>
    BY EmptySeq DEF FlattenSeq
  <2>2. [k \in DOMAIN <<>> |-> <<>>[k].parts] = <<>> /\ Len(<<>>) = 0
    OBVIOUS
  <2> QED BY <1>1, <2>1, <2>2 DEF Counted, Parts
<1>6. RunsRead /\ Ended
  BY <1>1, <1>3 DEF RunsRead, Reached, Ended
<1>7. ReadSo
  BY <1>1 DEF ReadSo
<1> QED BY <1>2, <1>4, <1>5, <1>6, <1>7 DEF NumbersInv

LEMMA NumbersAnswer ==
    ASSUME Indexes, Whole, NumbersInv
    PROVE  NumbersJoined
<1>1. PartsKept /\ JoinedForm
  BY RightIsForm DEF Whole, NumbersInv
<1>2. RunsJoined
  <2> SUFFICES ASSUME done, NEW b \in DOMAIN in, NEW e \in b .. Len(in), NumberRun(b, e)
               PROVE  \E k \in DOMAIN path : /\ Len(Parts(SubSeq(path, 1, k - 1))) = b - 1
                                             /\ Len(path[k].parts) = e - b + 1
    BY DEF RunsJoined
  <2>1. DOMAIN in = 1 .. Len(in)
    BY LenProperties DEF Indexes
  <2>2. JoinedAt(out, b, e)
    BY <2>1 DEF NumbersInv, RunsRead
  <2>3. JoinedAt(path, b, e)
    BY <2>2, PathJoined DEF NumbersInv
  <2> QED BY <2>3 DEF JoinedAt
<1> QED BY <1>1, <1>2 DEF NumbersJoined

\* For every path whose nodes stand for themselves, the pass over its numerals
\* (pathrewrite.go:28-99) keeps all its nodes in order; gives every node it
\* joins the form of the number that was read, also where a last separator was
\* given up; and in the end has joined every run of number nodes between others
\* that reads as a number, whole, however often separators sent it back.
THEOREM SpecNumbersJoined == Spec => []NumbersJoined
<1>1. Init => Indexes /\ Whole /\ NumbersInv
  BY Starts, WholeStarts, NumbersStart
<1>2. Indexes /\ Whole /\ NumbersInv /\ [Next]_vars => Indexes' /\ Whole' /\ NumbersInv'
  <2> SUFFICES ASSUME Indexes, Whole, NumbersInv, [Next]_vars
               PROVE  Indexes' /\ Whole' /\ NumbersInv'
    OBVIOUS
  <2>1. Indexes' /\ Whole'
    BY Steps, WholeKept
  <2>2. Alone' /\ ReadSo' /\ Right' /\ Counted' /\ RunsRead' /\ Ended'
    BY ReadSoKept, RightKept, CountedKept, RunsReadKept DEF NumbersInv
  <2> QED BY <2>1, <2>2 DEF NumbersInv
<1>3. Indexes /\ Whole /\ NumbersInv => NumbersJoined
  BY NumbersAnswer
<1> QED BY <1>1, <1>2, <1>3, PTL DEF Spec

-----------------------------------------------------------------------------
(* The pass keeps its types, and the loop its indexes                       *)

LEMMA PrefixIn ==
    ASSUME NEW S, NEW s \in Seq(S), NEW n \in Int, n <= Len(s)
    PROVE  SubSeq(s, 1, n) \in Seq(S)
<1>1. Len(s) \in Nat /\ 1 \in Int
  BY LenProperties
<1>2. \A k \in 1 .. n : s[k] \in S
  BY <1>1, ElementOfSeq
<1> QED BY <1>1, <1>2, SubSeqProperties

\* A point stays behind where trimming stops at the latest.
LEMMA TrimmedForm ==
    ASSUME NEW h \in Seq(Digits), NEW f \in Seq(Digits)
    PROVE  InPlace!Trim(h \o <<Point>> \o f) \in Form
<1> DEFINE s == h \o <<Point>> \o f
           Kept(k) == s[k] # 0 /\ \A j \in k + 1 .. Len(s) : s[j] = 0
           last == CHOOSE k \in DOMAIN s : Kept(k)
<1>1. h \in Form /\ f \in Form /\ <<Point>> \in Form /\ Len(<<Point>>) = 1
  <2>1. Digits \subseteq Characters /\ Point \in Characters
    BY DEF Characters
  <2>2. h \in Seq(Characters) /\ f \in Seq(Characters)
    BY <2>1, SeqOfMore
  <2> QED BY <2>1, <2>2 DEF Form
<1>2. /\ h \o <<Point>> \in Form /\ Len(h \o <<Point>>) = Len(h) + 1
      /\ (h \o <<Point>>)[Len(h) + 1] = Point
  <2>1. Len(h) \in Nat
    BY LenProperties
  <2>2. /\ h \o <<Point>> \in Seq(Characters) /\ Len(h \o <<Point>>) = Len(h) + Len(<<Point>>)
        /\ \A k \in 1 .. Len(h) + Len(<<Point>>) :
               (h \o <<Point>>)[k] = IF k <= Len(h) THEN h[k] ELSE <<Point>>[k - Len(h)]
    BY <1>1, ConcatProperties DEF Form
  <2> QED BY <1>1, <2>1, <2>2 DEF Form
<1>3. /\ s \in Form /\ Len(h) + 1 \in 1 .. Len(s) /\ s[Len(h) + 1] = Point
  <2> DEFINE g == h \o <<Point>>
  <2>1. Len(h) \in Nat /\ Len(f) \in Nat
    BY LenProperties
  <2>2. g \in Seq(Characters) /\ f \in Seq(Characters) /\ Len(g) = Len(h) + 1 /\ g[Len(h) + 1] = Point
    BY <1>1, <1>2 DEF Form
  <2> HIDE DEF g
  <2>3. /\ g \o f \in Seq(Characters) /\ Len(g \o f) = Len(g) + Len(f)
        /\ \A k \in 1 .. Len(g) + Len(f) :
               (g \o f)[k] = IF k <= Len(g) THEN g[k] ELSE f[k - Len(g)]
    BY <2>2, ConcatProperties
  <2>4. g \o f \in Form /\ Len(h) + 1 \in 1 .. Len(g \o f) /\ (g \o f)[Len(h) + 1] = Point
    BY <2>1, <2>2, <2>3 DEF Form
  <2> QED BY <2>4 DEF g
<1> HIDE DEF s
<1>4. Len(s) \in Nat /\ DOMAIN s = 1 .. Len(s)
  BY <1>3, LenProperties DEF Form
<1>5. \E k \in DOMAIN s : Kept(k)
  <2> DEFINE K0 == {k \in 1 .. Len(s) : s[k] # 0}
  <2>1. K0 \in SUBSET Int /\ K0 # {}
    BY <1>3, <1>4 DEF Point
  <2>2. IsFiniteSet(K0)
    <3>1. IsFiniteSet(1 .. Len(s)) /\ K0 \subseteq 1 .. Len(s)
      BY <1>4, FS_Interval
    <3> HIDE DEF K0
    <3> QED BY <3>1, FS_Subset
  <2>3. PICK m \in K0 : \A x \in K0 : m >= x
    <3> HIDE DEF K0
    <3> QED BY <2>1, <2>2, Greatest
  <2>4. \A j \in m + 1 .. Len(s) : s[j] = 0
    BY <1>4, <2>3
  <2> QED BY <1>4, <2>3, <2>4
<1>6. last \in 1 .. Len(s)
  BY <1>4, <1>5
<1>7. InPlace!Trim(s) = SubSeq(s, 1, IF s[last] = Point THEN last - 1 ELSE last)
  BY DEF InPlace!Trim, InPlace!Point, Point
<1> HIDE DEF last
<1>8. (IF s[last] = Point THEN last - 1 ELSE last) \in Int
      /\ (IF s[last] = Point THEN last - 1 ELSE last) <= Len(s)
  BY <1>4, <1>6
<1>9. InPlace!Trim(s) \in Seq(Characters)
  BY <1>3, <1>7, <1>8, PrefixIn DEF Form
<1> QED BY <1>9 DEF s, Form

LEMMA NormalizedPoint ==
    ASSUME NEW d \in Decimal
    PROVE  LET n == InPlace!NormalizeScale(d) IN n.point >= 0 => n.point < Len(n.digits)
<1> DEFINE fraction == Len(d.digits) - d.point
           n == InPlace!NormalizeScale(d)
<1>1. /\ d.digits \in Seq(Digits) /\ d.scale \in Nat /\ d.point \in {-1} \cup Nat
      /\ d.allZero \in BOOLEAN /\ Len(d.digits) \in Nat
  BY LenProperties DEF Decimal
<1>2. n.digits = d.digits
  BY NormalizedDecimal
<1>3. CASE d.point < 0
  <2>1. n = d
    BY <1>3 DEF InPlace!NormalizeScale
  <2> QED BY <1>1, <1>3, <2>1
<1>4. CASE d.point >= 0 /\ fraction > d.scale
  <2>1. n = [d EXCEPT !.point = d.point + d.scale, !.scale = 0]
    BY <1>1, <1>4 DEF InPlace!NormalizeScale
  <2>2. n.point = d.point + d.scale
    BY <2>1 DEF Decimal
  <2> HIDE DEF n
  <2>3. n.point < Len(n.digits)
    BY <1>1, <1>2, <1>4, <2>2
  <2> QED BY <2>3 DEF n
<1>5. CASE d.point >= 0 /\ ~(fraction > d.scale)
  <2>1. n = [d EXCEPT !.scale = d.scale - fraction, !.point = -1]
    BY <1>1, <1>5 DEF InPlace!NormalizeScale
  <2>2. n.point = -1
    BY <2>1 DEF Decimal
  <2> QED BY <2>2
<1> QED BY <1>1, <1>3, <1>4, <1>5

\* Any decimal is rendered as a string.
LEMMA RenderedForm ==
    ASSUME NEW d \in Decimal
    PROVE  InPlace!Render(d) \in Form
<1> DEFINE n == InPlace!NormalizeScale(d)
           whole == SubSeq(n.digits, 1, n.point)
           fraction == SubSeq(n.digits, n.point + 1, Len(n.digits))
<1>1. Digits \subseteq Characters /\ 0 \in Digits
  BY DEF Characters, Digits
<1>2. \A s \in Seq(Digits) : s \in Form
  BY <1>1, SeqOfMore DEF Form
<1>3. n \in Decimal /\ (n.point >= 0 => n.point < Len(n.digits))
  BY NormalizedDecimal, NormalizedPoint
<1>4. InPlace!Render(d) =
        IF InPlace!IsZero(d) THEN <<0>>
        ELSE IF n.scale > 0 THEN n.digits \o InPlace!Zeros(n.scale)
        ELSE IF n.point < 0 THEN n.digits
        ELSE InPlace!Trim((IF n.point = 0 THEN <<0>> ELSE whole) \o <<Point>> \o fraction)
  BY DEF InPlace!Render, InPlace!Point, Point
<1> HIDE DEF n
<1>5. n.digits \in Seq(Digits) /\ n.scale \in Nat /\ n.point \in {-1} \cup Nat /\ Len(n.digits) \in Nat
  BY <1>3, LenProperties DEF Decimal
<1>6. <<0>> \in Seq(Digits)
  BY <1>1
<1>7. n.digits \o InPlace!Zeros(n.scale) \in Seq(Digits)
  <2>1. InPlace!Zeros(n.scale) \in Seq(Digits)
    BY <1>1, <1>5 DEF InPlace!Zeros
  <2> QED BY <1>5, <2>1, ConcatProperties
<1>8. ASSUME ~(n.point < 0)
      PROVE  InPlace!Trim((IF n.point = 0 THEN <<0>> ELSE whole) \o <<Point>> \o fraction) \in Form
  <2>1. whole \in Seq(Digits)
    BY <1>3, <1>5, <1>8, PrefixIn
  <2>2. fraction \in Seq(Digits)
    <3>1. /\ n.point + 1 \in Int /\ Len(n.digits) \in Int
          /\ \A k \in n.point + 1 .. Len(n.digits) : n.digits[k] \in Digits
      BY <1>5, <1>8, ElementOfSeq
    <3> QED BY <3>1, SubSeqProperties
  <2> HIDE DEF whole, fraction
  <2>3. (IF n.point = 0 THEN <<0>> ELSE whole) \in Seq(Digits)
    BY <1>6, <2>1
  <2> QED BY <2>2, <2>3, TrimmedForm
<1> HIDE DEF whole, fraction
<1> QED BY <1>2, <1>4, <1>5, <1>6, <1>7, <1>8

\* What is made of nodes, and of the nodes of a join, are nodes.
LEMMA JoinedNode ==
    ASSUME NEW nodes \in Seq(Node), nodes # <<>>, NEW q \in Parser
    PROVE  InPlace!Join(nodes, q) \in Node
<1> DEFINE forms == [k \in DOMAIN nodes |-> nodes[k].form]
           kinds == {c \in nodes[1].cats : \A k \in DOMAIN nodes : c \in nodes[k].cats}
<1>1. Len(nodes) \in Nat /\ DOMAIN nodes = 1 .. Len(nodes) /\ 1 \in 1 .. Len(nodes)
  BY LenProperties
<1>2. \A k \in 1 .. Len(nodes) : nodes[k] \in Node
  BY ElementOfSeq
<1>3. nodes[1] \in Node
  BY <1>1, <1>2
<1>4. InPlace!FlattenSeq(forms) \in Form
  <2>1. forms \in [1 .. Len(nodes) -> Form]
    BY <1>1, <1>2 DEF Node, Form
  <2> HIDE DEF forms
  <2>2. forms \in Seq(Form) /\ Len(forms) = Len(nodes)
    <3> DEFINE W == Form
    <3>1. forms \in [1 .. Len(nodes) -> W]
      BY <2>1
    <3> HIDE DEF W
    <3>2. forms \in Seq(W) /\ Len(forms) = Len(nodes)
      BY <1>1, <3>1, SMTT(30)
    <3> QED BY <3>2 DEF W
  <2>3. FlattenSeq(forms) \in Form
    BY <1>1, <2>2, FlattenElements DEF Form
  <2> QED BY <2>3 DEF InPlace!FlattenSeq, FlattenSeq
<1>5. InPlace!Render(q.total) \in Form
  BY RenderedForm DEF Parser
<1>6. InPlace!Join(nodes, q).parts \in Seq(Form)
  <2>1. Made(Node)
    BY DEF Made, Node, Form
  <2>2. Parts(nodes) \in Seq(Form)
    BY <2>1, PartsConcat
  <2> QED BY <2>2, JoinedParts
<1> DEFINE form == IF Normalize THEN InPlace!Render(q.total) ELSE InPlace!FlattenSeq(forms)
           parts == InPlace!Join(nodes, q).parts
<1>7. InPlace!Join(nodes, q) = [form |-> form, cats |-> kinds, numeral |-> nodes[1].numeral, parts |-> parts]
  BY DEF InPlace!Join, InPlace!JoinNodes
<1>8. form \in Form
  BY <1>4, <1>5
<1>9. kinds \in SUBSET {"NUMERIC", "KANJINUMERIC"} /\ nodes[1].numeral \in BOOLEAN
  BY <1>3 DEF Node
<1> HIDE DEF form, kinds, parts
<1> QED BY <1>6, <1>7, <1>8, <1>9 DEF Node, Form, parts

\* Nodes are worth joining only if there is one.
LEMMA WrittenNodes ==
    ASSUME Indexes, out \in Seq(Node), NEW b \in next + 1 .. Len(in) + 1, NEW e \in b .. Len(in) + 1,
           NEW q \in Parser, Joins(b, e, q)
    PROVE  Written(b, e, q) \in Seq(Node)
<1> DEFINE gap == SubSeq(in, next + 1, b - 1)
           nodes == SubSeq(in, b, e - 1)
<1>1. in \in Seq(Node) /\ next \in 0 .. Len(in) /\ Len(in) \in Nat
  BY LenProperties DEF Indexes
<1>2. \A k \in 1 .. Len(in) : in[k] \in Node
  BY <1>1, ElementOfSeq
<1>3. gap \in Seq(Node)
  <2>1. /\ next + 1 \in Int /\ b - 1 \in Int
        /\ \A k \in next + 1 .. b - 1 : in[k] \in Node
    BY <1>1, <1>2
  <2> QED BY <2>1, SubSeqProperties
<1>4. nodes \in Seq(Node)
  <2>1. /\ b \in Int /\ e - 1 \in Int /\ \A k \in b .. e - 1 : in[k] \in Node
    BY <1>1, <1>2
  <2> QED BY <2>1, SubSeqProperties
<1>5. nodes # <<>>
  BY DEF Joins, InPlace!WorthJoining
<1> HIDE DEF gap, nodes
<1>6. <<InPlace!Join(nodes, q)>> \in Seq(Node)
  <2> DEFINE n == InPlace!Join(nodes, q)
  <2>1. n \in Node
    BY <1>4, <1>5, JoinedNode
  <2> HIDE DEF n
  <2>2. <<>> \in Seq(Node) /\ Append(<<>>, n) = <<n>>
    OBVIOUS
  <2>3. <<n>> \in Seq(Node)
    BY <2>1, <2>2, AppendProperties
  <2> QED BY <2>3 DEF n
<1>7. out \o gap \in Seq(Node)
  BY <1>3, ConcatProperties
<1>8. (out \o gap) \o <<InPlace!Join(nodes, q)>> \in Seq(Node)
  BY <1>6, <1>7, ConcatProperties
<1> QED BY <1>8 DEF Written, gap, nodes

LEMMA AppendNodeTyped ==
    ASSUME Indexes, Alone, TypeOK, AppendNode
    PROVE  p' \in Parser /\ i' \in 1 .. Len(in) + 1 /\ flags' \in BOOLEAN \X BOOLEAN
<1> DEFINE from == IF begin = 0 THEN i ELSE begin
           r == InPlace!AppendAll(Reading, in[i].form)
<1>1. /\ p' = r.p /\ i' = IF r.ok \/ r.p.err = "none" THEN i + 1 ELSE from
      /\ Separators(r.p, r.ok) /\ i <= Len(in)
  BY DEF AppendNode
<1>2. Len(in) \in Nat /\ i \in 1 .. Len(in) /\ begin \in Nat /\ (begin # 0 => begin < i)
  BY <1>1, LenProperties DEF Indexes, TypeOK
<1>3. Reading \in Parser /\ in[i].form \in Seq(Characters)
  <2>1. in[i] \in Node
    BY <1>2, ElementOfSeq DEF TypeOK
  <2> QED BY <2>1, NewDecimalType DEF Reading, TypeOK, Node
<1>4. r.p \in Parser
  BY <1>3, AppendConcat
<1>5. flags' \in BOOLEAN \X BOOLEAN
  BY <1>1 DEF Separators, flags
<1> HIDE DEF r
<1>6. i' \in 1 .. Len(in) + 1
  BY <1>1, <1>2
<1> QED BY <1>1, <1>4, <1>5, <1>6

\* A number that ends with a separator has a digit before it, so that the node
\* the loop goes on at is no further than the one it would have come to.
LEMMA OtherTyped ==
    ASSUME Indexes, Alone, ReadSo, TypeOK, EndNumber \/ EndSeparated \/ EndNothing
    PROVE  p' \in Parser /\ i' \in 1 .. Len(in) + 1 /\ out' \in Seq(Node)
<1>1. /\ ~done /\ begin # 0 /\ i <= Len(in) /\ p' = InPlace!Done(p).p
  BY DEF EndNumber, EndSeparated, EndNothing, AtOther
<1>2. p' \in Parser
  <2>1. InPlace!Done(p) \in Answer
    BY DoneAnswers DEF TypeOK
  <2> QED BY <1>1, <2>1 DEF Answer
<1>3. /\ begin \in next + 1 .. Len(in) /\ i \in begin + 1 .. Len(in)
      /\ InPlace!EndsWithSeparator(in[i - 1], InPlace!Done(p).p) => begin < i - 1
      /\ begin \in Nat /\ i \in Nat /\ next \in Nat /\ Len(in) \in Nat
  BY <1>1, NumberRead, LenProperties DEF Indexes
<1>4. out \in Seq(Node)
  BY DEF TypeOK
<1>5. CASE EndNumber
  <2>1. \/ Joins(begin, i, p') /\ out' = Written(begin, i, p') /\ i' = i + 1
        \/ out' = out /\ i' = begin + 2
    BY <1>5 DEF EndNumber, Emit, BackTo
  <2>2. begin \in next + 1 .. Len(in) + 1 /\ i \in begin .. Len(in) + 1
    BY <1>3
  <2> QED BY <1>2, <1>3, <1>4, <2>1, <2>2, WrittenNodes
<1>6. CASE EndSeparated
  <2>1. \/ Joins(begin, i - 1, p') /\ out' = Written(begin, i - 1, p') /\ i' = i + 1
        \/ out' = out /\ i' = begin + 3
    BY <1>6 DEF EndSeparated, Emit
  <2>2. begin < i - 1
    BY <1>3, <1>6 DEF EndSeparated
  <2>3. begin \in next + 1 .. Len(in) + 1 /\ i - 1 \in begin .. Len(in) + 1
    BY <1>3, <2>2
  <2> QED BY <1>2, <1>3, <1>4, <2>1, <2>2, <2>3, WrittenNodes
<1>7. CASE EndNothing
  BY <1>2, <1>3, <1>4, <1>7 DEF EndNothing
<1> QED BY <1>5, <1>6, <1>7

LEMMA ReturnTyped ==
    ASSUME Indexes, Alone, ReadSo, TypeOK, Return
    PROVE  p' \in Parser /\ i' \in 1 .. Len(in) + 1 /\ out' \in Seq(Node)
<1> DEFINE r == InPlace!Done(p)
           last == IF r.ok THEN i ELSE i - 1
           joins == /\ begin # 0 /\ Joins(begin, last, r.p)
                    /\ r.ok \/ InPlace!EndsWithSeparator(in[i - 1], r.p)
<1>1. /\ ~done /\ i' = Len(in) + 1 /\ p' = IF begin = 0 THEN p ELSE r.p
      /\ out' = IF joins THEN Written(begin, last, r.p) \o SubSeq(in, last, Len(in)) ELSE path
  BY DEF Return
<1>2. r.p \in Parser /\ p \in Parser /\ r.ok \in BOOLEAN
  BY DoneAnswers DEF TypeOK, Answer
<1>3. Len(in) \in Nat /\ in \in Seq(Node) /\ next \in 0 .. Len(in) /\ out \in Seq(Node)
  BY LenProperties DEF TypeOK
<1>4. ASSUME NEW m \in Nat \ {0} PROVE SubSeq(in, m, Len(in)) \in Seq(Node)
  <2>1. m \in Int /\ Len(in) \in Int /\ \A k \in m .. Len(in) : in[k] \in Node
    BY <1>3, ElementOfSeq
  <2> QED BY <2>1, SubSeqProperties
<1>5. path \in Seq(Node)
  <2>1. SubSeq(in, next + 1, Len(in)) \in Seq(Node)
    BY <1>3, <1>4
  <2> QED BY <1>3, <2>1, ConcatProperties DEF path
<1>6. ASSUME joins
      PROVE  Written(begin, last, r.p) \o SubSeq(in, last, Len(in)) \in Seq(Node)
  <2>1. /\ begin \in next + 1 .. Len(in) /\ i \in begin + 1 .. Len(in) + 1
        /\ InPlace!EndsWithSeparator(in[i - 1], r.p) => begin < i - 1
    BY <1>1, <1>6, NumberRead
  <2>2. last \in begin .. Len(in) + 1 /\ begin \in next + 1 .. Len(in) + 1 /\ last \in Nat \ {0}
    BY <1>3, <1>6, <2>1
  <2>3. Joins(begin, last, r.p)
    BY <1>6
  <2> HIDE DEF last, r
  <2>4. Written(begin, last, r.p) \in Seq(Node)
    BY <1>2, <1>3, <2>2, <2>3, WrittenNodes
  <2>5. SubSeq(in, last, Len(in)) \in Seq(Node)
    BY <1>4, <2>2
  <2> QED BY <2>4, <2>5, ConcatProperties
<1> HIDE DEF joins, last, r
<1> QED BY <1>1, <1>2, <1>3, <1>5, <1>6

LEMMA TypeStarts == Init => TypeOK
<1> SUFFICES ASSUME Init PROVE TypeOK
  OBVIOUS
<1>1. in \in Seq(Node) /\ Len(in) \in Nat
  BY PathsAssumption, LenProperties DEF Init
<1>2. p \in Parser
  BY NewDecimalType DEF Init
<1>3. out \in Seq(Node) /\ next \in 0 .. Len(in) /\ i \in 1 .. Len(in) + 1 /\ begin = 0
  BY <1>1 DEF Init
<1>4. flags \in BOOLEAN \X BOOLEAN /\ done \in BOOLEAN
  BY DEF Init, flags
<1> QED BY <1>1, <1>2, <1>3, <1>4 DEF TypeOK

LEMMA TypeKept ==
    ASSUME Indexes, Alone, ReadSo, TypeOK, [Next]_vars, Indexes'
    PROVE  TypeOK'
<1>1. Len(in) \in Nat /\ in \in Seq(Node) /\ i \in 1 .. Len(in) + 1 /\ flags \in BOOLEAN \X BOOLEAN
  BY LenProperties DEF TypeOK
<1>2. CASE UNCHANGED vars
  BY <1>2 DEF vars, TypeOK, flags
<1>3. CASE Next
  <2>1. in' = in /\ done' \in BOOLEAN
    BY <1>3 DEF Next, AppendNode, SkipNode, EndNumber, EndSeparated, EndNothing, Return, PassNode, TypeOK
  <2>2. next' \in 0 .. Len(in)
    BY <2>1 DEF Indexes
  <2>3. p' \in Parser /\ i' \in 1 .. Len(in) + 1 /\ out' \in Seq(Node)
    <3>1. CASE AppendNode
      BY <3>1, AppendNodeTyped DEF AppendNode, TypeOK
    <3>2. CASE SkipNode
      BY <1>1, <3>2 DEF SkipNode, AtOther, TypeOK
    <3>3. CASE EndNumber \/ EndSeparated \/ EndNothing
      BY <3>3, OtherTyped
    <3>4. CASE Return
      BY <3>4, ReturnTyped
    <3> QED BY <1>3, <3>1, <3>2, <3>3, <3>4 DEF Next
  <2>4. flags' \in BOOLEAN \X BOOLEAN
    <3>1. CASE AppendNode
      BY <3>1, AppendNodeTyped
    <3>2. CASE SkipNode \/ EndNumber \/ EndSeparated \/ EndNothing
      BY <3>2 DEF SkipNode, EndNumber, EndSeparated, EndNothing, PassNode, flags
    <3>3. CASE Return
      BY <1>1, <3>3 DEF Return, flags
    <3> QED BY <1>3, <3>1, <3>2, <3>3 DEF Next
  <2>5. begin' \in {0} \cup next' + 1 .. i'
    <3>1. begin' \in Nat /\ next' \in Nat /\ i' \in Nat /\ (begin' # 0 => next' < begin' /\ begin' < i')
      BY <1>1, <2>1, <2>2 DEF Indexes
    <3>2. \A b, n, m \in Nat : (b # 0 => n < b /\ b < m) => b = 0 \/ b \in n + 1 .. m
      OBVIOUS
    <3>3. begin' = 0 \/ begin' \in next' + 1 .. i'
      BY <3>1, <3>2
    <3> QED BY <3>3
  <2> QED BY <1>1, <2>1, <2>2, <2>3, <2>4, <2>5 DEF TypeOK
<1> QED BY <1>2, <1>3

-----------------------------------------------------------------------------
(* The pass over the katakana of a path                                     *)

KNode == [begin : Nat, end : Nat, oov : BOOLEAN]

\* Nodes that tile the text from f to q.
Tiled(s, f, q) ==
    /\ s \in Seq(KNode)
    /\ \A k \in 1 .. Len(s) : /\ s[k].begin < s[k].end
                              /\ s[k].begin = IF k = 1 THEN f ELSE s[k - 1].end
    /\ IF s = <<>> THEN f = q ELSE s[Len(s)].end = q

\* Where the first k nodes end.
Pos(k) == IF k = 0 THEN 0 ELSE kIn[k].end

LEMMA TiledConcat ==
    ASSUME NEW s, NEW t, NEW f, NEW q, NEW r, Tiled(s, f, q), Tiled(t, q, r)
    PROVE  Tiled(s \o t, f, r)
<1> DEFINE u == s \o t
<1>1. /\ u \in Seq(KNode) /\ Len(u) = Len(s) + Len(t) /\ Len(s) \in Nat /\ Len(t) \in Nat
      /\ \A k \in 1 .. Len(u) : u[k] = IF k <= Len(s) THEN s[k] ELSE t[k - Len(s)]
      /\ s = <<>> <=> Len(s) = 0
      /\ t = <<>> <=> Len(t) = 0
      /\ u = <<>> <=> Len(u) = 0
  BY ConcatProperties, LenProperties, EmptySeq DEF Tiled
<1> HIDE DEF u
<1>2. ASSUME NEW k \in 1 .. Len(u)
      PROVE  u[k].begin < u[k].end /\ u[k].begin = IF k = 1 THEN f ELSE u[k - 1].end
  <2>1. CASE k <= Len(s)
    <3>1. k \in 1 .. Len(s) /\ u[k] = s[k] /\ (k # 1 => u[k - 1] = s[k - 1])
      BY <1>1, <2>1
    <3> QED BY <3>1 DEF Tiled
  <2>2. CASE k > Len(s)
    <3>1. k - Len(s) \in 1 .. Len(t) /\ u[k] = t[k - Len(s)]
      BY <1>1, <2>2
    <3>2. CASE k = Len(s) + 1
      <4>1. u[k].begin = q /\ k - Len(s) = 1
        BY <1>1, <3>1, <3>2 DEF Tiled
      <4>2. CASE Len(s) = 0
        BY <1>1, <3>1, <3>2, <4>1, <4>2 DEF Tiled
      <4>3. CASE Len(s) # 0
        <5>1. k # 1 /\ u[k - 1] = s[Len(s)] /\ s[Len(s)].end = q
          BY <1>1, <3>2, <4>3 DEF Tiled
        <5> QED BY <3>1, <4>1, <5>1 DEF Tiled
      <4> QED BY <4>2, <4>3
    <3>3. CASE k # Len(s) + 1
      <4>1. k # 1 /\ u[k - 1] = t[k - Len(s) - 1] /\ k - Len(s) # 1
        BY <1>1, <2>2, <3>3, SMTT(30)
      <4> QED BY <3>1, <4>1 DEF Tiled
    <3> QED BY <3>2, <3>3
  <2> QED BY <1>1, <2>1, <2>2
<1>3. IF u = <<>> THEN f = r ELSE u[Len(u)].end = r
  <2>1. CASE Len(t) = 0
    BY <1>1, <2>1 DEF Tiled
  <2>2. CASE Len(t) # 0
    <3>1. u[Len(u)] = t[Len(t)] /\ u # <<>>
      BY <1>1, <2>2
    <3> QED BY <1>1, <2>2, <3>1 DEF Tiled
  <2> QED BY <2>1, <2>2
<1> QED BY <1>1, <1>2, <1>3 DEF Tiled, u

LEMMA TiledPart ==
    ASSUME NEW len, Tiled(kIn, 0, len), NEW a \in 0 .. Len(kIn), NEW b \in a .. Len(kIn)
    PROVE  /\ Tiled(SubSeq(kIn, a + 1, b), Pos(a), Pos(b))
           /\ Len(SubSeq(kIn, a + 1, b)) = b - a
           /\ \A k \in 1 .. b - a : SubSeq(kIn, a + 1, b)[k] = kIn[a + k]
<1> DEFINE u == SubSeq(kIn, a + 1, b)
<1>1. kIn \in Seq(KNode) /\ Len(kIn) \in Nat /\ a \in Nat /\ b \in Nat /\ a <= b /\ b <= Len(kIn)
  BY DEF Tiled
<1>2. \A k \in a + 1 .. b : kIn[k] \in KNode
  BY <1>1, ElementOfSeq
<1>3. /\ u \in Seq(KNode) /\ Len(u) = IF a + 1 <= b THEN b - (a + 1) + 1 ELSE 0
      /\ \A k \in 1 .. b - (a + 1) + 1 : u[k] = kIn[(a + 1) + k - 1]
  BY <1>1, <1>2, SubSeqProperties
<1>4. /\ u \in Seq(KNode) /\ Len(u) = b - a /\ \A k \in 1 .. b - a : u[k] = kIn[a + k]
      /\ u = <<>> <=> Len(u) = 0
  BY <1>1, <1>3, EmptySeq
<1> HIDE DEF u
<1>5. ASSUME NEW k \in 1 .. Len(u)
      PROVE  u[k].begin < u[k].end /\ u[k].begin = IF k = 1 THEN Pos(a) ELSE u[k - 1].end
  <2>1. /\ a + k \in 1 .. Len(kIn) /\ u[k] = kIn[a + k]
        /\ k # 1 => u[k - 1] = kIn[a + k - 1]
        /\ kIn[a + k].begin < kIn[a + k].end
        /\ kIn[a + k].begin = IF a + k = 1 THEN 0 ELSE kIn[a + k - 1].end
    <3>1. a + k \in 1 .. Len(kIn) /\ u[k] = kIn[a + k]
      BY <1>1, <1>4
    <3>2. ASSUME k # 1 PROVE u[k - 1] = kIn[a + k - 1]
      <4>1. k - 1 \in 1 .. b - a /\ a + (k - 1) = a + k - 1
        BY <1>1, <1>4, <3>2
      <4> QED BY <1>4, <4>1
    <3>3. \A m \in 1 .. Len(kIn) :
              kIn[m].begin < kIn[m].end /\ kIn[m].begin = IF m = 1 THEN 0 ELSE kIn[m - 1].end
      BY DEF Tiled
    <3> QED BY <3>1, <3>2, <3>3
  <2>2. CASE k = 1
    BY <1>1, <2>1, <2>2 DEF Pos
  <2>3. CASE k # 1
    <3>1. a + k # 1
      BY <1>1, <2>3
    <3> QED BY <2>1, <2>3, <3>1
  <2> QED BY <2>2, <2>3
<1>6. IF u = <<>> THEN Pos(a) = Pos(b) ELSE u[Len(u)].end = Pos(b)
  <2>1. CASE a = b
    BY <1>1, <1>4, <2>1
  <2>2. CASE a # b
    <3>1. u # <<>> /\ u[Len(u)] = kIn[b] /\ b # 0
      BY <1>1, <1>4, <2>2
    <3> QED BY <3>1 DEF Pos
  <2> QED BY <2>1, <2>2
<1> QED BY <1>4, <1>5, <1>6 DEF Tiled, u

\* The node that nodes are joined to stands where they stood.
LEMMA TiledJoin ==
    ASSUME NEW s, NEW f, NEW q, Tiled(s, f, q), s # <<>>
    PROVE  Tiled(<<Katakana!JoinOOVNodes(s)>>, f, q)
<1> DEFINE n == Katakana!JoinOOVNodes(s)
           P(k) == s[1].begin < s[k].end
<1>1. s \in Seq(KNode) /\ Len(s) \in Nat /\ Len(s) >= 1 /\ DOMAIN s = 1 .. Len(s)
  BY EmptySeq DEF Tiled
<1>2. \A k \in 1 .. Len(s) : s[k].begin \in Nat /\ s[k].end \in Nat
  <2>1. ASSUME NEW k \in 1 .. Len(s) PROVE s[k].begin \in Nat /\ s[k].end \in Nat
    <3>1. s[k] \in KNode
      BY <1>1, ElementOfSeq
    <3> QED BY <3>1 DEF KNode
  <2> QED BY <2>1
<1>3. s[1].begin < s[Len(s)].end
  <2> DEFINE S == {k \in 1 .. Len(s) : ~P(k)}
  <2>1. SUFFICES S = {}
    BY <1>1
  <2>2. SUFFICES ASSUME S # {} PROVE FALSE
    OBVIOUS
  <2>3. PICK k \in S : \A l \in S : k <= l
    <3>1. S \in SUBSET Nat
      BY <1>1
    <3> HIDE DEF S
    <3> QED BY <2>2, <3>1, Least
  <2>4. CASE k = 1
    BY <1>1, <2>4 DEF Tiled
  <2>5. CASE k # 1
    <3>1. k - 1 \in 1 .. Len(s) /\ k - 1 \notin S
      BY <1>1, <2>3, <2>5
    <3>2. P(k - 1) /\ s[k].begin = s[k - 1].end /\ s[k].begin < s[k].end
      BY <1>1, <2>5, <3>1 DEF Tiled
    <3> QED BY <1>1, <1>2, <3>1, <3>2
  <2> QED BY <2>4, <2>5
<1>4. n = [begin |-> s[1].begin, end |-> s[Len(s)].end, oov |-> \E k \in DOMAIN s : s[k].oov]
  BY DEF Katakana!JoinOOVNodes, Katakana!Last
<1>5. n.begin = f /\ n.end = q /\ n.begin < n.end /\ n \in KNode
  <2>1. s[1].begin = f /\ s[Len(s)].end = q
    BY <1>1 DEF Tiled
  <2>2. s[1].begin \in Nat /\ s[Len(s)].end \in Nat /\ (\E k \in DOMAIN s : s[k].oov) \in BOOLEAN
    BY <1>1, <1>2
  <2> QED BY <1>3, <1>4, <2>1, <2>2 DEF KNode
<1> HIDE DEF n
<1>6. <<n>> \in Seq(KNode) /\ Len(<<n>>) = 1 /\ <<n>>[1] = n /\ <<n>> # <<>>
  BY <1>5
<1>7. \A k \in 1 .. 1 : k = 1
  OBVIOUS
<1> QED BY <1>5, <1>6, <1>7 DEF Tiled, n

-----------------------------------------------------------------------------
(* Runs of katakana                                                         *)

K(k) == Katakana!IsKatakana(kIn[k])
Opens(k) == "NOOOVBOW" \notin cats[kIn[k].begin + 1]

LEMMA RunsAre ==
    ASSUME kIn \in Seq(KNode), NEW r
    PROVE  r \in Katakana!Runs <=>
               /\ r \in (1 .. Len(kIn)) \X (1 .. Len(kIn))
               /\ \A k \in r[1] .. r[2] : K(k)
               /\ r[1] # 1 => ~K(r[1] - 1)
               /\ r[2] # Len(kIn) => ~K(r[2] + 1)
<1>1. DOMAIN kIn = 1 .. Len(kIn) /\ Len(kIn) \in Nat
  BY LenProperties
<1>2. SUFFICES ASSUME r \in (1 .. Len(kIn)) \X (1 .. Len(kIn))
               PROVE  (\A k \in {r[1] - 1, r[2] + 1} \cap DOMAIN kIn : ~K(k)) <=>
                          /\ r[1] # 1 => ~K(r[1] - 1)
                          /\ r[2] # Len(kIn) => ~K(r[2] + 1)
  BY <1>1 DEF Katakana!Runs, K
<1>3. r[1] \in 1 .. Len(kIn) /\ r[2] \in 1 .. Len(kIn)
  BY <1>2
<1>4. /\ r[1] - 1 \in DOMAIN kIn <=> r[1] # 1
      /\ r[2] + 1 \in DOMAIN kIn <=> r[2] # Len(kIn)
  BY <1>1, <1>3
<1> QED BY <1>4

\* Runs that share a node are one.
LEMMA RunUnique ==
    ASSUME kIn \in Seq(KNode), NEW r \in Katakana!Runs, NEW s \in Katakana!Runs,
           NEW k \in r[1] .. r[2], k \in s[1] .. s[2]
    PROVE  r = s
<1>1. /\ r \in (1 .. Len(kIn)) \X (1 .. Len(kIn)) /\ s \in (1 .. Len(kIn)) \X (1 .. Len(kIn))
      /\ \A j \in r[1] .. r[2] : K(j)
      /\ \A j \in s[1] .. s[2] : K(j)
      /\ r[1] # 1 => ~K(r[1] - 1)
      /\ s[1] # 1 => ~K(s[1] - 1)
      /\ r[2] # Len(kIn) => ~K(r[2] + 1)
      /\ s[2] # Len(kIn) => ~K(s[2] + 1)
  BY RunsAre
<1> DEFINE a == r[1]  b == r[2]  c == s[1]  d == s[2]  N == Len(kIn)
<1>2. a \in 1 .. N /\ b \in 1 .. N /\ c \in 1 .. N /\ d \in 1 .. N /\ N \in Nat
  BY <1>1, LenProperties
<1>3. r = <<a, b>> /\ s = <<c, d>>
  BY <1>1
<1>4. k \in a .. b /\ k \in c .. d
  OBVIOUS
<1>5. /\ \A j \in a .. b : K(j)
      /\ \A j \in c .. d : K(j)
      /\ (a # 1 => ~K(a - 1)) /\ (c # 1 => ~K(c - 1))
      /\ (b # N => ~K(b + 1)) /\ (d # N => ~K(d + 1))
  BY <1>1
<1> HIDE DEF a, b, c, d, N
<1>6. ~(a < c)
  <2>1. SUFFICES ASSUME a < c PROVE FALSE
    OBVIOUS
  <2>2. c - 1 \in a .. b /\ c # 1
    BY <1>2, <1>4, <2>1
  <2> QED BY <1>5, <2>2
<1>7. ~(c < a)
  <2>1. SUFFICES ASSUME c < a PROVE FALSE
    OBVIOUS
  <2>2. a - 1 \in c .. d /\ a # 1
    BY <1>2, <1>4, <2>1
  <2> QED BY <1>5, <2>2
<1>8. ~(b < d)
  <2>1. SUFFICES ASSUME b < d PROVE FALSE
    OBVIOUS
  <2>2. b + 1 \in c .. d /\ b # N
    BY <1>2, <1>4, <2>1
  <2> QED BY <1>5, <2>2
<1>9. ~(d < b)
  <2>1. SUFFICES ASSUME d < b PROVE FALSE
    OBVIOUS
  <2>2. d + 1 \in a .. b /\ d # N
    BY <1>2, <1>4, <2>1
  <2> QED BY <1>5, <2>2
<1>10. a = c /\ b = d
  BY <1>2, <1>6, <1>7, <1>8, <1>9
<1> QED BY <1>3, <1>10

LEMMA MinIs ==
    ASSUME NEW S \in SUBSET Nat, S # {}
    PROVE  Katakana!Min(S) \in S /\ \A x \in S : Katakana!Min(S) <= x
<1>1. \E m \in S : \A x \in S : m <= x
  BY Least
<1> QED BY <1>1 DEF Katakana!Min

\* The nodes of a run from b to e, and the node they are joined to.
LEMMA JoinedIs ==
    ASSUME kIn \in Seq(KNode), NEW r, NEW b \in Nat, NEW e \in Nat, b <= e,
           1 <= b, e <= Len(kIn), Katakana!Whole(r) = b .. e
    PROVE  /\ Katakana!Cardinality(Katakana!Whole(r)) = e - b + 1
           /\ Katakana!JoinedRun(r) = Katakana!JoinOOVNodes(SubSeq(kIn, b, e))
<1>1. Cardinality(b .. e) = e - b + 1
  BY FS_Interval
<1>2. Katakana!Cardinality(Katakana!Whole(r)) = e - b + 1
  BY <1>1 DEF Katakana!Cardinality, Cardinality
<1>3. Katakana!Min(b .. e) = b
  <2>1. b .. e \in SUBSET Nat /\ b \in b .. e
    OBVIOUS
  <2>2. Katakana!Min(b .. e) \in b .. e /\ Katakana!Min(b .. e) <= b
    BY <2>1, MinIs
  <2> QED BY <2>2
<1>4. \A k \in b .. e : kIn[k] \in KNode
  BY ElementOfSeq
<1>5. /\ SubSeq(kIn, b, e) \in Seq(KNode) /\ Len(SubSeq(kIn, b, e)) = e - b + 1
      /\ \A k \in 1 .. e - b + 1 : SubSeq(kIn, b, e)[k] = kIn[b + k - 1]
  BY <1>4, SubSeqProperties
<1>6. SubSeq(kIn, b, e) = [k \in 1 .. e - b + 1 |-> kIn[b + k - 1]]
  BY <1>5
<1> QED BY <1>2, <1>3, <1>6 DEF Katakana!JoinedRun

-----------------------------------------------------------------------------
(* What a step of the pass keeps                                            *)

KatakanaTyped ==
    /\ cats \in KTexts /\ Tiled(kIn, 0, Len(cats))
    /\ kNext \in 0 .. Len(kIn) /\ kI \in 1 .. Len(kIn) + 2 /\ kNext < kI
    /\ kDone \in BOOLEAN /\ (kDone => kNext = Len(kIn))

\* The nodes it has made stand for the nodes up to kNext.
MadeTiled == Tiled(kOut, 0, Pos(kNext))

\* No run goes on beyond kNext.
RunsSplit == kDone \/ kNext = 0 \/ kNext = Len(kIn) \/ ~K(kNext + 1)

\* It has passed no node that makes it join a run it has yet to join.
NonePassed ==
    ~kDone => \A r \in Katakana!Joinable :
                  r[1] > kNext => \A k \in r[1] .. r[2] : Katakana!Trigger(kIn[k]) => kI <= k

Has(s, x) == \E k \in 1 .. Len(s) : s[k] = x

\* Up to kNext, the runs are joined and the other nodes are as they were.
Inner == UNION {Katakana!Whole(r) : r \in Katakana!Joinable}
JoinedUpTo(n) ==
    {Katakana!JoinedRun(r) : r \in {s \in Katakana!Joinable : s[2] <= n}}
    \cup {kIn[k] : k \in (1 .. n) \ Inner}
MadeJoined == \A x : Has(kOut, x) <=> x \in JoinedUpTo(kNext)

KatakanaInv == KatakanaTyped /\ MadeTiled /\ RunsSplit /\ NonePassed /\ MadeJoined

\* The run around the node it reads, and the part of it that may be joined.
LEMMA RunAround ==
    ASSUME KatakanaTyped, RunsSplit, Katakana!AtKatakana
    PROVE  /\ Katakana!End \in kI + 1 .. Len(kIn) + 1
           /\ Katakana!End # Len(kIn) + 1 => ~K(Katakana!End)
           /\ \E a \in kNext + 1 .. kI :
                  /\ <<a, Katakana!End - 1>> \in Katakana!Runs
                  /\ Katakana!Begin \in a .. Katakana!End
                  /\ Katakana!Whole(<<a, Katakana!End - 1>>) = Katakana!Begin .. Katakana!End - 1
<1> DEFINE N == Len(kIn)
           After == {k \in kI + 1 .. N + 1 : k > N \/ ~K(k)}
           e == Katakana!End
           Before == {b \in kNext + 1 .. kI : \A k \in b .. kI : K(k)}
           a == Katakana!Min(Before)
           Open == {b \in a .. e : b = e \/ Opens(b)}
           m == Katakana!Begin
<1>1. /\ kIn \in Seq(KNode) /\ N \in Nat /\ kI \in 1 .. N /\ K(kI) /\ kNext \in 0 .. N /\ kNext < kI
      /\ ~kDone
  BY DEF KatakanaTyped, Tiled, Katakana!AtKatakana, K
<1>2. e = Katakana!Min(After) /\ m = Katakana!Min(Open)
  BY DEF Katakana!End, Katakana!Begin, K, Opens
<1> HIDE DEF N, e, m
<1>3. e \in After /\ \A k \in After : e <= k
  <2>1. After \in SUBSET Nat /\ N + 1 \in After
    BY <1>1
  <2> HIDE DEF After
  <2> QED BY <1>2, <2>1, MinIs
<1>4. e \in kI + 1 .. N + 1 /\ (e # N + 1 => ~K(e)) /\ \A k \in kI .. e - 1 : K(k)
  <2>1. ASSUME NEW k \in kI .. e - 1 PROVE K(k)
    BY <1>1, <1>3, <2>1
  <2> QED BY <1>1, <1>3, <2>1
<1>5. a \in Before /\ \A b \in Before : a <= b
  <2>1. Before \in SUBSET Nat /\ kI \in Before
    BY <1>1
  <2> HIDE DEF Before
  <2> QED BY <2>1, MinIs
<1> HIDE DEF a
<1>6. a \in kNext + 1 .. kI /\ \A k \in a .. kI : K(k)
  BY <1>5
<1>7. a # 1 => ~K(a - 1)
  <2>1. SUFFICES ASSUME a # 1, K(a - 1) PROVE FALSE
    OBVIOUS
  <2>2. CASE a = kNext + 1
    <3>1. kNext # 0 /\ K(kNext + 1) /\ kNext # N
      BY <1>1, <1>6, <2>1, <2>2
    <3> QED BY <1>1, <3>1 DEF RunsSplit, N
  <2>3. CASE a # kNext + 1
    <3>1. a - 1 \in kNext + 1 .. kI /\ \A k \in a - 1 .. kI : k = a - 1 \/ k \in a .. kI
      BY <1>1, <1>6, <2>3
    <3>2. a - 1 \in Before
      BY <1>6, <2>1, <3>1
    <3> QED BY <1>5, <1>6, <1>1, <3>2
  <2> QED BY <2>2, <2>3
<1>8. <<a, e - 1>> \in Katakana!Runs
  <2>1. a \in 1 .. N /\ e - 1 \in 1 .. N
    BY <1>1, <1>4, <1>6
  <2>2. \A k \in a .. e - 1 : k \in a .. kI \/ k \in kI .. e - 1
    BY <1>1, <1>4, <1>6
  <2>3. \A k \in a .. e - 1 : K(k)
    BY <1>4, <1>6, <2>2
  <2>4. e - 1 # N => ~K(e - 1 + 1)
    BY <1>4, <1>1
  <2>5. <<a, e - 1>>[1] = a /\ <<a, e - 1>>[2] = e - 1 /\ <<a, e - 1>> \in (1 .. N) \X (1 .. N)
    BY <2>1
  <2> QED BY <1>1, <1>7, <2>3, <2>4, <2>5, RunsAre DEF N
<1>9. m \in Open /\ \A b \in Open : m <= b
  <2>1. Open \in SUBSET Nat /\ e \in Open
    BY <1>1, <1>4, <1>6
  <2> HIDE DEF Open
  <2> QED BY <1>2, <2>1, MinIs
<1>10. Katakana!Whole(<<a, e - 1>>) = m .. e - 1
  <2>1. Katakana!Whole(<<a, e - 1>>) = {k \in a .. e - 1 : \E b \in a .. k : Opens(b)}
    BY DEF Katakana!Whole, Opens
  <2>2. ASSUME NEW k \in a .. e - 1
        PROVE  (\E b \in a .. k : Opens(b)) <=> k \in m .. e - 1
    <3>1. ASSUME NEW b \in a .. k, Opens(b) PROVE k \in m .. e - 1
      <4>1. b \in Open
        BY <1>1, <1>4, <1>6, <3>1
      <4> QED BY <1>1, <1>4, <1>6, <1>9, <4>1
    <3>2. ASSUME k \in m .. e - 1 PROVE \E b \in a .. k : Opens(b)
      <4>1. m \in a .. k /\ m # e
        BY <1>1, <1>4, <1>6, <1>9, <3>2
      <4> QED BY <1>9, <4>1
    <3> QED BY <3>1, <3>2
  <2>3. m .. e - 1 \subseteq a .. e - 1
    BY <1>1, <1>4, <1>6, <1>9
  <2> QED BY <2>1, <2>2, <2>3
<1>11. m \in a .. e
  BY <1>9
<1> QED BY <1>4, <1>6, <1>8, <1>10, <1>11 DEF N, e, m

LEMMA TextOfPathStays ==
    ASSUME UNCHANGED <<cats, kIn>>
    PROVE  /\ \A k : K(k)' = K(k)
           /\ \A k : Katakana!Trigger(kIn[k])' = Katakana!Trigger(kIn[k])
           /\ Katakana!Runs' = Katakana!Runs
           /\ \A r : Katakana!Whole(r)' = Katakana!Whole(r)
           /\ \A r : Katakana!JoinedRun(r)' = Katakana!JoinedRun(r)
           /\ Katakana!Joinable' = Katakana!Joinable
<1>1. \A n : Katakana!IsKatakana(n)' = Katakana!IsKatakana(n)
  BY DEF Katakana!IsKatakana, Katakana!CategoryOfRange, Katakana!Range
<1>2. \A k : K(k)' = K(k)
  BY DEF K, Katakana!IsKatakana, Katakana!CategoryOfRange, Katakana!Range
<1>3. \A k : Katakana!Trigger(kIn[k])' = Katakana!Trigger(kIn[k])
  BY DEF Katakana!Trigger
<1>4. Katakana!Runs' = Katakana!Runs
  BY DEF Katakana!Runs, Katakana!IsKatakana, Katakana!CategoryOfRange, Katakana!Range
<1>5. \A r : Katakana!Whole(r)' = Katakana!Whole(r)
  BY DEF Katakana!Whole
<1>6. \A r : Katakana!JoinedRun(r)' = Katakana!JoinedRun(r)
  BY DEF Katakana!JoinedRun, Katakana!Whole
<1>7. Katakana!Joinable' = Katakana!Joinable
  BY <1>4 DEF Katakana!Joinable, Katakana!Whole, Katakana!Trigger
<1> QED BY <1>2, <1>3, <1>4, <1>5, <1>6, <1>7

LEMMA JoinedUpToStays ==
    ASSUME UNCHANGED <<cats, kIn>>
    PROVE  Inner' = Inner /\ \A n : JoinedUpTo(n)' = JoinedUpTo(n)
<1>1. Inner' = Inner
  BY TextOfPathStays DEF Inner
<1>2. \A n : JoinedUpTo(n)' = JoinedUpTo(n)
  BY <1>1, TextOfPathStays DEF JoinedUpTo
<1> QED BY <1>1, <1>2

\* A run that may be joined, of kIn.
LEMMA JoinableAre ==
    ASSUME kIn \in Seq(KNode), NEW r
    PROVE  r \in Katakana!Joinable <=>
               /\ r \in Katakana!Runs /\ r[1] <= r[2]
               /\ Katakana!Cardinality(Katakana!Whole(r)) > 1
               /\ \E k \in r[1] .. r[2] : Katakana!Trigger(kIn[k])
BY DEF Katakana!Joinable

\* The runs yet to join begin beyond the node it reads next, unless they hold it.
LEMMA YetToJoin ==
    ASSUME KatakanaTyped, RunsSplit, NonePassed, ~kDone, NEW r \in Katakana!Joinable
    PROVE  /\ r[1] \in 1 .. Len(kIn) /\ r[2] \in 1 .. Len(kIn) /\ r[1] <= r[2]
           /\ \A k \in r[1] .. r[2] : K(k)
           /\ r[2] > kNext =>
                  /\ r[1] > kNext
                  /\ \E k \in r[1] .. r[2] : Katakana!Trigger(kIn[k]) /\ kI <= k
<1>1. kIn \in Seq(KNode) /\ Len(kIn) \in Nat
  BY DEF KatakanaTyped, Tiled
<1>2. /\ r \in Katakana!Runs /\ r[1] <= r[2]
      /\ \E k \in r[1] .. r[2] : Katakana!Trigger(kIn[k])
  BY <1>1, JoinableAre
<1>3. /\ r \in (1 .. Len(kIn)) \X (1 .. Len(kIn))
      /\ \A k \in r[1] .. r[2] : K(k)
  BY <1>1, <1>2, RunsAre
<1>4. r[1] \in 1 .. Len(kIn) /\ r[2] \in 1 .. Len(kIn)
  BY <1>3
<1>5. ASSUME r[2] > kNext PROVE r[1] > kNext
  <2>1. SUFFICES ASSUME r[1] <= kNext PROVE FALSE
    BY <1>4 DEF KatakanaTyped
  <2>2. kNext # 0 /\ kNext # Len(kIn) /\ kNext + 1 \in r[1] .. r[2]
    BY <1>4, <1>5, <2>1 DEF KatakanaTyped
  <2> QED BY <1>3, <2>2 DEF RunsSplit
<1>6. ASSUME r[1] > kNext
      PROVE  \E k \in r[1] .. r[2] : Katakana!Trigger(kIn[k]) /\ kI <= k
  BY <1>2, <1>6 DEF NonePassed
<1> QED BY <1>2, <1>3, <1>4, <1>5, <1>6

LEMMA PassNodeKeeps ==
    ASSUME KatakanaInv, Katakana!PassNode
    PROVE  KatakanaInv'
<1>1. /\ KatakanaTyped /\ MadeTiled /\ RunsSplit /\ NonePassed /\ MadeJoined
      /\ ~kDone /\ kI <= Len(kIn) /\ kI' = kI + 1
      /\ UNCHANGED <<cats, kIn>> /\ UNCHANGED <<kOut, kNext, kDone>>
      /\ Katakana!AtKatakana => Katakana!End - Katakana!Begin <= 1
  BY DEF KatakanaInv, Katakana!PassNode
<1>2. KatakanaTyped'
  BY <1>1 DEF KatakanaTyped, Tiled
<1>3. MadeTiled'
  BY <1>1 DEF MadeTiled, Tiled, Pos
<1>4. RunsSplit'
  BY <1>1, TextOfPathStays DEF RunsSplit
<1>5. MadeJoined'
  <2>1. \A n : JoinedUpTo(n)' = JoinedUpTo(n)
    BY <1>1, JoinedUpToStays
  <2>2. JoinedUpTo(kNext)' = JoinedUpTo(kNext)
    BY <1>1, JoinedUpToStays DEF JoinedUpTo
  <2> QED BY <1>1, <2>2 DEF MadeJoined
<1>6. NonePassed'
  <2>1. SUFFICES ASSUME NEW r \in Katakana!Joinable, r[1] > kNext,
                        NEW k \in r[1] .. r[2], Katakana!Trigger(kIn[k])
                 PROVE  kI + 1 <= k
    BY <1>1, TextOfPathStays DEF NonePassed
  <2>2. /\ kIn \in Seq(KNode) /\ Len(kIn) \in Nat /\ r[1] \in 1 .. Len(kIn) /\ r[2] \in 1 .. Len(kIn)
        /\ K(k) /\ kI <= k
    BY <1>1, <2>1, YetToJoin DEF KatakanaTyped, Tiled, NonePassed
  <2>3. ASSUME k = kI PROVE FALSE
    <3>1. Katakana!AtKatakana
      BY <1>1, <2>1, <2>2, <2>3 DEF Katakana!AtKatakana, K
    <3>2. PICK a \in kNext + 1 .. kI :
              /\ <<a, Katakana!End - 1>> \in Katakana!Runs
              /\ Katakana!Begin \in a .. Katakana!End
              /\ Katakana!Whole(<<a, Katakana!End - 1>>) = Katakana!Begin .. Katakana!End - 1
      BY <1>1, <3>1, RunAround
    <3>3. Katakana!End \in kI + 1 .. Len(kIn) + 1 /\ kI \in Nat
      BY <1>1, <3>1, RunAround DEF KatakanaTyped
    <3>4. r \in Katakana!Runs /\ Katakana!Cardinality(Katakana!Whole(r)) > 1
      BY <2>2, JoinableAre
    <3>5. k \in <<a, Katakana!End - 1>>[1] .. <<a, Katakana!End - 1>>[2]
      BY <2>3, <3>2, <3>3
    <3>6. r = <<a, Katakana!End - 1>>
      BY <2>1, <2>2, <3>2, <3>4, <3>5, RunUnique
    <3>7. Katakana!Whole(r) = Katakana!Begin .. Katakana!End - 1
      BY <3>2, <3>6
    <3>8. Cardinality(Katakana!Begin .. Katakana!End - 1) <= 1
      <4>1. Katakana!Begin \in Int /\ Katakana!End \in Int /\ Katakana!End - Katakana!Begin <= 1
            /\ Katakana!Begin <= Katakana!End
        BY <1>1, <2>2, <3>1, <3>2, <3>3
      <4>2. Katakana!End - 1 \in Int
        BY <4>1
      <4>3. Cardinality(Katakana!Begin .. Katakana!End - 1) =
                IF Katakana!Begin > Katakana!End - 1 THEN 0
                ELSE Katakana!End - 1 - Katakana!Begin + 1
        BY <4>1, <4>2, FS_Interval
      <4> QED BY <4>1, <4>2, <4>3
    <3>9. Katakana!Cardinality(Katakana!Whole(r)) <= 1
      BY <3>7, <3>8 DEF Katakana!Cardinality, Cardinality
    <3>10. Katakana!Cardinality(Katakana!Whole(r)) \in Nat
      <4>1. Cardinality(Katakana!Begin .. Katakana!End - 1) \in Nat
        BY <2>2, <3>2, <3>3, FS_Interval, FS_CardinalityType
      <4> QED BY <3>7, <4>1 DEF Katakana!Cardinality, Cardinality
    <3> QED BY <3>4, <3>9, <3>10
  <2> QED BY <1>1, <2>2, <2>3 DEF KatakanaTyped
<1> QED BY <1>2, <1>3, <1>4, <1>5, <1>6 DEF KatakanaInv

LEMMA ConcatHas ==
    ASSUME NEW S, NEW s \in Seq(S), NEW t \in Seq(S), NEW x
    PROVE  Has(s \o t, x) <=> Has(s, x) \/ Has(t, x)
<1> DEFINE u == s \o t
<1>1. /\ Len(s) \in Nat /\ Len(t) \in Nat /\ Len(u) = Len(s) + Len(t)
      /\ \A k \in 1 .. Len(u) : u[k] = IF k <= Len(s) THEN s[k] ELSE t[k - Len(s)]
  BY ConcatProperties, LenProperties
<1> HIDE DEF u
<1>2. ASSUME NEW k \in 1 .. Len(s), s[k] = x PROVE \E j \in 1 .. Len(u) : u[j] = x
  <2>1. k \in 1 .. Len(u) /\ u[k] = s[k]
    BY <1>1
  <2> QED BY <1>2, <2>1
<1>3. ASSUME NEW k \in 1 .. Len(t), t[k] = x PROVE \E j \in 1 .. Len(u) : u[j] = x
  <2>1. Len(s) + k \in 1 .. Len(u) /\ u[Len(s) + k] = t[k]
    BY <1>1
  <2> QED BY <1>3, <2>1
<1>4. ASSUME NEW k \in 1 .. Len(u), u[k] = x
      PROVE  (\E j \in 1 .. Len(s) : s[j] = x) \/ \E j \in 1 .. Len(t) : t[j] = x
  <2>1. CASE k <= Len(s)
    <3>1. k \in 1 .. Len(s) /\ u[k] = s[k]
      BY <1>1, <2>1
    <3> QED BY <1>4, <3>1
  <2>2. CASE k > Len(s)
    <3>1. k - Len(s) \in 1 .. Len(t) /\ u[k] = t[k - Len(s)]
      BY <1>1, <2>2
    <3> QED BY <1>4, <3>1
  <2> QED BY <1>1, <2>1, <2>2
<1>5. (\E k \in 1 .. Len(u) : u[k] = x) <=>
          (\E k \in 1 .. Len(s) : s[k] = x) \/ (\E k \in 1 .. Len(t) : t[k] = x)
  BY <1>2, <1>3, <1>4
<1> QED BY <1>5 DEF u, Has

\* The nodes from f + 1 to q.
LEMMA PartHas ==
    ASSUME KatakanaTyped, NEW f \in 0 .. Len(kIn), NEW q \in f .. Len(kIn), NEW x
    PROVE  Has(SubSeq(kIn, f + 1, q), x) <=> \E k \in f + 1 .. q : kIn[k] = x
<1> DEFINE u == SubSeq(kIn, f + 1, q)
<1>1. /\ Len(u) = q - f /\ \A k \in 1 .. q - f : u[k] = kIn[f + k]
      /\ f \in Nat /\ q \in Nat /\ f <= q
  <2>1. Len(kIn) \in Nat
    BY LenProperties DEF KatakanaTyped, Tiled
  <2> QED BY <2>1, TiledPart, SMTT(30) DEF KatakanaTyped
<1> HIDE DEF u
<1>2. ASSUME NEW k \in 1 .. Len(u), u[k] = x PROVE \E j \in f + 1 .. q : kIn[j] = x
  <2>1. f + k \in f + 1 .. q /\ kIn[f + k] = x
    BY <1>1, <1>2
  <2> QED BY <2>1
<1>3. ASSUME NEW k \in f + 1 .. q, kIn[k] = x PROVE \E j \in 1 .. Len(u) : u[j] = x
  <2>1. k - f \in 1 .. Len(u) /\ u[k - f] = kIn[f + (k - f)] /\ f + (k - f) = k
    BY <1>1
  <2> QED BY <1>3, <2>1
<1>4. (\E k \in 1 .. Len(u) : u[k] = x) <=> \E k \in f + 1 .. q : kIn[k] = x
  BY <1>2, <1>3
<1> QED BY <1>4 DEF u, Has

LEMMA ReturnKeepsKatakana ==
    ASSUME KatakanaInv, Katakana!Return
    PROVE  KatakanaInv'
<1> DEFINE N == Len(kIn)
           rest == SubSeq(kIn, kNext + 1, N)
<1>1. /\ KatakanaTyped /\ MadeTiled /\ RunsSplit /\ NonePassed /\ MadeJoined
      /\ ~kDone /\ kI > N /\ kOut' = kOut \o rest
      /\ UNCHANGED <<cats, kIn>> /\ kI' = kI /\ kNext' = N /\ kDone' = TRUE
  BY DEF KatakanaInv, Katakana!Return
<1>2. kIn \in Seq(KNode) /\ N \in Nat /\ kNext \in 0 .. N /\ kI \in Nat
  BY <1>1 DEF KatakanaTyped, Tiled
<1>3. KatakanaTyped'
  BY <1>1, <1>2 DEF KatakanaTyped, Tiled
<1>4. Tiled(rest, Pos(kNext), Pos(N))
  <2>1. Tiled(kIn, 0, Len(cats)) /\ N \in kNext .. N
    BY <1>1, <1>2 DEF KatakanaTyped
  <2> QED BY <1>2, <2>1, TiledPart
<1>5. MadeTiled'
  <2>1. Tiled(kOut', 0, Pos(N))
    BY <1>1, <1>4, TiledConcat DEF MadeTiled
  <2>2. Pos(kNext)' = Pos(N)
    BY <1>1 DEF Pos
  <2> QED BY <2>1, <2>2 DEF MadeTiled, Tiled
<1>6. RunsSplit' /\ NonePassed'
  BY <1>1 DEF RunsSplit, NonePassed
<1>7. MadeJoined'
  <2>1. ASSUME NEW r \in Katakana!Joinable PROVE r[2] <= kNext /\ r[2] <= N
    BY <1>1, <1>2, YetToJoin
  <2>2. ASSUME NEW k \in kNext + 1 .. N PROVE k \notin Inner
    <3>1. SUFFICES ASSUME NEW r \in Katakana!Joinable, k \in Katakana!Whole(r) PROVE FALSE
      BY DEF Inner
    <3>2. k \in r[1] .. r[2]
      BY <3>1 DEF Katakana!Whole
    <3>3. r[2] \in 1 .. N
      BY <1>1, <3>1, YetToJoin
    <3> QED BY <1>2, <2>1, <3>1, <3>2, <3>3
  <2>3. ASSUME NEW x
        PROVE  x \in JoinedUpTo(N) <=> x \in JoinedUpTo(kNext) \/ \E k \in kNext + 1 .. N : kIn[k] = x
    <3>1. {s \in Katakana!Joinable : s[2] <= N} = {s \in Katakana!Joinable : s[2] <= kNext}
      BY <2>1
    <3>2. (1 .. N) \ Inner = ((1 .. kNext) \ Inner) \cup (kNext + 1 .. N)
      BY <1>2, <2>2
    <3> HIDE DEF N
    <3> QED BY <3>1, <3>2 DEF JoinedUpTo
  <2>4. kOut \in Seq(KNode) /\ rest \in Seq(KNode)
    BY <1>1, <1>4 DEF MadeTiled, Tiled
  <2>5. ASSUME NEW x
        PROVE  Has(kOut', x) <=> x \in JoinedUpTo(N)
    <3>1. Has(kOut', x) <=> Has(kOut, x) \/ Has(rest, x)
      <4> HIDE DEF rest
      <4> QED BY <1>1, <2>4, ConcatHas
    <3>2. Has(rest, x) <=> \E k \in kNext + 1 .. N : kIn[k] = x
      <4>1. N \in kNext .. N
        BY <1>2
      <4>2. kNext \in 0 .. Len(kIn) /\ N \in kNext .. Len(kIn) /\ KatakanaTyped
        BY <1>1, <1>2
      <4>3. \A q \in kNext .. Len(kIn) :
                Has(SubSeq(kIn, kNext + 1, q), x) <=> \E k \in kNext + 1 .. q : kIn[k] = x
        BY <4>2, PartHas
      <4> HIDE DEF N
      <4>4. Has(SubSeq(kIn, kNext + 1, N), x) <=> \E k \in kNext + 1 .. N : kIn[k] = x
        BY <4>2, <4>3
      <4> QED BY <4>4 DEF rest
    <3>3. Has(kOut, x) <=> x \in JoinedUpTo(kNext)
      BY <1>1 DEF MadeJoined
    <3> QED BY <2>3, <3>1, <3>2, <3>3
  <2>6. JoinedUpTo(kNext)' = JoinedUpTo(N)
    BY <1>1, JoinedUpToStays DEF JoinedUpTo
  <2> QED BY <2>5, <2>6 DEF MadeJoined
<1> QED BY <1>3, <1>5, <1>6, <1>7 DEF KatakanaInv

\* The run it joins is the only one of those yet to join that begins before its
\* end.
LEMMA NextJoined ==
    ASSUME KatakanaTyped, RunsSplit, NonePassed, ~kDone, NEW r \in Katakana!Joinable,
           NEW a \in kNext + 1 .. kI, NEW e \in kI + 1 .. Len(kIn) + 1,
           <<a, e - 1>> \in Katakana!Runs, r[2] > kNext, r[1] < e
    PROVE  r = <<a, e - 1>>
<1> DEFINE N == Len(kIn)
<1>1. /\ kIn \in Seq(KNode) /\ N \in Nat /\ kNext \in 0 .. N /\ kI \in Nat
      /\ a \in Int /\ e \in Int /\ a > kNext /\ a <= kI /\ kI < e
  BY DEF KatakanaTyped, Tiled
<1>2. PICK k \in r[1] .. r[2] : kI <= k
  BY YetToJoin
<1>3. r[1] \in 1 .. N /\ r[2] \in 1 .. N /\ r[1] <= r[2] /\ r \in Katakana!Runs
  BY <1>1, YetToJoin, JoinableAre
<1>4. <<a, e - 1>>[1] = a /\ <<a, e - 1>>[2] = e - 1
  OBVIOUS
<1>5. CASE r[1] <= kI
  <2>1. kI \in r[1] .. r[2] /\ kI \in a .. e - 1
    BY <1>1, <1>2, <1>3, <1>5
  <2> QED BY <1>1, <1>3, <1>4, <2>1, RunUnique
<1>6. CASE kI < r[1]
  <2>1. r[1] \in r[1] .. r[2] /\ r[1] \in a .. e - 1
    BY <1>1, <1>3, <1>6
  <2> QED BY <1>1, <1>3, <1>4, <2>1, RunUnique
<1> QED BY <1>1, <1>3, <1>5, <1>6

LEMMA JoinRunKeeps ==
    ASSUME KatakanaInv, Katakana!JoinRun
    PROVE  KatakanaInv'
<1> DEFINE N == Len(kIn)
           e == Katakana!End
           m == Katakana!Begin
           before == SubSeq(kIn, kNext + 1, m - 1)
           whole == SubSeq(kIn, m, e - 1)
           n == Katakana!JoinOOVNodes(whole)
<1>1. /\ KatakanaTyped /\ MadeTiled /\ RunsSplit /\ NonePassed /\ MadeJoined
      /\ Katakana!AtKatakana /\ e - m > 1 /\ kOut' = (kOut \o before) \o <<n>>
      /\ UNCHANGED <<cats, kIn, kDone>> /\ kI' = e + 1 /\ kNext' = e - 1
  BY DEF KatakanaInv, Katakana!JoinRun, Katakana!Resume
<1>2. PICK a \in kNext + 1 .. kI :
          /\ <<a, e - 1>> \in Katakana!Runs
          /\ m \in a .. e
          /\ Katakana!Whole(<<a, e - 1>>) = m .. e - 1
  BY <1>1, RunAround
<1>3. e \in kI + 1 .. N + 1 /\ (e # N + 1 => ~K(e))
  BY <1>1, RunAround
<1>4. ~kDone /\ kI <= N /\ Katakana!Trigger(kIn[kI])
  BY <1>1 DEF Katakana!AtKatakana
<1> HIDE DEF e, m, n
<1>5. /\ kIn \in Seq(KNode) /\ N \in Nat /\ kNext \in 0 .. N /\ kI \in 1 .. N /\ kNext < a /\ a <= kI
      /\ a \in 1 .. N /\ m \in 1 .. N /\ e \in 2 .. N + 1 /\ a <= m /\ m < e - 1 /\ kI < e
      /\ kNext <= m - 1 /\ m - 1 <= e - 1 /\ e - 1 <= N /\ Tiled(kIn, 0, Len(cats))
  BY <1>1, <1>2, <1>3, <1>4 DEF KatakanaTyped, Tiled
<1>6. KatakanaTyped'
  <2>1. Tiled(kIn, 0, Len(cats))'
    BY <1>1, <1>5 DEF Tiled
  <2>2. cats' \in KTexts /\ kDone' = FALSE /\ kNext' \in 0 .. N /\ kI' \in 1 .. N + 2 /\ kNext' < kI'
    BY <1>1, <1>4, <1>5 DEF KatakanaTyped
  <2>3. Len(kIn)' = N
    BY <1>1
  <2> QED BY <2>1, <2>2, <2>3 DEF KatakanaTyped
<1>7. RunsSplit'
  <2>1. kNext' = Len(kIn)' \/ ~K(e)
    BY <1>1, <1>3, <1>5
  <2>2. kNext' + 1 = e
    BY <1>1, <1>5
  <2>3. K(kNext + 1)' = K(e)
    BY <1>1, <2>2 DEF K, Katakana!IsKatakana, Katakana!CategoryOfRange, Katakana!Range
  <2> QED BY <1>1, <1>3, <1>5, <2>1, <2>2, <2>3 DEF RunsSplit
<1>8. NonePassed'
  <2>1. SUFFICES ASSUME NEW r \in Katakana!Joinable, r[1] > e - 1,
                        NEW k \in r[1] .. r[2], Katakana!Trigger(kIn[k])
                 PROVE  e + 1 <= k
    BY <1>1, TextOfPathStays DEF NonePassed
  <2>2. r[1] \in 1 .. N /\ r[2] \in 1 .. N /\ K(k)
    BY <1>1, <1>4, <2>1, YetToJoin
  <2> QED BY <1>3, <1>5, <2>1, <2>2
<1>9. /\ Tiled(before, Pos(kNext), Pos(m - 1)) /\ Tiled(whole, Pos(m - 1), Pos(e - 1))
      /\ Len(whole) = e - m
  <2>1. kNext \in 0 .. Len(kIn) /\ m - 1 \in kNext .. Len(kIn)
    BY <1>5
  <2>2. Tiled(SubSeq(kIn, kNext + 1, m - 1), Pos(kNext), Pos(m - 1))
    BY <1>5, <2>1, TiledPart
  <2>3. m - 1 \in 0 .. Len(kIn) /\ e - 1 \in m - 1 .. Len(kIn) /\ (m - 1) + 1 = m /\ (e - 1) - (m - 1) = e - m
    BY <1>5
  <2>4. /\ Tiled(SubSeq(kIn, (m - 1) + 1, e - 1), Pos(m - 1), Pos(e - 1))
        /\ Len(SubSeq(kIn, (m - 1) + 1, e - 1)) = (e - 1) - (m - 1)
    BY <1>5, <2>3, TiledPart
  <2> QED BY <2>2, <2>3, <2>4
<1>10. Tiled(<<n>>, Pos(m - 1), Pos(e - 1))
  <2>1. whole # <<>>
    BY <1>5, <1>9
  <2> HIDE DEF whole
  <2> QED BY <1>9, <2>1, TiledJoin DEF n
<1> HIDE DEF before, whole
<1>11. Tiled(kOut \o before, 0, Pos(m - 1))
  BY <1>1, <1>9, TiledConcat DEF MadeTiled
<1>12. MadeTiled'
  <2>1. Tiled(kOut', 0, Pos(e - 1))
    BY <1>1, <1>10, <1>11, TiledConcat
  <2>2. Pos(kNext)' = Pos(e - 1)
    BY <1>1 DEF Pos
  <2> QED BY <2>1, <2>2 DEF MadeTiled, Tiled
<1>13. <<a, e - 1>> \in Katakana!Joinable /\ Katakana!JoinedRun(<<a, e - 1>>) = n
  <2>1. m \in Nat /\ e - 1 \in Nat /\ m <= e - 1 /\ 1 <= m /\ e - 1 <= Len(kIn)
    BY <1>5
  <2>2. /\ Katakana!Cardinality(Katakana!Whole(<<a, e - 1>>)) = (e - 1) - m + 1
        /\ Katakana!JoinedRun(<<a, e - 1>>) = Katakana!JoinOOVNodes(SubSeq(kIn, m, e - 1))
    BY <1>2, <1>5, <2>1, JoinedIs
  <2>3. (e - 1) - m + 1 > 1
    BY <1>5
  <2>4. /\ <<a, e - 1>>[1] = a /\ <<a, e - 1>>[2] = e - 1 /\ a <= e - 1
        /\ kI \in a .. e - 1
    BY <1>5
  <2>5. <<a, e - 1>> \in Katakana!Joinable
    BY <1>2, <1>4, <1>5, <2>2, <2>3, <2>4, JoinableAre
  <2> QED BY <2>2, <2>5 DEF n, whole
<1>14. ASSUME NEW r \in Katakana!Joinable, r[2] > kNext, r[1] < e
       PROVE  r = <<a, e - 1>>
  BY <1>1, <1>2, <1>3, <1>4, <1>14, NextJoined
<1>15. {s \in Katakana!Joinable : s[2] <= e - 1} =
           {s \in Katakana!Joinable : s[2] <= kNext} \cup {<<a, e - 1>>}
  <2>1. ASSUME NEW r \in Katakana!Joinable, r[2] <= e - 1, ~(r[2] <= kNext) PROVE r = <<a, e - 1>>
    <3>1. r[1] \in 1 .. N /\ r[2] \in 1 .. N /\ r[1] <= r[2]
      BY <1>1, <1>4, <2>1, YetToJoin
    <3> QED BY <1>5, <1>14, <2>1, <3>1
  <2>2. ASSUME NEW r \in Katakana!Joinable, r[2] <= kNext PROVE r[2] <= e - 1
    <3>1. r[2] \in 1 .. N
      BY <1>1, <1>4, <2>2, YetToJoin
    <3> QED BY <1>5, <2>2, <3>1
  <2>3. <<a, e - 1>>[2] <= e - 1
    BY <1>5
  <2> QED BY <1>13, <2>1, <2>2, <2>3
<1>16. (1 .. e - 1) \ Inner = ((1 .. kNext) \ Inner) \cup (kNext + 1 .. m - 1)
  <2>1. ASSUME NEW k \in kNext + 1 .. m - 1 PROVE k \notin Inner
    <3>1. SUFFICES ASSUME NEW r \in Katakana!Joinable, k \in Katakana!Whole(r) PROVE FALSE
      BY DEF Inner
    <3>2. k \in r[1] .. r[2]
      BY <3>1 DEF Katakana!Whole
    <3>3. r[1] \in 1 .. N /\ r[2] \in 1 .. N
      BY <1>1, <1>4, <3>1, YetToJoin
    <3>4. r = <<a, e - 1>>
      BY <1>5, <1>14, <2>1, <3>1, <3>2, <3>3
    <3>5. k \in m .. e - 1
      BY <1>2, <3>1, <3>4
    <3> QED BY <1>5, <2>1, <3>5
  <2>2. ASSUME NEW k \in m .. e - 1 PROVE k \in Inner
    BY <1>2, <1>13, <2>2 DEF Inner
  <2>3. 1 .. e - 1 = ((1 .. kNext) \cup (kNext + 1 .. m - 1)) \cup (m .. e - 1)
    BY <1>5
  <2> QED BY <2>1, <2>2, <2>3
<1>17. ASSUME NEW x
       PROVE  x \in JoinedUpTo(e - 1) <=>
                  x \in JoinedUpTo(kNext) \/ (\E k \in kNext + 1 .. m - 1 : kIn[k] = x) \/ x = n
  BY <1>13, <1>15, <1>16 DEF JoinedUpTo
<1>18. MadeJoined'
  <2>1. kOut \in Seq(KNode) /\ before \in Seq(KNode) /\ <<n>> \in Seq(KNode) /\ kOut \o before \in Seq(KNode)
    BY <1>1, <1>9, <1>10, <1>11 DEF MadeTiled, Tiled
  <2>2. ASSUME NEW x
        PROVE  Has(kOut', x) <=> x \in JoinedUpTo(e - 1)
    <3>1. Has(kOut', x) <=> Has(kOut \o before, x) \/ Has(<<n>>, x)
      BY <1>1, <2>1, ConcatHas
    <3>2. Has(kOut \o before, x) <=> Has(kOut, x) \/ Has(before, x)
      BY <2>1, ConcatHas
    <3>3. Has(before, x) <=> \E k \in kNext + 1 .. m - 1 : kIn[k] = x
      <4>1. kNext \in 0 .. Len(kIn) /\ m - 1 \in kNext .. Len(kIn)
        BY <1>5
      <4> QED BY <1>1, <4>1, PartHas DEF before
    <3>4. Has(<<n>>, x) <=> x = n
      <4>1. Len(<<n>>) = 1 /\ <<n>>[1] = n /\ \A k \in 1 .. 1 : k = 1
        OBVIOUS
      <4> QED BY <4>1 DEF Has
    <3>5. Has(kOut, x) <=> x \in JoinedUpTo(kNext)
      BY <1>1 DEF MadeJoined
    <3> QED BY <1>17, <3>1, <3>2, <3>3, <3>4, <3>5
  <2>3. JoinedUpTo(kNext)' = JoinedUpTo(e - 1)
    BY <1>1, JoinedUpToStays DEF JoinedUpTo
  <2> QED BY <2>2, <2>3 DEF MadeJoined
<1> QED BY <1>6, <1>7, <1>8, <1>12, <1>18 DEF KatakanaInv

LEMMA AscendingIs ==
    ASSUME NEW S \in SUBSET Int, IsFiniteSet(S)
    PROVE  /\ Cardinality(S) \in Nat /\ Katakana!Ascending(S) \in [1 .. Cardinality(S) -> S]
           /\ \A b \in S : \E k \in 1 .. Cardinality(S) : Katakana!Ascending(S)[k] = b
           /\ \A k, m \in 1 .. Cardinality(S) :
                  k < m => Katakana!Ascending(S)[k] < Katakana!Ascending(S)[m]
<1> DEFINE N == Cardinality(S)
           s == [k \in 1 .. N |-> CHOOSE b \in S : Cardinality({a \in S : a < b}) = k - 1]
<1>1. Katakana!Ascending(S) = s
  BY DEF Katakana!Ascending, Katakana!Cardinality, Cardinality
<1> HIDE DEF s
<1>2. /\ N \in Nat /\ s \in [1 .. N -> S]
      /\ \A b \in S : \E k \in 1 .. N : s[k] = b
      /\ \A k, m \in 1 .. N : k < m => s[k] < s[m]
  BY RanksOrder DEF s
<1> QED BY <1>1, <1>2

\* It starts with a path through a text.
LEMMA KatakanaStarts ==
    ASSUME Katakana!TextsAssumption, Katakana!Init
    PROVE  KatakanaInv
<1> DEFINE S(cuts) == cuts \cup ({Len(cats)} \ {0})
<1>1. /\ cats \in KTexts /\ kOut = <<>> /\ kNext = 0 /\ kI = 1 /\ kDone = FALSE
      /\ \E cuts \in SUBSET (1 .. Len(cats) - 1) :
             \E unknown \in SUBSET DOMAIN Katakana!Ascending(S(cuts)) :
                 kIn = Katakana!Path(Katakana!Ascending(S(cuts)), unknown)
  BY DEF Katakana!Init
<1>2. Len(cats) \in Nat
  <2>1. cats \in Seq(Katakana!Range(cats))
    BY <1>1 DEF Katakana!TextsAssumption
  <2> QED BY <2>1, LenProperties
<1>3. PICK cuts \in SUBSET (1 .. Len(cats) - 1) :
          \E unknown : kIn = Katakana!Path(Katakana!Ascending(S(cuts)), unknown)
  BY <1>1
<1>4. PICK unknown : kIn = Katakana!Path(Katakana!Ascending(S(cuts)), unknown)
  BY <1>3
<1> DEFINE U == S(cuts)
           ends == Katakana!Ascending(U)
           c == Cardinality(U)
<1>5. U \in SUBSET (1 .. Len(cats)) /\ U \in SUBSET Int /\ (Len(cats) # 0 => Len(cats) \in U)
  <2>1. cuts \subseteq 1 .. Len(cats) - 1
    BY <1>3
  <2>2. U = cuts \cup ({Len(cats)} \ {0})
    OBVIOUS
  <2> HIDE DEF U
  <2>3. \A k \in U : k \in 1 .. Len(cats) - 1 \/ (k = Len(cats) /\ k # 0)
    BY <2>1, <2>2
  <2>4. \A k \in U : k \in 1 .. Len(cats)
    BY <1>2, <2>3
  <2>5. U \subseteq Int
    BY <1>2, <2>4
  <2>6. Len(cats) # 0 => Len(cats) \in U
    BY <2>2
  <2> QED BY <2>4, <2>5, <2>6
<1>6. IsFiniteSet(U)
  <2>1. IsFiniteSet(1 .. Len(cats))
    BY <1>2, FS_Interval
  <2> HIDE DEF U
  <2> QED BY <1>5, <2>1, FS_Subset
<1>7. kIn = Katakana!Path(ends, unknown)
  BY <1>4
<1> HIDE DEF U
<1> HIDE DEF ends
<1>9. /\ c \in Nat /\ ends \in [1 .. c -> U]
      /\ \A b \in U : \E k \in 1 .. c : ends[k] = b
      /\ \A k, m \in 1 .. c : k < m => ends[k] < ends[m]
  BY <1>5, <1>6, AscendingIs DEF ends
<1> HIDE DEF c
<1>10. kIn = [k \in 1 .. c |->
          [begin |-> IF k = 1 THEN 0 ELSE ends[k - 1], end |-> ends[k], oov |-> k \in unknown]]
  BY <1>7, <1>9 DEF Katakana!Path
<1>11. \A k \in 1 .. c : ends[k] \in Nat /\ ends[k] >= 1 /\ ends[k] <= Len(cats)
  <2>1. \A k \in 1 .. c : ends[k] \in 1 .. Len(cats)
    BY <1>5, <1>9
  <2> QED BY <1>2, <2>1
<1>12. kIn \in Seq(KNode) /\ Len(kIn) = c
  <2>1. ASSUME NEW k \in 1 .. c PROVE kIn[k] \in KNode
    <3>1. CASE k = 1
      <4>1. /\ kIn[k] = [begin |-> 0, end |-> ends[k], oov |-> k \in unknown]
            /\ ends[k] \in Nat /\ (k \in unknown) \in BOOLEAN
        BY <1>10, <1>11, <3>1
      <4> QED BY <4>1 DEF KNode
    <3>2. CASE k # 1
      <4>1. k - 1 \in 1 .. c
        BY <1>9, <3>2
      <4>2. /\ kIn[k] = [begin |-> ends[k - 1], end |-> ends[k], oov |-> k \in unknown]
            /\ ends[k - 1] \in Nat /\ ends[k] \in Nat /\ (k \in unknown) \in BOOLEAN
        BY <1>10, <1>11, <3>2, <4>1
      <4> QED BY <4>2 DEF KNode
    <3> QED BY <3>1, <3>2
  <2>2. kIn \in [1 .. c -> KNode]
    BY <1>10, <2>1
  <2> QED BY <1>9, <2>2
<1>13. ASSUME NEW k \in 1 .. c
       PROVE  kIn[k].begin < kIn[k].end /\ kIn[k].begin = IF k = 1 THEN 0 ELSE kIn[k - 1].end
  <2>1. CASE k = 1
    BY <1>10, <1>11, <2>1
  <2>2. CASE k # 1
    <3>1. k - 1 \in 1 .. c /\ k - 1 < k
      BY <1>9, <2>2
    <3>2. ends[k - 1] < ends[k] /\ kIn[k - 1].end = ends[k - 1]
      BY <1>9, <1>10, <3>1
    <3>3. kIn[k].begin = ends[k - 1] /\ kIn[k].end = ends[k]
      BY <1>10, <2>2
    <3> QED BY <2>2, <3>2, <3>3
  <2> QED BY <2>1, <2>2
<1>14. IF kIn = <<>> THEN 0 = Len(cats) ELSE kIn[Len(kIn)].end = Len(cats)
  <2>1. kIn = <<>> <=> c = 0
    BY <1>12, EmptySeq
  <2>2. CASE c = 0
    BY <1>2, <1>5, <1>9, <2>1, <2>2
  <2>3. CASE c # 0
    <3>1. c \in 1 .. c
      BY <1>9, <2>3
    <3>2. Len(cats) # 0
      BY <1>2, <1>11, <3>1
    <3>3. PICK k \in 1 .. c : ends[k] = Len(cats)
      BY <1>5, <1>9, <3>2
    <3>4. k = c
      <4>1. SUFFICES ASSUME k < c PROVE FALSE
        BY <1>9
      <4>2. ends[k] < ends[c]
        BY <1>9, <3>1, <4>1
      <4> QED BY <1>2, <1>11, <3>1, <3>3, <4>2
    <3>5. kIn[c].end = Len(cats)
      BY <1>10, <3>3, <3>4
    <3> QED BY <1>12, <2>1, <2>3, <3>5
  <2> QED BY <2>2, <2>3
<1>15. Tiled(kIn, 0, Len(cats))
  BY <1>12, <1>13, <1>14 DEF Tiled
<1>16. KatakanaTyped
  <2>1. kNext \in 0 .. Len(kIn) /\ kI \in 1 .. Len(kIn) + 2 /\ kNext < kI
    BY <1>1, <1>9, <1>12
  <2> QED BY <1>1, <1>15, <2>1 DEF KatakanaTyped
<1>17. MadeTiled
  <2>1. <<>> \in Seq(KNode) /\ Len(<<>>) = 0
    OBVIOUS
  <2> QED BY <1>1, <2>1 DEF MadeTiled, Tiled, Pos
<1>18. RunsSplit
  BY <1>1 DEF RunsSplit
<1>19. ASSUME NEW r \in Katakana!Joinable PROVE r[1] \in 1 .. c /\ r[2] \in 1 .. c
  BY <1>12, <1>19, RunsAre, JoinableAre
<1>20. NonePassed
  <2>1. ASSUME NEW r \in Katakana!Joinable, NEW k \in r[1] .. r[2] PROVE kI <= k
    BY <1>1, <1>9, <1>19
  <2> QED BY <2>1 DEF NonePassed
<1>21. MadeJoined
  <2>1. {s \in Katakana!Joinable : s[2] <= 0} = {} /\ 1 .. 0 = {}
    BY <1>9, <1>19
  <2>2. JoinedUpTo(0) = {}
    BY <2>1 DEF JoinedUpTo
  <2>3. \A x : ~Has(kOut, x)
    BY <1>1 DEF Has
  <2> QED BY <1>1, <2>2, <2>3 DEF MadeJoined
<1> QED BY <1>16, <1>17, <1>18, <1>20, <1>21 DEF KatakanaInv

LEMMA KatakanaStays ==
    ASSUME KatakanaInv, UNCHANGED Katakana!vars
    PROVE  KatakanaInv'
<1>1. UNCHANGED <<cats, kIn>> /\ UNCHANGED <<kOut, kNext, kI, kDone>>
  BY DEF Katakana!vars
<1>2. KatakanaTyped' /\ MadeTiled'
  BY <1>1 DEF KatakanaInv, KatakanaTyped, MadeTiled, Tiled, Pos
<1>3. RunsSplit' /\ NonePassed'
  BY <1>1, TextOfPathStays DEF KatakanaInv, RunsSplit, NonePassed
<1>4. MadeJoined'
  <2>1. JoinedUpTo(kNext)' = JoinedUpTo(kNext)
    BY <1>1, JoinedUpToStays DEF JoinedUpTo
  <2> QED BY <1>1, <2>1 DEF KatakanaInv, MadeJoined
<1> QED BY <1>2, <1>3, <1>4 DEF KatakanaInv

LEMMA KatakanaAnswers ==
    ASSUME Katakana!TextsAssumption, KatakanaInv
    PROVE  Katakana!KatakanaJoined
<1> DEFINE N == Len(kIn)
           rest == SubSeq(kIn, kNext + 1, N)
           nodes == kOut \o rest
<1>1. /\ KatakanaTyped /\ MadeTiled /\ RunsSplit /\ NonePassed /\ MadeJoined
      /\ cats \in KTexts /\ kIn \in Seq(KNode) /\ N \in Nat /\ kNext \in 0 .. N
  BY DEF KatakanaInv, KatakanaTyped, Tiled
<1>2. Tiled(nodes, 0, Len(cats))
  <2>1. Tiled(kIn, 0, Len(cats)) /\ N \in kNext .. N
    BY <1>1 DEF KatakanaTyped
  <2>2. Tiled(rest, Pos(kNext), Pos(N))
    BY <1>1, <2>1, TiledPart
  <2>3. Pos(N) = Len(cats)
    BY <1>1, <2>1, EmptySeq DEF Tiled, Pos
  <2> HIDE DEF rest
  <2> QED BY <1>1, <2>2, <2>3, TiledConcat DEF MadeTiled
<1>3. cats = <<>> <=> Len(cats) = 0
  <2>1. cats \in Seq(Katakana!Range(cats))
    BY <1>1 DEF Katakana!TextsAssumption
  <2> QED BY <2>1, EmptySeq
<1>4. Katakana!TextTiled
  <2>1. SUFFICES Katakana!Tiles(nodes)
    BY DEF Katakana!TextTiled
  <2> HIDE DEF nodes
  <2>2. DOMAIN nodes = 1 .. Len(nodes)
    BY <1>2 DEF Tiled
  <2> QED BY <1>2, <1>3, <2>2 DEF Tiled, Katakana!Tiles, Katakana!Last
<1>5. Katakana!RunsJoined
  <2>1. SUFFICES ASSUME kDone
                 PROVE  Katakana!Range(kOut) =
                            {Katakana!JoinedRun(r) : r \in Katakana!Joinable}
                            \cup {kIn[k] : k \in DOMAIN kIn \ Inner}
    BY DEF Katakana!RunsJoined, Inner
  <2>2. kNext = N /\ DOMAIN kIn = 1 .. N
    BY <1>1, <2>1 DEF KatakanaTyped
  <2>3. {s \in Katakana!Joinable : s[2] <= N} = Katakana!Joinable
    <3>1. ASSUME NEW r \in Katakana!Joinable PROVE r[2] <= N
      BY <1>1, RunsAre, JoinableAre
    <3> QED BY <3>1
  <2>4. JoinedUpTo(kNext) = {Katakana!JoinedRun(r) : r \in Katakana!Joinable}
                            \cup {kIn[k] : k \in DOMAIN kIn \ Inner}
    BY <2>2, <2>3 DEF JoinedUpTo
  <2>5. DOMAIN kOut = 1 .. Len(kOut)
    BY <1>1 DEF MadeTiled, Tiled
  <2>6. \A x : x \in Katakana!Range(kOut) <=> Has(kOut, x)
    BY <2>5 DEF Katakana!Range, Has
  <2>7. \A x : x \in Katakana!Range(kOut) <=> x \in JoinedUpTo(kNext)
    BY <1>1, <2>6 DEF MadeJoined
  <2>8. Katakana!Range(kOut) = JoinedUpTo(kNext)
    BY <2>7
  <2> QED BY <2>4, <2>8
<1> QED BY <1>4, <1>5 DEF Katakana!KatakanaJoined

LEMMA KatakanaKept ==
    ASSUME Katakana!TextsAssumption, KatakanaInv, [Katakana!Next]_(Katakana!vars)
    PROVE  KatakanaInv'
<1>1. CASE Katakana!JoinRun
  BY <1>1, JoinRunKeeps
<1>2. CASE Katakana!PassNode
  BY <1>2, PassNodeKeeps
<1>3. CASE Katakana!Return
  BY <1>3, ReturnKeepsKatakana
<1>4. CASE UNCHANGED Katakana!vars
  BY <1>4, KatakanaStays
<1> QED BY <1>1, <1>2, <1>3, <1>4 DEF Katakana!Next

\* For every text, every path through it and every minimum length, the path that
\* JoinKatakanaOOV.Rewrite (pathrewrite.go) makes tiles the text, at each step
\* with the nodes it has yet to read; and in the end it has joined the runs of
\* katakana that hold an unknown or short word, each whole but for the nodes no
\* unknown word may begin with, and no other nodes.
THEOREM SpecKatakanaJoined ==
    ASSUME Katakana!TextsAssumption
    PROVE  Katakana!Spec => []KatakanaJoined
<1>1. ASSUME Katakana!Init PROVE KatakanaInv
  BY <1>1, KatakanaStarts
<1>2. ASSUME KatakanaInv, [Katakana!Next]_Katakana!vars PROVE KatakanaInv'
  BY <1>2, KatakanaKept
<1>3. ASSUME KatakanaInv PROVE KatakanaJoined
  BY <1>3, KatakanaAnswers DEF KatakanaJoined
<1> QED BY <1>1, <1>2, <1>3, PTL DEF Katakana!Spec

\* The nodes that tile a text lie in it.
LEMMA TiledInside ==
    ASSUME NEW s, NEW q \in Nat, Tiled(s, 0, q)
    PROVE  \A k \in 1 .. Len(s) : s[k].end <= q
<1> DEFINE Beyond == {k \in 1 .. Len(s) : s[k].end > q}
<1>1. s \in Seq(KNode) /\ Len(s) \in Nat
  BY LenProperties DEF Tiled
<1>2. \A k \in 1 .. Len(s) : s[k].begin \in Nat /\ s[k].end \in Nat
  <2>1. \A k \in 1 .. Len(s) : s[k] \in KNode
    BY <1>1, ElementOfSeq
  <2> QED BY <2>1 DEF KNode
<1>3. SUFFICES ASSUME Beyond # {} PROVE FALSE
  BY <1>2
<1>4. PICK m \in Beyond : \A k \in Beyond : m >= k
  <2>1. IsFiniteSet(1 .. Len(s)) /\ Beyond \subseteq 1 .. Len(s) /\ Beyond \in SUBSET Int
    BY <1>1, FS_Interval
  <2> HIDE DEF Beyond
  <2>2. IsFiniteSet(Beyond)
    BY <2>1, FS_Subset
  <2> QED BY <1>3, <2>1, <2>2, Greatest
<1>5. m \in 1 .. Len(s) /\ s[m].end > q
  BY <1>4
<1>6. CASE m = Len(s)
  <2>1. s[Len(s)].end = q
    BY <1>1, <1>5, EmptySeq DEF Tiled
  <2> QED BY <1>5, <1>6, <2>1
<1>7. CASE m # Len(s)
  <2>1. m + 1 \in 1 .. Len(s) /\ m + 1 # 1 /\ (m + 1) - 1 = m
    BY <1>1, <1>5, <1>7
  <2>2. s[m + 1].begin = s[m].end /\ s[m + 1].begin < s[m + 1].end
    BY <2>1 DEF Tiled
  <2>3. s[m + 1].end > q
    BY <1>2, <1>5, <2>1, <2>2
  <2>4. m + 1 \in Beyond
    BY <2>1, <2>3
  <2> QED BY <1>4, <1>5, <2>4
<1> QED BY <1>6, <1>7

LEMMA TiledTyped ==
    ASSUME NEW s, NEW q \in 0 .. Len(cats), Len(cats) \in Nat, Tiled(s, 0, q)
    PROVE  s \in Seq(Katakana!Node)
<1>1. s \in Seq(KNode) /\ Len(s) \in Nat
  BY LenProperties DEF Tiled
<1>2. \A k \in 1 .. Len(s) : s[k] \in KNode /\ s[k].begin < s[k].end /\ s[k].end <= q
  BY <1>1, ElementOfSeq, TiledInside DEF Tiled
<1>3. \A k \in 1 .. Len(s) : s[k] \in Katakana!Node
  <2> SUFFICES ASSUME NEW k \in 1 .. Len(s) PROVE s[k] \in Katakana!Node
    OBVIOUS
  <2>1. /\ s[k] \in KNode /\ s[k].begin < s[k].end /\ s[k].end <= q
        /\ s[k].begin \in Nat /\ s[k].end \in Nat
    BY <1>2 DEF KNode
  <2>2. s[k].begin \in 0 .. Len(cats) /\ s[k].end \in 0 .. Len(cats)
    BY <2>1
  <2> QED BY <2>1, <2>2 DEF KNode, Katakana!Node
<1>4. s \in [1 .. Len(s) -> Katakana!Node]
  BY <1>1, <1>3
<1> DEFINE W == Katakana!Node
<1>5. s \in [1 .. Len(s) -> W]
  BY <1>4
<1> HIDE DEF W
<1>6. s \in Seq(W)
  BY <1>1, <1>5
<1> QED BY <1>6 DEF W

LEMMA KatakanaTypeOK ==
    ASSUME Katakana!TextsAssumption, KatakanaInv
    PROVE  Katakana!TypeOK
<1>1. KatakanaTyped /\ MadeTiled
  BY DEF KatakanaInv
<1>2. /\ cats \in KTexts /\ Tiled(kIn, 0, Len(cats)) /\ kNext \in 0 .. Len(kIn)
      /\ kI \in 1 .. Len(kIn) + 2 /\ kDone \in BOOLEAN
  BY <1>1 DEF KatakanaTyped
<1>3. Len(cats) \in Nat
  <2>1. cats \in Seq(Katakana!Range(cats))
    BY <1>2 DEF Katakana!TextsAssumption
  <2> QED BY <2>1, LenProperties
<1>4. kIn \in Seq(Katakana!Node)
  <2>1. Len(cats) \in 0 .. Len(cats)
    BY <1>3
  <2> QED BY <1>2, <1>3, <2>1, TiledTyped
<1>5. Pos(kNext) \in 0 .. Len(cats)
  <2>1. CASE kNext = 0
    BY <1>3, <2>1 DEF Pos
  <2>2. CASE kNext # 0
    <3>1. kNext \in 1 .. Len(kIn) /\ kIn \in Seq(KNode)
      BY <1>2, <2>2, LenProperties DEF Tiled
    <3>2. kIn[kNext].end \in Nat
      <4>1. kIn[kNext] \in KNode
        BY <3>1, ElementOfSeq
      <4> QED BY <4>1 DEF KNode
    <3>3. kIn[kNext].end <= Len(cats)
      BY <1>2, <1>3, <3>1, TiledInside
    <3> QED BY <1>3, <2>2, <3>2, <3>3 DEF Pos
  <2> QED BY <2>1, <2>2
<1>6. kOut \in Seq(Katakana!Node)
  BY <1>1, <1>3, <1>5, TiledTyped DEF MadeTiled
<1> QED BY <1>2, <1>4, <1>6 DEF Katakana!TypeOK

-----------------------------------------------------------------------------
(* The parser, fed with any string                                          *)

\* The parser of the numeral pass is the same.
LEMMA NumeralSame ==
    ASSUME NEW x, NEW c
    PROVE  /\ Numeral!AppendChar(x, c) = InPlace!AppendChar(x, c)
           /\ Numeral!Done(x) = InPlace!Done(x)
           /\ Numeral!NewParser = InPlace!NewParser
           /\ Numeral!Parser = Parser
<1>1. \A d : Numeral!NormalizeScale(d) = InPlace!NormalizeScale(d)
  BY DEF Numeral!NormalizeScale, InPlace!NormalizeScale
<1>2. \A d : Numeral!IsZero(d) <=> InPlace!IsZero(d)
  BY DEF Numeral!IsZero, InPlace!IsZero
<1>3. \A d : Numeral!IntLength(d) = InPlace!IntLength(d)
  BY DEF Numeral!IntLength, InPlace!IntLength
<1>4. \A n : Numeral!Zeros(n) = InPlace!Zeros(n)
  BY DEF Numeral!Zeros, InPlace!Zeros
<1>5. \A d, o : Numeral!Fits(d, o) <=> InPlace!Fits(d, o)
  BY <1>1, <1>2, <1>3 DEF Numeral!Fits, InPlace!Fits
<1>6. \A d, o : Numeral!Add(d, o) = InPlace!Add(d, o)
  BY <1>1, <1>2, <1>3, <1>4, <1>5 DEF Numeral!Add, InPlace!Add
<1>7. \A d, n : Numeral!ShiftScale(d, n) = InPlace!ShiftScale(d, n)
  BY DEF Numeral!ShiftScale, InPlace!ShiftScale
<1>8. Numeral!NewDecimal = InPlace!NewDecimal
  BY DEF Numeral!NewDecimal, InPlace!NewDecimal
<1>9. /\ \A q : Numeral!Yes(q) = InPlace!Yes(q) /\ Numeral!No(q) = InPlace!No(q)
      /\ \A e, q : Numeral!NoFor(e, q) = InPlace!NoFor(e, q)
      /\ \A q : Numeral!StartUnit(q) = InPlace!StartUnit(q)
  BY DEF Numeral!Yes, InPlace!Yes, Numeral!No, InPlace!No, Numeral!NoFor, InPlace!NoFor,
         Numeral!StartUnit, InPlace!StartUnit
<1>10. \A q : Numeral!CheckComma(q) <=> InPlace!CheckComma(q)
  BY <1>2 DEF Numeral!CheckComma, InPlace!CheckComma
<1>11. \A q : Numeral!AppendComma(q) = InPlace!AppendComma(q)
  BY <1>9, <1>10 DEF Numeral!AppendComma, InPlace!AppendComma
<1>12. \A q : Numeral!AppendPoint(q) = InPlace!AppendPoint(q)
  BY <1>9, <1>10 DEF Numeral!AppendPoint, InPlace!AppendPoint
<1>13. \A q, e : Numeral!AppendSmallUnit(q, e) = InPlace!AppendSmallUnit(q, e)
  BY <1>5, <1>6, <1>7, <1>8, <1>9 DEF Numeral!AppendSmallUnit, InPlace!AppendSmallUnit
<1>14. \A q, e : Numeral!AppendBigUnit(q, e) = InPlace!AppendBigUnit(q, e)
  BY <1>2, <1>5, <1>6, <1>7, <1>8, <1>9 DEF Numeral!AppendBigUnit, InPlace!AppendBigUnit
<1>15. \A q, n : Numeral!AppendNumeral(q, n) = InPlace!AppendNumeral(q, n)
  BY <1>9 DEF Numeral!AppendNumeral, InPlace!AppendNumeral, Numeral!AppendDigit, InPlace!AppendDigit
<1>16. Numeral!AppendChar(x, c) = InPlace!AppendChar(x, c)
  BY <1>9, <1>11, <1>12, <1>13, <1>14, <1>15
     DEF Numeral!AppendChar, InPlace!AppendChar, Numeral!Comma, InPlace!Comma, Numeral!Point,
         InPlace!Point, Numeral!Other, InPlace!Other, Numeral!SmallUnits, InPlace!SmallUnits,
         Numeral!BigUnits, InPlace!BigUnits, Numeral!Digits, InPlace!Digits
<1>17. Numeral!Done(x) = InPlace!Done(x)
  BY <1>2, <1>5, <1>6, <1>9 DEF Numeral!Done, InPlace!Done
<1>18. Numeral!NewParser = InPlace!NewParser
  BY <1>8 DEF Numeral!NewParser, InPlace!NewParser
<1>19. Numeral!Parser = Parser
  BY DEF Numeral!Parser, Parser, Numeral!Decimal, Decimal, Numeral!Digits, Digits
<1> QED BY <1>16, <1>17, <1>18, <1>19

LEMMA NumeralTyped ==
    ASSUME Numeral!InputsAssumption
    PROVE  /\ Numeral!Init => Numeral!TypeOK
           /\ Numeral!TypeOK /\ [Numeral!Next]_(Numeral!vars) => Numeral!TypeOK'
<1>1. ASSUME Numeral!Init PROVE Numeral!TypeOK
  BY <1>1, NumeralSame, NewDecimalType DEF Numeral!Init, Numeral!TypeOK
<1>2. ASSUME Numeral!TypeOK, NEW c \in Inputs, Numeral!Feed(c) PROVE Numeral!TypeOK'
  <2>1. /\ parser \in Parser /\ read \in Seq(Inputs) /\ c \in Characters
    BY <1>2, NumeralSame DEF Numeral!TypeOK, Numeral!InputsAssumption, Characters, Digits,
       SmallUnits, BigUnits, Comma, Point, Other, Numeral!Characters, Numeral!Digits,
       Numeral!SmallUnits, Numeral!BigUnits, Numeral!Comma, Numeral!Point, Numeral!Other
  <2>2. InPlace!AppendChar(parser, c) \in Answer
    BY <2>1, CharAnswers
  <2>3. parser' = InPlace!AppendChar(parser, c).p /\ read' = Append(read, c)
        /\ status' \in {"reading", "rejected"}
    BY <1>2, NumeralSame DEF Numeral!Feed
  <2>4. parser' \in Parser
    BY <2>2, <2>3 DEF Answer
  <2>5. read' \in Seq(Inputs)
    BY <2>1, <2>3, AppendProperties
  <2> QED BY <2>3, <2>4, <2>5, NumeralSame DEF Numeral!TypeOK
<1>3. ASSUME Numeral!TypeOK, Numeral!Finish PROVE Numeral!TypeOK'
  <2>1. parser \in Parser
    BY <1>3, NumeralSame DEF Numeral!TypeOK
  <2>2. parser' = InPlace!Done(parser).p /\ status' \in {"accepted", "rejected"} /\ read' = read
    BY <1>3, NumeralSame DEF Numeral!Finish
  <2>3. parser' \in Parser
    BY <2>1, <2>2, DoneAnswers DEF Answer
  <2> QED BY <1>3, <2>2, <2>3, NumeralSame DEF Numeral!TypeOK
<1>4. ASSUME Numeral!TypeOK, UNCHANGED Numeral!vars PROVE Numeral!TypeOK'
  BY <1>4 DEF Numeral!vars, Numeral!TypeOK
<1> QED BY <1>1, <1>2, <1>3, <1>4 DEF Numeral!Next

\* For every path, every string and every text: no index of the passes leaves
\* its path, though both loops go on behind the node they have joined
\* (pathrewrite.go:28-99, 116), what they make are paths again, and whatever is
\* fed to it, the parser (number.go:116-227) stays one, with digits and scales
\* that can be written.
THEOREM SpecTypesOK ==
    ASSUME Numeral!InputsAssumption, Katakana!TextsAssumption
    PROVE  Spec /\ Numeral!Spec /\ Katakana!Spec => []TypesOK
<1> DEFINE TypeInv == Indexes /\ Alone /\ ReadSo /\ TypeOK
<1>1. ASSUME Init PROVE TypeInv
  BY <1>1, Starts, NumbersStart, TypeStarts DEF NumbersInv
<1>2. ASSUME TypeInv, [Next]_vars PROVE TypeInv'
  <2>1. Indexes'
    BY <1>2, Steps
  <2> QED BY <1>2, <2>1, ReadSoKept, TypeKept
<1>3. ASSUME Numeral!Init PROVE Numeral!TypeOK
  BY <1>3, NumeralTyped
<1>4. ASSUME Numeral!TypeOK, [Numeral!Next]_(Numeral!vars) PROVE Numeral!TypeOK'
  BY <1>4, NumeralTyped
<1>5. ASSUME Katakana!Init PROVE KatakanaInv
  BY <1>5, KatakanaStarts
<1>6. ASSUME KatakanaInv, [Katakana!Next]_(Katakana!vars) PROVE KatakanaInv'
  BY <1>6, KatakanaKept
<1>7. ASSUME TypeOK, Numeral!TypeOK, KatakanaInv PROVE TypesOK
  BY <1>7, KatakanaTypeOK DEF TypesOK
<1> QED BY <1>1, <1>2, <1>3, <1>4, <1>5, <1>6, <1>7, PTL DEF Spec, Numeral!Spec, Katakana!Spec
=============================================================================
