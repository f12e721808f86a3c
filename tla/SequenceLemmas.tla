--------------------------- MODULE SequenceLemmas ---------------------------
(***************************************************************************)
(* What the proofs of several modules need of sequences. What would be      *)
(* proved by induction is proved from the least counterexample.             *)
(***************************************************************************)
EXTENDS Integers, SequencesExt, SequenceTheorems, FiniteSetTheorems, WellFoundedInduction, TLAPS

\* A set of naturals has a least one: what follows by induction follows from
\* looking at the least counterexample.
LEMMA Least ==
    ASSUME NEW S \in SUBSET Nat, S # {}
    PROVE  \E m \in S : \A k \in S : m <= k
<1> DEFINE R == {ss \in Nat \X Nat : ss[1] < ss[2]}
<1>1. IsWellFoundedOn(R, Nat)
  BY NatLessThanWellFounded DEF OpToRel
<1> HIDE DEF R
<1>2. PICK x \in S : \A y \in S : <<y, x>> \notin R
  BY <1>1, WFMin
<1>3. \A y \in S : ~(y < x)
  BY <1>2 DEF R
<1> QED BY <1>2, <1>3

LEMMA SeqOfMore ==
    ASSUME NEW S, NEW T, S \subseteq T, NEW s \in Seq(S)
    PROVE  s \in Seq(T)
<1>1. \A i \in 1 .. Len(s) : s[i] \in T
  BY ElementOfSeq
<1> QED BY <1>1

-----------------------------------------------------------------------------
(* FlattenSeq of the community modules                                      *)

\* Its recursive function exists: a least n for which it does not would have the
\* function of n - 1 to extend.
LEMMA FlattenDefined ==
    ASSUME NEW s, NEW n \in Nat
    PROVE  \E f : f = [i \in 1 .. n |-> IF i = 1 THEN s[i] ELSE f[i - 1] \o s[i]]
<1> DEFINE Is(f, m) == f = [i \in 1 .. m |-> IF i = 1 THEN s[i] ELSE f[i - 1] \o s[i]]
           S == {m \in Nat : ~\E f : Is(f, m)}
<1>1. SUFFICES ASSUME S # {} PROVE FALSE
  OBVIOUS
<1>2. PICK m \in S : \A k \in S : m <= k
  <2>1. S \in SUBSET Nat
    OBVIOUS
  <2> HIDE DEF S
  <2> QED BY <1>1, <2>1, Least
<1>3. CASE m = 0
  <2>1. [i \in 1 .. 0 |-> 0] =
            [i \in 1 .. 0 |-> IF i = 1 THEN s[i] ELSE [j \in 1 .. 0 |-> 0][i - 1] \o s[i]]
    OBVIOUS
  <2>2. Is([i \in 1 .. 0 |-> 0], 0)
    BY <2>1
  <2> QED BY <2>2, <1>2, <1>3
<1>4. CASE m # 0
  <2>1. m - 1 \in Nat /\ m - 1 \notin S
    <3>1. m \in Nat
      OBVIOUS
    <3> HIDE DEF S
    <3> QED BY <3>1, <1>2, <1>4
  <2>2. PICK f : Is(f, m - 1)
    BY <2>1
  <2> DEFINE last == IF m = 1 THEN s[m] ELSE f[m - 1] \o s[m]
             g == [i \in 1 .. m |-> IF i = m THEN last ELSE f[i]]
  <2>3. ASSUME NEW i \in 1 .. m
        PROVE  g[i] = IF i = 1 THEN s[i] ELSE g[i - 1] \o s[i]
    <3>1. CASE i = m
      <4>1. i # 1 => i - 1 \in 1 .. m /\ i - 1 # m
        BY <3>1
      <4> QED BY <3>1, <4>1
    <3>2. CASE i # m
      <4>1. i \in 1 .. m - 1 /\ (i # 1 => i - 1 \in 1 .. m /\ i - 1 # m)
        BY <3>2, <1>2
      <4>2. f[i] = IF i = 1 THEN s[i] ELSE f[i - 1] \o s[i]
        BY <2>2, <4>1
      <4> QED BY <3>2, <4>1, <4>2
    <3> QED BY <3>1, <3>2
  <2>4. Is(g, m)
    <3> HIDE DEF last
    <3>1. g = [i \in 1 .. m |-> g[i]]
      OBVIOUS
    <3> HIDE DEF g
    <3> QED BY <2>3, <3>1
  <2> QED BY <2>4, <1>2
<1> QED BY <1>3, <1>4

\* Elements of the sequences that are put together are elements of the whole.
LEMMA FlattenElements ==
    ASSUME NEW T, NEW s, NEW n \in Nat, Len(s) = n, s \in Seq(Seq(T))
    PROVE  FlattenSeq(s) \in Seq(T)
<1> DEFINE Is(f) == f = [i \in 1 .. n |-> IF i = 1 THEN s[i] ELSE f[i - 1] \o s[i]]
           flat == CHOOSE f : Is(f)
<1>1. CASE n = 0
  <2>1. FlattenSeq(s) = s /\ s = <<>>
    BY <1>1, EmptySeq DEF FlattenSeq
  <2> QED BY <2>1
<1>2. CASE n # 0
  <2>1. FlattenSeq(s) = flat[n]
    BY <1>2 DEF FlattenSeq
  <2>2. Is(flat)
    BY FlattenDefined
  <2> HIDE DEF flat
  <2> DEFINE S == {i \in 1 .. n : flat[i] \notin Seq(T)}
  <2>3. SUFFICES ASSUME S # {} PROVE FALSE
    BY <2>1, <1>2
  <2>4. PICK i \in S : \A k \in S : i <= k
    <3>1. S \in SUBSET Nat
      OBVIOUS
    <3> HIDE DEF S
    <3> QED BY <2>3, <3>1, Least
  <2>5. s[i] \in Seq(T)
    BY ElementOfSeq
  <2>6. CASE i = 1
    BY <2>2, <2>4, <2>5, <2>6
  <2>7. CASE i # 1
    <3>1. i - 1 \in 1 .. n /\ i - 1 \notin S
      BY <2>4, <2>7
    <3>2. flat[i] = flat[i - 1] \o s[i]
      BY <2>2, <2>7
    <3>3. flat[i - 1] \in Seq(T)
      BY <3>1
    <3>4. flat[i] \in Seq(T)
      BY <3>2, <3>3, <2>5, ConcatProperties
    <3> QED BY <3>4, <2>4
  <2> QED BY <2>6, <2>7
<1> QED BY <1>1, <1>2

\* One sequence more is put behind the others.
LEMMA FlattenAppend ==
    ASSUME NEW T, NEW n \in Nat, NEW s \in Seq(Seq(T)), NEW t \in Seq(Seq(T)),
           Len(s) = n, Len(t) = n + 1, \A i \in 1 .. n : t[i] = s[i]
    PROVE  FlattenSeq(t) = FlattenSeq(s) \o t[n + 1]
<1> DEFINE IsS(f) == f = [i \in 1 .. n |-> IF i = 1 THEN s[i] ELSE f[i - 1] \o s[i]]
           IsT(f) == f = [i \in 1 .. n + 1 |-> IF i = 1 THEN t[i] ELSE f[i - 1] \o t[i]]
           fs == CHOOSE f : IsS(f)
           ft == CHOOSE f : IsT(f)
<1>1. IsS(fs) /\ IsT(ft)
  <2>1. n + 1 \in Nat
    OBVIOUS
  <2>2. (\E f : IsS(f)) /\ \E f : IsT(f)
    BY <2>1, FlattenDefined
  <2> QED BY <2>2
<1>2. /\ FlattenSeq(t) = ft[n + 1]
      /\ FlattenSeq(s) = IF n = 0 THEN s ELSE fs[n]
  BY DEF FlattenSeq
<1> HIDE DEF fs, ft
<1>3. ASSUME NEW i \in 1 .. n PROVE fs[i] = ft[i]
  <2> DEFINE S == {k \in 1 .. n : fs[k] # ft[k]}
  <2>1. SUFFICES ASSUME S # {} PROVE FALSE
    OBVIOUS
  <2>2. PICK k \in S : \A j \in S : k <= j
    <3>1. S \in SUBSET Nat
      OBVIOUS
    <3> HIDE DEF S
    <3> QED BY <2>1, <3>1, Least
  <2>3. k \in 1 .. n /\ k \in 1 .. n + 1 /\ fs[k] # ft[k]
    OBVIOUS
  <2>4. /\ fs[k] = IF k = 1 THEN s[k] ELSE fs[k - 1] \o s[k]
        /\ ft[k] = IF k = 1 THEN t[k] ELSE ft[k - 1] \o t[k]
    BY <1>1, <2>3
  <2>5. k # 1 => k - 1 \in 1 .. n /\ k - 1 \notin S
    BY <2>2, <2>3
  <2> QED BY <2>3, <2>4, <2>5
<1>4. ft[n + 1] = IF n = 0 THEN t[n + 1] ELSE ft[n] \o t[n + 1]
  <2>1. n + 1 \in 1 .. n + 1 /\ n + 1 - 1 = n /\ (n + 1 = 1 <=> n = 0)
    OBVIOUS
  <2>2. \A i \in 1 .. n + 1 : ft[i] = IF i = 1 THEN t[i] ELSE ft[i - 1] \o t[i]
    BY <1>1
  <2> HIDE DEF IsS, IsT
  <2> QED BY <2>1, <2>2
<1> HIDE DEF IsS, IsT
<1>5. CASE n = 0
  <2>1. t[n + 1] \in Seq(T)
    <3>1. n + 1 \in 1 .. Len(t)
      OBVIOUS
    <3> QED BY <3>1, ElementOfSeq
  <2>2. s = <<>>
    BY <1>5, EmptySeq
  <2>3. <<>> \o t[n + 1] = t[n + 1]
    BY <2>1, ConcatEmptySeq
  <2> QED BY <2>2, <2>3, <1>2, <1>4, <1>5
<1>6. CASE n # 0
  <2>1. n \in 1 .. n
    BY <1>6
  <2>2. fs[n] = ft[n]
    BY <1>3, <2>1
  <2> QED BY <2>2, <1>2, <1>4, <1>6
<1> QED BY <1>5, <1>6

\* One sequence alone is what is put together of it.
LEMMA FlattenOne ==
    ASSUME NEW T, NEW f \in Seq(T)
    PROVE  FlattenSeq(<<f>>) = f
<1> DEFINE s == <<>>
           t == <<f>>
<1>1. /\ s \in Seq(Seq(T)) /\ t \in Seq(Seq(T)) /\ Len(s) = 0 /\ Len(t) = 0 + 1
      /\ t[0 + 1] = f
  OBVIOUS
<1>2. FlattenSeq(s) = <<>>
  BY EmptySeq DEF FlattenSeq
<1> HIDE DEF s, t
<1>3. 0 \in Nat /\ \A m \in 1 .. 0 : t[m] = s[m]
  OBVIOUS
<1>4. FlattenSeq(t) = FlattenSeq(s) \o t[0 + 1]
  BY <1>1, <1>3, FlattenAppend
<1>5. <<>> \o f = f
  BY ConcatEmptySeq
<1>6. FlattenSeq(t) = f
  BY <1>1, <1>2, <1>4, <1>5
<1> QED BY <1>6 DEF t

\* What is put together of two parts is put together of what each is.
LEMMA FlattenConcat ==
    ASSUME NEW T, NEW s \in Seq(Seq(T)), NEW t \in Seq(Seq(T))
    PROVE  FlattenSeq(s \o t) = FlattenSeq(s) \o FlattenSeq(t)
<1> DEFINE n == Len(s)
           u(m) == [k \in 1 .. n + m |-> IF k <= n THEN s[k] ELSE t[k - n]]
           v(m) == [k \in 1 .. m |-> t[k]]
           S == {m \in 0 .. Len(t) : FlattenSeq(u(m)) # FlattenSeq(s) \o FlattenSeq(v(m))}
<1>1. n \in Nat /\ Len(t) \in Nat /\ \A k \in 1 .. n : s[k] \in Seq(T)
  BY LenProperties, ElementOfSeq
<1>2. \A k \in 1 .. Len(t) : t[k] \in Seq(T)
  BY ElementOfSeq
<1> HIDE DEF n
<1>3. ASSUME NEW m \in 0 .. Len(t)
      PROVE  /\ u(m) \in Seq(Seq(T)) /\ Len(u(m)) = n + m
             /\ v(m) \in Seq(Seq(T)) /\ Len(v(m)) = m
  <2>1. \A k \in 1 .. n + m : (IF k <= n THEN s[k] ELSE t[k - n]) \in Seq(T)
    <3> SUFFICES ASSUME NEW k \in 1 .. n + m
                 PROVE  (IF k <= n THEN s[k] ELSE t[k - n]) \in Seq(T)
      OBVIOUS
    <3>1. CASE k <= n
      BY <1>1, <3>1
    <3>2. CASE ~(k <= n)
      <4>1. k - n \in 1 .. Len(t)
        BY <1>1, <3>2
      <4> QED BY <1>2, <3>2, <4>1
    <3> QED BY <3>1, <3>2
  <2>2. n + m \in Nat /\ m \in Nat /\ \A k \in 1 .. m : t[k] \in Seq(T)
    BY <1>1, <1>2
  <2> DEFINE W == Seq(T)
  <2>3. u(m) \in [1 .. n + m -> W] /\ v(m) \in [1 .. m -> W]
    BY <2>1, <2>2
  <2>4. n + m \in Nat /\ m \in Nat
    BY <2>2
  <2> HIDE DEF u, v, W
  <2>5. u(m) \in Seq(W) /\ Len(u(m)) = n + m
    BY <2>3, <2>4
  <2>6. v(m) \in Seq(W) /\ Len(v(m)) = m
    BY <2>3, <2>4
  <2> QED BY <2>5, <2>6 DEF W
<1>4. s \o t = u(Len(t)) /\ t = v(Len(t))
  <2>1. /\ s \o t \in Seq(Seq(T)) /\ Len(s \o t) = n + Len(t)
        /\ \A k \in 1 .. n + Len(t) : (s \o t)[k] = IF k <= n THEN s[k] ELSE t[k - n]
    BY ConcatProperties DEF n
  <2>2. Len(t) \in 0 .. Len(t)
    BY <1>1
  <2>3. u(Len(t)) \in Seq(Seq(T)) /\ Len(u(Len(t))) = n + Len(t)
        /\ v(Len(t)) \in Seq(Seq(T)) /\ Len(v(Len(t))) = Len(t)
    BY <1>3, <2>2
  <2>4. s \o t = u(Len(t))
    <3>1. \A k \in 1 .. n + Len(t) : u(Len(t))[k] = IF k <= n THEN s[k] ELSE t[k - n]
      OBVIOUS
    <3> HIDE DEF u
    <3> QED BY <2>1, <2>3, <3>1, SeqEqual
  <2>5. t = v(Len(t))
    <3>1. \A k \in 1 .. Len(t) : v(Len(t))[k] = t[k]
      OBVIOUS
    <3> HIDE DEF v
    <3> QED BY <2>3, <3>1, SeqEqual
  <2> QED BY <2>4, <2>5
<1>5. SUFFICES ASSUME S # {} PROVE FALSE
  <2>1. Len(t) \in 0 .. Len(t)
    BY <1>1
  <2> HIDE DEF u, v
  <2> QED BY <1>4, <2>1
<1>6. PICK m \in S : \A k \in S : m <= k
  <2>1. S \in SUBSET Nat
    BY <1>1
  <2> HIDE DEF S
  <2> QED BY <1>5, <2>1, Least
<1>7. m \in 0 .. Len(t) /\ FlattenSeq(u(m)) # FlattenSeq(s) \o FlattenSeq(v(m))
  OBVIOUS
<1>8. FlattenSeq(s) \in Seq(T)
  BY <1>1, FlattenElements DEF n
<1>9. CASE m = 0
  <2>1. u(0) = s /\ v(0) = <<>>
    <3>1. u(0) \in Seq(Seq(T)) /\ Len(u(0)) = n /\ v(0) \in Seq(Seq(T)) /\ Len(v(0)) = 0
      BY <1>1, <1>3, <1>7
    <3>2. \A k \in 1 .. n : u(0)[k] = s[k]
      BY <1>1
    <3> HIDE DEF u, v
    <3>3. u(0) = s
      BY <3>1, <3>2, SeqEqual DEF n
    <3> QED BY <3>1, <3>3, EmptySeq
  <2>2. FlattenSeq(<<>>) = <<>>
    BY EmptySeq DEF FlattenSeq
  <2>3. FlattenSeq(s) \o <<>> = FlattenSeq(s)
    BY <1>8, ConcatEmptySeq
  <2> HIDE DEF u, v
  <2> QED BY <1>7, <1>9, <2>1, <2>2, <2>3
<1>10. CASE m # 0
  <2>1. m - 1 \in 0 .. Len(t) /\ m - 1 \notin S /\ m \in 1 .. Len(t)
    <3>1. m - 1 \in 0 .. Len(t) /\ m \in 1 .. Len(t) /\ ~(m <= m - 1)
      BY <1>1, <1>7, <1>10
    <3> HIDE DEF S
    <3> QED BY <1>6, <3>1
  <2>2. FlattenSeq(u(m - 1)) = FlattenSeq(s) \o FlattenSeq(v(m - 1))
    BY <2>1
  <2>3. FlattenSeq(u(m)) = FlattenSeq(u(m - 1)) \o t[m]
    <3>1. u(m - 1) \in Seq(Seq(T)) /\ u(m) \in Seq(Seq(T))
      BY <1>3, <1>7, <2>1
    <3>2. Len(u(m - 1)) = n + (m - 1) /\ Len(u(m)) = n + (m - 1) + 1 /\ n + (m - 1) \in Nat
      <4>1. Len(u(m - 1)) = n + (m - 1) /\ Len(u(m)) = n + m
        BY <1>3, <1>7, <2>1
      <4>2. n + m = n + (m - 1) + 1 /\ n + (m - 1) \in Nat
        BY <1>1, <2>1
      <4> HIDE DEF u
      <4> QED BY <4>1, <4>2
    <3>3. \A i \in 1 .. n + (m - 1) : u(m)[i] = u(m - 1)[i]
      BY <1>1, <2>1
    <3>4. u(m)[n + (m - 1) + 1] = t[m]
      BY <1>1, <2>1
    <3> HIDE DEF u
    <3>5. FlattenSeq(u(m)) = FlattenSeq(u(m - 1)) \o u(m)[n + (m - 1) + 1]
      BY <3>1, <3>2, <3>3, FlattenAppend
    <3> QED BY <3>4, <3>5
  <2>4. FlattenSeq(v(m)) = FlattenSeq(v(m - 1)) \o t[m] /\ FlattenSeq(v(m - 1)) \in Seq(T)
    <3>1. v(m - 1) \in Seq(Seq(T)) /\ v(m) \in Seq(Seq(T))
      BY <1>3, <1>7, <2>1
    <3>2. Len(v(m - 1)) = m - 1 /\ Len(v(m)) = (m - 1) + 1 /\ m - 1 \in Nat
      BY <1>1, <1>3, <1>7, <2>1
    <3>3. \A i \in 1 .. m - 1 : v(m)[i] = v(m - 1)[i]
      BY <1>1, <2>1
    <3>4. v(m)[(m - 1) + 1] = t[m]
      BY <1>1, <2>1
    <3> HIDE DEF v
    <3>5. FlattenSeq(v(m)) = FlattenSeq(v(m - 1)) \o v(m)[(m - 1) + 1]
      BY <3>1, <3>2, <3>3, FlattenAppend
    <3>6. FlattenSeq(v(m - 1)) \in Seq(T)
      BY <3>1, <3>2, FlattenElements
    <3> QED BY <3>4, <3>5, <3>6
  <2>5. t[m] \in Seq(T)
    BY <1>2, <2>1
  <2> HIDE DEF u, v
  <2>6. (FlattenSeq(s) \o FlattenSeq(v(m - 1))) \o t[m]
        = FlattenSeq(s) \o (FlattenSeq(v(m - 1)) \o t[m])
    <3>1. /\ FlattenSeq(s) \in Seq(T) /\ FlattenSeq(v(m - 1)) \in Seq(T)
          /\ t[m] \in Seq(T)
      BY <1>8, <2>4, <2>5
    <3>2. \A x, y, z \in Seq(T) : (x \o y) \o z = x \o (y \o z)
      BY ConcatAssociative, SMTT(30)
    <3> DEFINE x == FlattenSeq(s)
               y == FlattenSeq(v(m - 1))
    <3> HIDE DEF x, y
    <3>3. (x \o y) \o t[m] = x \o (y \o t[m])
      BY <3>1, <3>2, Zenon DEF x, y
    <3> QED BY <3>3 DEF x, y
  <2> QED BY <1>7, <2>2, <2>3, <2>4, <2>6
<1> QED BY <1>9, <1>10

-----------------------------------------------------------------------------
(* Ranks *)

\* Ranks of the members of a finite set of integers order it: the sequence that
\* has the member with k - 1 below it at k ascends, and has all members.
LEMMA RanksOrder ==
    ASSUME NEW S \in SUBSET Int, IsFiniteSet(S), NEW s,
           s = [k \in 1 .. Cardinality(S) |->
                   CHOOSE b \in S : Cardinality({a \in S : a < b}) = k - 1]
    PROVE  /\ Cardinality(S) \in Nat /\ s \in [1 .. Cardinality(S) -> S]
           /\ \A b \in S : \E k \in 1 .. Cardinality(S) : s[k] = b
           /\ \A k, m \in 1 .. Cardinality(S) : k < m => s[k] < s[m]
<1> DEFINE N == Cardinality(S)
           Below(b) == {a \in S : a < b}
           rank == [b \in S |-> Cardinality(Below(b)) + 1]
<1>1. N \in Nat
  BY FS_CardinalityType
<1>2. ASSUME NEW b \in S
      PROVE  /\ IsFiniteSet(Below(b)) /\ Cardinality(Below(b)) \in Nat
             /\ Cardinality(Below(b)) < N
  <2>1. Below(b) \in SUBSET S
    OBVIOUS
  <2>2. IsFiniteSet(Below(b)) /\ Cardinality(Below(b)) <= N /\ (N = Cardinality(Below(b)) => S = Below(b))
    BY <2>1, FS_Subset
  <2>3. Cardinality(Below(b)) \in Nat
    BY <2>2, FS_CardinalityType
  <2>4. b \notin Below(b)
    OBVIOUS
  <2> HIDE DEF Below
  <2> QED BY <1>1, <2>2, <2>3, <2>4
<1>3. ASSUME NEW b \in S, NEW c \in S, b < c
      PROVE  Cardinality(Below(b)) < Cardinality(Below(c))
  <2>1. Below(b) \in SUBSET Below(c) /\ b \in Below(c) /\ b \notin Below(b)
    <3>1. b \in Int /\ c \in Int /\ \A a \in S : a \in Int
      OBVIOUS
    <3>2. \A a \in S : a < b => a < c
      BY <1>3, <3>1
    <3>3. ~(b < b)
      BY <3>1
    <3> QED BY <1>3, <3>2, <3>3
  <2> HIDE DEF Below
  <2>2. /\ Cardinality(Below(b)) <= Cardinality(Below(c))
        /\ Cardinality(Below(c)) = Cardinality(Below(b)) => Below(c) = Below(b)
    BY <1>2, <2>1, FS_Subset
  <2> QED BY <1>2, <2>1, <2>2
<1> HIDE DEF N
<1>4. rank \in [S -> 1 .. N]
  <2> HIDE DEF Below
  <2> QED BY <1>1, <1>2
<1>5. ASSUME NEW b \in S, NEW c \in S PROVE b < c <=> rank[b] < rank[c]
  <2> HIDE DEF Below
  <2>1. b < c => rank[b] < rank[c]
    BY <1>2, <1>3
  <2>2. c < b => rank[c] < rank[b]
    BY <1>2, <1>3
  <2>3. b \in Int /\ c \in Int /\ rank[b] \in Int /\ rank[c] \in Int
    BY <1>4
  <2> HIDE DEF rank
  <2> QED BY <2>1, <2>2, <2>3
<1>6. ASSUME NEW b \in S, NEW c \in S, rank[b] = rank[c] PROVE b = c
  <2>1. b \in Int /\ c \in Int /\ rank[b] \in 1 .. N
    BY <1>4
  <2> HIDE DEF rank
  <2> QED BY <1>5, <1>6, <2>1
<1>7. rank \in Surjection(S, 1 .. N)
  <2>1. rank \in Injection(S, 1 .. N)
    <3> HIDE DEF rank
    <3> QED BY <1>4, <1>6 DEF Injection, IsInjective
  <2>2. IsFiniteSet(1 .. N) /\ Cardinality(1 .. N) = N
    BY <1>1, FS_Interval
  <2> HIDE DEF rank
  <2> QED BY <2>1, <2>2, FS_Injection DEF N
<1>8. ASSUME NEW k \in 1 .. N PROVE s[k] \in S /\ rank[s[k]] = k
  <2>1. PICK b \in S : rank[b] = k
    <3> HIDE DEF rank
    <3> QED BY <1>7 DEF Surjection
  <2>2. Cardinality(Below(b)) = k - 1
    <3> HIDE DEF Below
    <3>1. Cardinality(Below(b)) + 1 = k
      BY <2>1
    <3> QED BY <1>2, <3>1
  <2>3. s[k] = CHOOSE c \in S : Cardinality(Below(c)) = k - 1
    BY DEF N
  <2>4. s[k] \in S /\ Cardinality(Below(s[k])) = k - 1
    <3> HIDE DEF Below
    <3> QED BY <2>2, <2>3
  <2> HIDE DEF Below
  <2> QED BY <2>4
<1>9. ASSUME NEW b \in S PROVE rank[b] \in 1 .. N /\ s[rank[b]] = b
  BY <1>4, <1>6, <1>8
<1>10. ASSUME NEW k \in 1 .. N, NEW m \in 1 .. N, k < m PROVE s[k] < s[m]
  <2> HIDE DEF rank
  <2>1. s[k] \in S /\ s[m] \in S /\ rank[s[k]] < rank[s[m]]
    BY <1>8, <1>10
  <2> QED BY <1>5, <2>1
<1>11. s = [k \in 1 .. N |-> s[k]]
  <2>1. \E f : s = [k \in 1 .. N |-> f[k]]
    <3> DEFINE pick(k) == CHOOSE b \in S : Cardinality({a \in S : a < b}) = k - 1
               f == [k \in 1 .. N |-> pick(k)]
    <3>1. s = f
      BY DEF N
    <3> HIDE DEF pick
    <3>2. f = [k \in 1 .. N |-> f[k]]
      OBVIOUS
    <3> HIDE DEF f
    <3> QED BY <3>1, <3>2
  <2> QED BY <2>1
<1>12. s \in [1 .. N -> S]
  BY <1>8, <1>11
<1> HIDE DEF rank, Below
<1> QED BY <1>1, <1>9, <1>10, <1>12 DEF N

\* A finite set of numbers has a maximum. RanksOrder orders it.
LEMMA Greatest ==
    ASSUME NEW S \in SUBSET Int, IsFiniteSet(S), S # {}
    PROVE  \E m \in S : \A x \in S : m >= x
<1> DEFINE N == Cardinality(S)
           s == [k \in 1 .. N |-> CHOOSE b \in S : Cardinality({a \in S : a < b}) = k - 1]
<1> HIDE DEF s
<1>1. /\ N \in Nat /\ s \in [1 .. N -> S]
      /\ \A b \in S : \E k \in 1 .. N : s[k] = b
      /\ \A k, m \in 1 .. N : k < m => s[k] < s[m]
  BY RanksOrder DEF s
<1> HIDE DEF N
<1>2. N # 0
  <2>1. PICK b \in S : TRUE
    OBVIOUS
  <2>2. PICK k \in 1 .. N : s[k] = b
    BY <1>1
  <2> QED BY <1>1
<1>3. N \in 1 .. N /\ s[N] \in S
  BY <1>1, <1>2
<1>4. ASSUME NEW x \in S PROVE s[N] >= x
  <2>1. PICK k \in 1 .. N : s[k] = x
    BY <1>1
  <2>2. k = N \/ s[k] < s[N]
    BY <1>1, <1>3
  <2>3. s[N] \in Int /\ x \in Int
    BY <1>3
  <2> QED BY <2>1, <2>2, <2>3
<1> QED BY <1>3, <1>4
=============================================================================
