---------------------------- MODULE TextBuilder ----------------------------
(***************************************************************************)
(* The rewritable input text of internal/domain/text/builder.go.           *)
(*                                                                         *)
(* A Builder holds the current text and m2o, which maps every byte offset  *)
(* of the current text (and its end) to an offset of the original text.    *)
(* An input-text plugin registers replacements through an Editor; apply    *)
(* sorts them by their begin (stably), validates and applies them one by   *)
(* one into local slices, and commits only when all of them are accepted.  *)
(*                                                                         *)
(* A string is the sequence of its bytes, and of a byte only two things    *)
(* are kept: whether it starts a character, and which byte of the original *)
(* it is (NewByte for a byte a plugin wrote).                              *)
(***************************************************************************)
EXTENDS Integers, Sequences

CONSTANTS Originals,    \* the strings NewBuilder may be given
          Withs,        \* the replacement strings plugins may write
          MaxEdits,     \* bound: replacements registered in one Rewrite
          MaxRewrites,  \* bound: Rewrite calls
          MaxLen        \* bound: bytes of the current text

\* A valid UTF-8 string: TRUE for a byte that starts a character.
IsString(s) == /\ s \in Seq(BOOLEAN)
               /\ s # <<>> => s[1]

ASSUME StringsAssumption ==
    /\ \A s \in Originals \cup Withs : IsString(s)
    /\ MaxEdits \in Nat /\ MaxRewrites \in Nat /\ MaxLen \in Nat

VARIABLES original,   \* Builder.original
          current,    \* Builder.current, the bytes
          m2o,        \* Builder.m2o; m2o[i + 1] is the code's m2o[i]
          edits,      \* Editor.edits, in registration order
          pc,         \* "idle", "editing" (inside fn) or "applying"
          pending,    \* apply: the edits its loop has not reached
          pos,        \* apply: local pos
          sb,         \* apply: local string builder
          newMap,     \* apply: local m2o
          aligned,    \* history: every edit applied so far was on character boundaries
          rewrites    \* history: number of Rewrite calls

builder == <<original, current, m2o>>
locals  == <<pending, pos, sb, newMap>>
vars    == <<builder, edits, pc, locals, aligned, rewrites>>

NewByte == -1
Byte == [from : {NewByte} \cup Nat, head : BOOLEAN]
Edit == [begin : Nat, end : Nat, with : Seq(BOOLEAN)]

\* Offset i of the text is a character boundary.
Boundary(heads, i) == i = Len(heads) \/ heads[i + 1]
CurBoundary(i) == i = Len(current) \/ current[i + 1].head

NewBuilder(s) ==
    /\ original = s
    /\ current = [i \in 1 .. Len(s) |-> [from |-> i - 1, head |-> s[i]]]
    /\ m2o = [i \in 1 .. Len(s) + 1 |-> i - 1]

Init ==
    /\ \E s \in Originals : NewBuilder(s)
    /\ edits = <<>> /\ pc = "idle"
    /\ pending = {} /\ pos = 0 /\ sb = <<>> /\ newMap = <<>>
    /\ aligned = TRUE /\ rewrites = 0

-----------------------------------------------------------------------------
(* Rewrite: fn runs on the current text and registers replacements.        *)

StartRewrite ==
    /\ pc = "idle" /\ rewrites < MaxRewrites
    /\ pc' = "editing" /\ edits' = <<>> /\ rewrites' = rewrites + 1
    /\ UNCHANGED <<builder, locals, aligned>>

\* Editor.Replace checks nothing: the range may be reversed or out of the text.
Replace(b, e, w) ==
    /\ pc = "editing" /\ Len(edits) < MaxEdits
    /\ edits' = Append(edits, [begin |-> b, end |-> e, with |-> w])
    /\ UNCHANGED <<builder, pc, locals, aligned, rewrites>>

\* fn returned an error, or registered nothing.
LeaveRewrite ==
    /\ pc = "editing"
    /\ pc' = "idle" /\ edits' = <<>>
    /\ UNCHANGED <<builder, locals, aligned, rewrites>>

StartApply ==
    /\ pc = "editing" /\ edits # <<>>
    /\ pc' = "applying" /\ pending' = DOMAIN edits
    /\ pos' = 0 /\ sb' = <<>> /\ newMap' = <<>>
    /\ UNCHANGED <<builder, edits, aligned, rewrites>>

-----------------------------------------------------------------------------
(* apply: one step per iteration of its loop.                              *)

\* Order of the loop: by begin, ties in registration order (a stable sort).
Before(i, j) == \/ edits[i].begin < edits[j].begin
                \/ edits[i].begin = edits[j].begin /\ i <= j

IsNext(i) == i \in pending /\ \A j \in pending : Before(i, j)

Rejected_OverlapAllowed(ed) == ed.end < ed.begin \/ ed.end > Len(current)
Rejected(ed) == \/ ed.begin < pos
                \/ ed.end < ed.begin
                \/ ed.end > Len(current)

\* s[a:b] of the code.
Slice(s, a, b) == SubSeq(s, a + 1, b)

\* m2o of the replacement: its first byte to the begin of what it replaces,
\* the others to its end.
MapOf_OneMore(ed) ==
    [j \in 1 .. IF ed.with = <<>> THEN 0 ELSE Len(ed.with) + 1 |->
        IF j = 1 THEN m2o[ed.begin + 1] ELSE m2o[ed.end + 1]]
MapOf(ed) ==
    [j \in 1 .. Len(ed.with) |-> IF j = 1 THEN m2o[ed.begin + 1] ELSE m2o[ed.end + 1]]

BytesOf(ed) ==
    [j \in 1 .. Len(ed.with) |-> [from |-> NewByte, head |-> ed.with[j]]]


ApplyEdit(i) ==
    /\ pc = "applying" /\ IsNext(i) /\ ~Rejected(edits[i])
    /\ LET ed == edits[i] IN
         /\ sb' = sb \o Slice(current, pos, ed.begin) \o BytesOf(ed)
         /\ newMap' = newMap \o Slice(m2o, pos, ed.begin) \o MapOf(ed)
         /\ pos' = ed.end
         /\ aligned' = (aligned /\ CurBoundary(ed.begin) /\ CurBoundary(ed.end))
    /\ pending' = pending \ {i}
    /\ UNCHANGED <<builder, edits, pc, rewrites>>

RejectEdit(i) ==
    /\ pc = "applying" /\ IsNext(i) /\ Rejected(edits[i])
    /\ pc' = "idle" /\ edits' = <<>>
    /\ pending' = {} /\ pos' = 0 /\ sb' = <<>> /\ newMap' = <<>>
    /\ UNCHANGED <<builder, aligned, rewrites>>

\* A non-empty text starts at the start of the original even when its head
\* was deleted.
PinHead_Never(m) == m
PinHead(m) == IF Len(m) > 1 THEN [m EXCEPT ![1] = 0] ELSE m

\* The loop is over: the tail is copied and both fields are assigned.
Commit ==
    /\ pc = "applying" /\ pending = {}
    /\ current' = sb \o Slice(current, pos, Len(current))
    /\ m2o' = PinHead(newMap \o Slice(m2o, pos, Len(m2o)))
    /\ Len(current') <= MaxLen
    /\ pc' = "idle" /\ edits' = <<>>
    /\ pos' = 0 /\ sb' = <<>> /\ newMap' = <<>>
    /\ UNCHANGED <<original, pending, aligned, rewrites>>

Next == \/ StartRewrite
        \/ \E b \in 0 .. Len(current), e \in 0 .. Len(current) + 1, w \in Withs :
              Replace(b, e, w)
        \/ LeaveRewrite
        \/ StartApply
        \/ \E i \in pending : ApplyEdit(i) \/ RejectEdit(i)
        \/ Commit

Spec == Init /\ [][Next]_vars

-----------------------------------------------------------------------------
(* Properties *)

\* Every variable has its type, and the map has one entry per byte of the text
\* plus the sentinel.
TypeOK ==
    /\ original \in Originals
    /\ current \in Seq(Byte)
    /\ m2o \in Seq(0 .. Len(original)) /\ Len(m2o) = Len(current) + 1
    /\ edits \in Seq(Edit)
    /\ pc \in {"idle", "editing", "applying"}
    /\ pending \subseteq DOMAIN edits
    /\ pos \in 0 .. Len(current)
    /\ sb \in Seq(Byte)
    /\ newMap \in Seq(0 .. Len(original)) /\ Len(newMap) = Len(sb)
    /\ aligned \in BOOLEAN /\ rewrites \in 0 .. MaxRewrites

\* A sequence of offsets never goes back.
NonDecreasing(s) == \A i, j \in 1 .. Len(s) : i <= j => s[i] <= s[j]

\* After any chain of rewrites the map never goes back: surfaces cut from the
\* original by successive offsets do not overlap (text_test.go, FuzzRewrite).
MapMonotone == NonDecreasing(m2o)

\* A non-empty text maps to the whole original, whatever was deleted at its
\* head or its tail, and in however many rewrites (builder.go:89, FuzzRewrite).
MapAnchored == Len(current) > 0 => /\ m2o[1] = 0
                                   /\ m2o[Len(m2o)] = Len(original)

\* While plugins edit on character boundaries, a character boundary of the
\* current text maps to a character boundary of the original: a surface never
\* cuts a character in two.
SurfaceOnBoundary ==
    aligned => \A i \in 0 .. Len(current) :
                  CurBoundary(i) => Boundary(original, m2o[i + 1])

\* The bytes no plugin replaced stay in order, none twice, and each still maps
\* to itself; only the first of them may map further back, to 0, because it
\* was the head of the text when the bytes before it were deleted.
KeptBytesMapHome ==
    \A i \in 1 .. Len(current) : current[i].from # NewByte =>
        /\ m2o[i] \in {0, current[i].from}
        /\ \A j \in 1 .. i - 1 : current[j].from # NewByte =>
              current[j].from < current[i].from /\ m2o[i] = current[i].from

\* Byte k of the current text lies in the range of some edit.
Covered(k) == \E i \in DOMAIN edits : edits[i].begin < k /\ k <= edits[i].end

Survivors(s) == {b.from : b \in {s[k] : k \in DOMAIN s}} \ {NewByte}

\* A rewrite removes exactly the bytes its replacements cover: an overlap that
\* went unnoticed would bring back what another replacement removed
\* (builder.go:71, TestRewriteRejectsOverlappingEdits).
RemovesExactly ==
    [][pc = "applying" /\ current' # current =>
          Survivors(current') =
              {current[k].from : k \in {j \in DOMAIN current : ~Covered(j)}} \ {NewByte}]_vars

\* Two replacements conflict when one begins inside the range of the other.
Conflict(x, y) == x.begin <= y.begin /\ y.begin < x.end

\* Replacements that are in range and do not conflict are never rejected, in
\* whatever order a plugin registers them (builder.go:64 sorts them for that).
DisjointEditsAccepted ==
    \A i \in pending : IsNext(i) /\ Rejected(edits[i]) =>
        \/ edits[i].end < edits[i].begin \/ edits[i].end > Len(current)
        \/ \E j \in DOMAIN edits \ {i} :
              Conflict(edits[i], edits[j]) \/ Conflict(edits[j], edits[i])

\* The text a plugin reads, and every offset into it, changes only when all
\* the edits of a Rewrite were accepted: a rejected rewrite changes nothing
\* (text_test.go, TestRewriteRejectsOverlappingEdits).
ChangesOnlyOnCommit ==
    [][builder' # builder => pc = "applying" /\ pending = {} /\ pc' = "idle"]_vars

\* An offset into the text a plugin has rewritten can be given back as an
\* offset into the original, after any chain of rewrites (builder.go:13).
MapSound == MapMonotone /\ MapAnchored /\ SurfaceOnBoundary

\* A rewrite does what its edits say, or nothing: those that do not conflict
\* are accepted, the text changes only when all are, and then by exactly them.
RewritesExactly == []DisjointEditsAccepted /\ ChangesOnlyOnCommit /\ RemovesExactly
=============================================================================
