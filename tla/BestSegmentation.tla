--------------------------- MODULE BestSegmentation ---------------------------
(***************************************************************************)
(* What a tokenizer promises, without a lattice: candidate words are        *)
(* offered, and the answer is a sequence of them that tiles the text and    *)
(* costs no more than any other that does (lattice.go:72). It may give up   *)
(* only at a position candidates reach and none continues from, and answer  *)
(* that there is no path only when there is none.                           *)
(***************************************************************************)
EXTENDS Integers, Sequences

VARIABLES length,     \* characters of the text
          cost,       \* connection costs
          offered,    \* the candidate nodes
          answer      \* [kind : {"none", "path", "noPath", "noWord"}, path : Seq(nodes)]

segVars == <<length, cost, offered, answer>>

Answered(kind, t) == [kind |-> kind, path |-> t]
None == Answered("none", <<>>)

SegInit == offered = {} /\ answer = None

\* Every sequence of candidates that tiles the text up to a position.
Tilings ==
    LET upTo[p \in 0 .. length] ==
            IF p = 0 THEN {<<>>}
            ELSE UNION {{Append(t, n) : t \in upTo[n.begin]} :
                            n \in {m \in offered : m.end = p /\ m.begin < p}}
    IN  upTo[length]

PathCost(t) ==
    LET upTo[k \in 0 .. Len(t)] ==
            IF k = 0 THEN 0
            ELSE upTo[k - 1] + t[k].cost
                 + cost[<<IF k = 1 THEN 0 ELSE t[k - 1].right, t[k].left>>]
    IN  upTo[Len(t)] + cost[<<IF t = <<>> THEN 0 ELSE t[Len(t)].right, 0>>]

Reached(p) == p = 0 \/ \E n \in offered : n.end = p

Offer ==
    /\ answer = None
    /\ offered \subseteq offered' /\ offered' # offered
    /\ UNCHANGED <<length, cost, answer>>

Answer ==
    /\ answer = None
    /\ \E t \in Tilings : /\ \A u \in Tilings : PathCost(t) <= PathCost(u)
                          /\ answer' = Answered("path", t)
    /\ UNCHANGED <<length, cost, offered>>

AnswerNoPath ==
    /\ answer = None /\ Tilings = {}
    /\ answer' = Answered("noPath", <<>>)
    /\ UNCHANGED <<length, cost, offered>>

GiveUp ==
    /\ answer = None
    /\ \E p \in 0 .. length - 1 : Reached(p) /\ \A n \in offered : n.begin # p
    /\ answer' = Answered("noWord", <<>>)
    /\ UNCHANGED <<length, cost, offered>>

SegNext == Offer \/ Answer \/ AnswerNoPath \/ GiveUp

SegSpec == SegInit /\ [][SegNext]_segVars
=============================================================================
