------------------------------- MODULE Lattice -------------------------------
(***************************************************************************)
(* The morpheme lattice of internal/domain/lattice/lattice.go: for every    *)
(* character position the nodes that end there, each already connected to   *)
(* its cheapest predecessor (Viterbi). Costs are accumulated in integers of a *)
(* fixed width, and the largest of them stands for "unreachable".          *)
(***************************************************************************)
EXTENDS Integers, Sequences

CONSTANTS MaxCost,     \* the largest accumulated cost (math.MaxInt32)
          ContextIds   \* left and right context ids; 0 is that of BOS and EOS

ASSUME LatticeAssumption == MaxCost \in Nat /\ 0 \in ContextIds

VARIABLES ends,    \* ends[p]: the entries that end at character p, oldest first
          conn     \* conn[<<l, r>>]: connection cost of a right id l and a left id r

Unreachable == MaxCost

\* Go's int32 addition: what does not fit wraps around.
Wrap(x) == ((x + MaxCost + 1) % (2 * (MaxCost + 1))) - (MaxCost + 1)

\* prev is an index into ends[node.begin]; 0 is the code's -1.
BOS == [node |-> [begin |-> 0, end |-> 0, left |-> 0, right |-> 0, cost |-> 0,
                  oov |-> FALSE],
        total |-> 0, prev |-> 0]

\* lattice.New.
NewLattice(n) == [p \in 0 .. n |-> IF p = 0 THEN <<BOS>> ELSE <<>>]

HasNodeEndingAt(p) == ends[p] # <<>>

\* Cost of a node of cost c and left id l after entry i of es, which is the list
\* of those that end where it begins.
CostAfter(es, i, l, c) == Wrap(es[i].total + conn[<<es[i].node.right, l>>] + c)

\* Entries a node can be connected to: the others are skipped by the loop, or
\* never cost less than the initial minCost.
Usable_All(es, l, c) == {i \in DOMAIN es : CostAfter(es, i, l, c) < Unreachable}
Usable(es, l, c) == {i \in DOMAIN es : /\ es[i].total # Unreachable
                                       /\ CostAfter(es, i, l, c) < Unreachable}

\* connect: the cheapest usable entry, the oldest of the equally cheap ones.
Cheapest_Newest(es, l, c) ==
    CHOOSE i \in Usable(es, l, c) : \A j \in Usable(es, l, c) :
        \/ CostAfter(es, i, l, c) < CostAfter(es, j, l, c)
        \/ CostAfter(es, i, l, c) = CostAfter(es, j, l, c) /\ i >= j
Cheapest_Oldest(es, l, c) ==
    CHOOSE i \in Usable(es, l, c) : \A j \in Usable(es, l, c) : i <= j
Cheapest(es, l, c) ==
    CHOOSE i \in Usable(es, l, c) : \A j \in Usable(es, l, c) :
        \/ CostAfter(es, i, l, c) < CostAfter(es, j, l, c)
        \/ CostAfter(es, i, l, c) = CostAfter(es, j, l, c) /\ i <= j

Connect(es, l, c) ==
    IF Usable(es, l, c) = {} THEN [total |-> Unreachable, prev |-> 0]
    ELSE LET i == Cheapest(es, l, c)
         IN  [total |-> CostAfter(es, i, l, c), prev |-> i]

\* Insert of the code: connects n to what ends at its begin now, never again.
EntryFor(n) == LET k == Connect(ends[n.begin], n.left, n.cost)
               IN  [node |-> n, total |-> k.total, prev |-> k.prev]

Insert(n) == ends' = [ends EXCEPT ![n.end] = Append(@, EntryFor(n))]

\* Every node inserted so far.
Inserted == UNION {{ends[p][i].node : i \in DOMAIN ends[p]} : p \in DOMAIN ends \ {0}}
=============================================================================
