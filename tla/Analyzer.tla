------------------------------ MODULE Analyzer ------------------------------
(***************************************************************************)
(* The life of an Analyzer (sudachin.go) and of the memory-mapped           *)
(* dictionary it reads (internal/infrastructure/dicfile): Open maps and     *)
(* parses it, any number of goroutines analyze, Close unmaps it. An         *)
(* analysis reads the mapping again and again, and the flag only once.      *)
(***************************************************************************)
EXTENDS Integers, FiniteSets

CONSTANT Goroutines     \* those that share the Analyzer once it is open

VARIABLES careful,    \* its callers obey the comment on Close (sudachin.go:94)
          opening,    \* where Open is
          mapped,     \* the file is mapped
          release,    \* Dictionary.release is set
          closed,     \* Analyzer.closed
          pc,         \* where each goroutine is
          answer,     \* what its last call returned
          unmaps,     \* history: munmap calls
          closeDone   \* history: some Close has returned

vars == <<careful, opening, mapped, release, closed, pc, answer, unmaps, closeDone>>
calls == <<closed, pc, answer, closeDone>>

Init ==
    /\ careful \in BOOLEAN
    /\ opening = "start" /\ mapped = FALSE /\ release = FALSE /\ closed = FALSE
    /\ pc = [g \in Goroutines |-> "idle"] /\ answer = [g \in Goroutines |-> "none"]
    /\ unmaps = 0 /\ closeDone = FALSE

\* Nobody has the Analyzer before Open returns it, and a killed process has no
\* goroutines.
Running == opening = "ready"

Goto(g, l) == pc' = [pc EXCEPT ![g] = l]
ReturnWith(g, r) == Goto(g, "idle") /\ answer' = [answer EXCEPT ![g] = r]

-----------------------------------------------------------------------------
(* Open *)

MapFile ==
    /\ opening = "start"
    /\ \/ opening' = "mapped" /\ mapped' = TRUE
       \/ opening' = "failed" /\ UNCHANGED mapped
    /\ UNCHANGED <<release, calls, unmaps>>

\* dicfile.Open keeps release only when Parse accepts the data.
Parse ==
    /\ opening = "mapped"
    /\ \/ opening' = "parsed" /\ release' = TRUE
       \/ opening' = "failed" /\ UNCHANGED release
    /\ UNCHANGED <<mapped, calls, unmaps>>

\* A dictionary the default configuration does not fit is closed again.
NewTokenizer ==
    /\ opening = "parsed"
    /\ \/ opening' = "ready" /\ UNCHANGED <<mapped, release, unmaps>>
       \/ /\ opening' = "failed"
          /\ release' = FALSE /\ mapped' = FALSE /\ unmaps' = unmaps + 1
    /\ UNCHANGED calls

-----------------------------------------------------------------------------
(* Analyze *)

InClose(g) == pc[g] \in {"close", "release", "unmap"}
MayAnalyze == careful => \A h \in Goroutines : ~InClose(h)

CallAnalyze(g) ==
    /\ Running /\ pc[g] = "idle" /\ MayAnalyze
    /\ Goto(g, "analyze")
    /\ answer' = [answer EXCEPT ![g] = IF closeDone THEN "late" ELSE "none"]
    /\ UNCHANGED <<opening, mapped, release, closed, unmaps, closeDone>>

CheckClosed_Never(g) ==
    /\ Running /\ pc[g] = "analyze"
    /\ Goto(g, "read")
    /\ UNCHANGED <<opening, mapped, release, closed, answer, unmaps, closeDone>>
CheckClosed(g) ==
    /\ Running /\ pc[g] = "analyze"
    /\ IF closed THEN ReturnWith(g, "errClosed")
       ELSE Goto(g, "read") /\ UNCHANGED answer
    /\ UNCHANGED <<opening, mapped, release, closed, unmaps, closeDone>>

\* CommonPrefix, Param, ConnectCost and Info each read the mapping; the run of
\* them takes time. Reading an unmapped page kills the process.
Read(g) ==
    /\ Running /\ pc[g] = "read" /\ mapped
    /\ ReturnWith(g, "morphemes")
    /\ UNCHANGED <<opening, mapped, release, closed, unmaps, closeDone>>

Fault(g) ==
    /\ Running /\ pc[g] = "read" /\ ~mapped
    /\ opening' = "dead"
    /\ UNCHANGED <<mapped, release, calls, unmaps>>

-----------------------------------------------------------------------------
(* Close *)

MayClose == careful => \A h \in Goroutines : pc[h] \notin {"analyze", "read"}

CallClose(g) ==
    /\ Running /\ pc[g] = "idle" /\ MayClose
    /\ Goto(g, "close")
    /\ UNCHANGED <<opening, mapped, release, closed, answer, unmaps, closeDone>>

\* closed.Swap: one goroutine gets past it.
SwapClosed_NotSet(g) ==
    /\ Running /\ pc[g] = "close"
    /\ IF closed THEN ReturnWith(g, "nil") /\ closeDone' = TRUE
       ELSE Goto(g, "release") /\ UNCHANGED <<answer, closeDone>>
    /\ UNCHANGED <<opening, mapped, release, closed, unmaps>>
SwapClosed(g) ==
    /\ Running /\ pc[g] = "close"
    /\ closed' = TRUE
    /\ IF closed THEN ReturnWith(g, "nil") /\ closeDone' = TRUE
       ELSE Goto(g, "release") /\ UNCHANGED <<answer, closeDone>>
    /\ UNCHANGED <<opening, mapped, release, unmaps>>

\* Dictionary.Close looks at release without a lock ...
TakeRelease_ClearFirst(g) ==
    /\ Running /\ pc[g] = "release"
    /\ release' = FALSE
    /\ IF release' THEN Goto(g, "unmap") /\ UNCHANGED <<answer, closeDone>>
       ELSE ReturnWith(g, "nil") /\ closeDone' = TRUE
    /\ UNCHANGED <<opening, mapped, closed, unmaps>>
TakeRelease(g) ==
    /\ Running /\ pc[g] = "release"
    /\ IF release THEN Goto(g, "unmap") /\ UNCHANGED <<answer, closeDone>>
       ELSE ReturnWith(g, "nil") /\ closeDone' = TRUE
    /\ UNCHANGED <<opening, mapped, release, closed, unmaps>>

\* ... and clears it and calls it afterwards.
Unmap_KeepsRelease(g) ==
    /\ Running /\ pc[g] = "unmap"
    /\ mapped' = FALSE /\ unmaps' = unmaps + 1
    /\ ReturnWith(g, "nil") /\ closeDone' = TRUE
    /\ UNCHANGED <<opening, release, closed>>
Unmap(g) ==
    /\ Running /\ pc[g] = "unmap"
    /\ release' = FALSE /\ mapped' = FALSE /\ unmaps' = unmaps + 1
    /\ ReturnWith(g, "nil") /\ closeDone' = TRUE
    /\ UNCHANGED <<opening, closed>>

Next ==
    /\ UNCHANGED careful
    /\ \/ MapFile \/ Parse \/ NewTokenizer
       \/ \E g \in Goroutines :
             \/ CallAnalyze(g) \/ CheckClosed(g) \/ Read(g) \/ Fault(g)
             \/ CallClose(g) \/ SwapClosed(g) \/ TakeRelease(g) \/ Unmap(g)

\* A call that was made is carried on: the Go scheduler starves no goroutine.
Continue(g) ==
    /\ UNCHANGED careful
    /\ CheckClosed(g) \/ Read(g) \/ SwapClosed(g) \/ TakeRelease(g) \/ Unmap(g)
Spec == Init /\ [][Next]_vars /\ \A g \in Goroutines : WF_vars(Continue(g))

-----------------------------------------------------------------------------
(* Properties *)

\* Every variable has its type.
TypeOK ==
    /\ careful \in BOOLEAN
    /\ opening \in {"start", "mapped", "parsed", "ready", "failed", "dead"}
    /\ mapped \in BOOLEAN /\ release \in BOOLEAN /\ closed \in BOOLEAN
    /\ pc \in [Goroutines -> {"idle", "analyze", "read", "close", "release", "unmap"}]
    /\ answer \in [Goroutines -> {"none", "late", "errClosed", "morphemes", "nil"}]
    /\ unmaps \in Nat /\ closeDone \in BOOLEAN
    /\ release => mapped

\* Callers that never run Close and Analyze at the same time never read the
\* dictionary after it is unmapped, although the flag is only checked at the
\* start of an analysis (sudachin.go:94, 104).
ReadsMapped == careful => \A g \in Goroutines : pc[g] = "read" => mapped

\* However many goroutines close the Analyzer, the file is unmapped once
\* (sudachin.go:96): the second munmap could hit a mapping made since.
ReleasedOnce == unmaps <= 1

\* An analysis called after some Close has returned, even one that only found
\* another Close at work, reads nothing and gets ErrClosed (sudachin.go:93).
LateAnalyzeRefused == \A g \in Goroutines : answer[g] = "late" => pc[g] = "analyze"

\* A Close that has begun ends with the file unmapped, whoever does it.
CloseReleases == (\E g \in Goroutines : InClose(g)) ~> ~mapped

\* An Open that failed leaves nothing mapped: its caller has no Dictionary to
\* close (dictionary.go:54, "Close it when done"). It does not hold.
FailedOpenHoldsNothing == opening = "failed" => ~mapped
=============================================================================
