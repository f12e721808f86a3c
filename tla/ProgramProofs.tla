--------------------------- MODULE ProgramProofs ---------------------------
(***************************************************************************)
(* What surrounds the analysis of a text. For any set of goroutines: the    *)
(* dictionary is read only while it is mapped when the callers are careful, *)
(* and it is unmapped at most once and refused to late callers whether they *)
(* are or not. For any inputs, buffer and failing calls: the command stops  *)
(* where it is, closes what it has opened, and loses, repeats and moves     *)
(* nothing of what it has analysed. For any char.def: the table is what its *)
(* lines say. For any dictionary and definitions: Open makes the parts they *)
(* ask for, ones the dictionary can serve, or fails and closes it.          *)
(***************************************************************************)
EXTENDS Program, SequenceLemmas

-----------------------------------------------------------------------------
(* The life of the Analyzer (Analyzer)                                      *)

\* Nothing runs before Open has returned, and Open that is under way has
\* released nothing.
OpenAlone ==
    /\ opening \in {"start", "mapped", "parsed", "failed"} =>
          ~closed /\ \A g \in Goroutines : pc[g] = "idle"
    /\ opening \in {"start", "mapped", "parsed"} => unmaps = 0
    /\ opening = "mapped" => mapped
    /\ opening = "parsed" => release

\* The flag is set before anything is released, and a Close returns after that.
FlagFirst ==
    /\ opening = "ready" /\ ~closed => release /\ unmaps = 0
    /\ closeDone => closed
    /\ unmaps <= 1

\* At most one goroutine is past the swap, and it finds the file mapped.
OneReleaser ==
    \A g \in Goroutines : pc[g] \in {"release", "unmap"} =>
        /\ closed /\ unmaps = 0
        /\ \A h \in Goroutines : pc[h] \in {"release", "unmap"} => h = g

\* A late caller has not got past the check, which will refuse it.
LateFindsFlag == \A g \in Goroutines : answer[g] = "late" => pc[g] = "analyze" /\ closed

\* Careful callers: no analysis overlaps a Close.
Apart == careful => \A g, h \in Goroutines : InClose(g) => pc[h] \notin {"analyze", "read"}

LifeInv == TypeOK /\ OpenAlone /\ FlagFirst /\ OneReleaser /\ LateFindsFlag /\ Apart /\ ReadsMapped

-----------------------------------------------------------------------------
LEMMA InitLifeInv == Init => LifeInv
<1> SUFFICES ASSUME Init PROVE LifeInv
    OBVIOUS
<1>1. TypeOK
      BY DEF Init, TypeOK
<1>2. OpenAlone /\ FlagFirst /\ OneReleaser
      BY DEF Init, OpenAlone, FlagFirst, OneReleaser
<1>3. LateFindsFlag /\ Apart /\ ReadsMapped
      BY DEF Init, LateFindsFlag, Apart, ReadsMapped, InClose
<1> QED BY <1>1, <1>2, <1>3 DEF LifeInv

\* Every step preserves LifeInv. Only the swap lets a goroutine release the file,
\* and only a goroutine past it unmaps the file.
LEMMA NextLifeInv == LifeInv /\ [Next]_vars => LifeInv'
<1> SUFFICES ASSUME LifeInv, [Next]_vars PROVE LifeInv'
    OBVIOUS
<1> USE DEF LifeInv
<1>0. careful' = careful
      BY DEF Next, vars
<1>1. CASE MapFile
  <2> USE DEF MapFile, calls
  <2>1. TypeOK'
        BY <1>0, <1>1 DEF TypeOK
  <2>2. OpenAlone'
        BY <1>1 DEF OpenAlone
  <2>3. FlagFirst'
        BY <1>1 DEF FlagFirst, OpenAlone, OneReleaser, TypeOK
  <2>4. OneReleaser'
        BY <1>1 DEF TypeOK, OneReleaser, FlagFirst, OpenAlone
  <2>5. LateFindsFlag'
        BY <1>1 DEF TypeOK, LateFindsFlag, FlagFirst, OpenAlone
  <2>6. Apart'
        BY <1>0, <1>1 DEF TypeOK, Apart, InClose, OpenAlone
  <2>7. ReadsMapped'
        BY <1>0, <1>1 DEF TypeOK, ReadsMapped, Apart, InClose, FlagFirst, OpenAlone
  <2> QED BY <2>1, <2>2, <2>3, <2>4, <2>5, <2>6, <2>7
<1>2. CASE Parse
  <2> USE DEF Parse, calls
  <2>1. TypeOK'
        BY <1>0, <1>2 DEF TypeOK, OpenAlone
  <2>2. OpenAlone'
        BY <1>2 DEF OpenAlone
  <2>3. FlagFirst'
        BY <1>2 DEF FlagFirst, OpenAlone, OneReleaser, TypeOK
  <2>4. OneReleaser'
        BY <1>2 DEF TypeOK, OneReleaser, FlagFirst, OpenAlone
  <2>5. LateFindsFlag'
        BY <1>2 DEF TypeOK, LateFindsFlag, FlagFirst, OpenAlone
  <2>6. Apart'
        BY <1>0, <1>2 DEF TypeOK, Apart, InClose, OpenAlone
  <2>7. ReadsMapped'
        BY <1>0, <1>2 DEF TypeOK, ReadsMapped, Apart, InClose, FlagFirst, OpenAlone
  <2> QED BY <2>1, <2>2, <2>3, <2>4, <2>5, <2>6, <2>7
<1>3. CASE NewTokenizer
  <2> USE DEF NewTokenizer, calls
  <2>0. CASE opening' = "ready" /\ UNCHANGED <<mapped, release, unmaps>>
    <3>1. TypeOK'
          BY <1>0, <1>3, <2>0 DEF TypeOK
    <3>2. OpenAlone' /\ OneReleaser' /\ LateFindsFlag'
          BY <1>3, <2>0 DEF OpenAlone, OneReleaser, LateFindsFlag
    <3>3. FlagFirst'
      <4>1. release'
            BY <1>3, <2>0 DEF OpenAlone
      <4>2. unmaps' = 0 /\ closeDone' = closeDone /\ closed' = closed
            BY <1>3, <2>0 DEF OpenAlone
      <4> QED BY <4>1, <4>2 DEF FlagFirst
    <3>4. Apart' /\ ReadsMapped'
          BY <1>0, <1>3, <2>0 DEF Apart, InClose, ReadsMapped
    <3> QED BY <3>1, <3>2, <3>3, <3>4
  <2>1. CASE opening' = "failed" /\ release' = FALSE /\ mapped' = FALSE /\ unmaps' = unmaps + 1
    <3>1. TypeOK'
      <4>1. unmaps' \in Nat
            BY <2>1 DEF TypeOK
      <4>2. UNCHANGED <<closed, pc, answer, closeDone>>
            BY <1>0, <1>3
      <4> QED BY <1>0, <4>1, <4>2, <2>1, Zenon DEF TypeOK
    <3>2. OpenAlone' /\ OneReleaser' /\ LateFindsFlag'
          BY <1>3, <2>1 DEF OpenAlone, OneReleaser, LateFindsFlag
    <3>3. FlagFirst'
          BY <1>3, <2>1 DEF FlagFirst, OpenAlone
    <3>4. Apart' /\ ReadsMapped'
          BY <1>0, <1>3, <2>1 DEF Apart, InClose, ReadsMapped, OpenAlone
    <3> QED BY <3>1, <3>2, <3>3, <3>4
  <2> QED BY <1>3, <2>0, <2>1
<1>4. ASSUME NEW g \in Goroutines, CallAnalyze(g) PROVE LifeInv'
  <2> USE DEF CallAnalyze, Running, MayAnalyze, Goto
  <2>1. TypeOK'
        BY <1>0, <1>4 DEF TypeOK
  <2>2. OpenAlone'
        BY <1>4 DEF OpenAlone
  <2>3. FlagFirst'
        BY <1>4 DEF FlagFirst, OpenAlone, OneReleaser, TypeOK
  <2>4. OneReleaser'
        BY <1>4 DEF TypeOK, OneReleaser, FlagFirst, OpenAlone
  <2>5. LateFindsFlag'
        BY <1>4 DEF TypeOK, LateFindsFlag, FlagFirst, OpenAlone
  <2>6. Apart'
        BY <1>0, <1>4 DEF TypeOK, Apart, InClose, OpenAlone
  <2>7. ReadsMapped'
        BY <1>0, <1>4 DEF TypeOK, ReadsMapped, Apart, InClose, FlagFirst, OpenAlone
  <2> QED BY <2>1, <2>2, <2>3, <2>4, <2>5, <2>6, <2>7
<1>5. ASSUME NEW g \in Goroutines, CheckClosed(g) PROVE LifeInv'
  <2> USE DEF CheckClosed, Running, Goto, ReturnWith
  <2>1. TypeOK'
        BY <1>0, <1>5 DEF TypeOK
  <2>2. OpenAlone'
        BY <1>5 DEF OpenAlone
  <2>3. FlagFirst'
        BY <1>5 DEF FlagFirst, OpenAlone, OneReleaser, TypeOK
  <2>4. OneReleaser'
        BY <1>5 DEF TypeOK, OneReleaser, FlagFirst, OpenAlone
  <2>5. LateFindsFlag'
        BY <1>5 DEF TypeOK, LateFindsFlag, FlagFirst, OpenAlone
  <2>6. Apart'
        BY <1>0, <1>5 DEF TypeOK, Apart, InClose, OpenAlone
  <2>7. ReadsMapped'
        BY <1>0, <1>5 DEF TypeOK, ReadsMapped, Apart, InClose, FlagFirst, OpenAlone
  <2> QED BY <2>1, <2>2, <2>3, <2>4, <2>5, <2>6, <2>7
<1>6. ASSUME NEW g \in Goroutines, Read(g) PROVE LifeInv'
  <2> USE DEF Read, Running, Goto, ReturnWith
  <2>1. TypeOK'
        BY <1>0, <1>6 DEF TypeOK
  <2>2. OpenAlone'
        BY <1>6 DEF OpenAlone
  <2>3. FlagFirst'
        BY <1>6 DEF FlagFirst, OpenAlone, OneReleaser, TypeOK
  <2>4. OneReleaser'
        BY <1>6 DEF TypeOK, OneReleaser, FlagFirst, OpenAlone
  <2>5. LateFindsFlag'
        BY <1>6 DEF TypeOK, LateFindsFlag, FlagFirst, OpenAlone
  <2>6. Apart'
        BY <1>0, <1>6 DEF TypeOK, Apart, InClose, OpenAlone
  <2>7. ReadsMapped'
        BY <1>0, <1>6 DEF TypeOK, ReadsMapped, Apart, InClose, FlagFirst, OpenAlone
  <2> QED BY <2>1, <2>2, <2>3, <2>4, <2>5, <2>6, <2>7
<1>7. ASSUME NEW g \in Goroutines, Fault(g) PROVE LifeInv'
  <2> USE DEF Fault, Running, calls
  <2>1. TypeOK'
        BY <1>0, <1>7 DEF TypeOK
  <2>2. OpenAlone'
        BY <1>7 DEF OpenAlone
  <2>3. FlagFirst'
        BY <1>7 DEF FlagFirst, OpenAlone, OneReleaser, TypeOK
  <2>4. OneReleaser'
        BY <1>7 DEF TypeOK, OneReleaser, FlagFirst, OpenAlone
  <2>5. LateFindsFlag'
        BY <1>7 DEF TypeOK, LateFindsFlag, FlagFirst, OpenAlone
  <2>6. Apart'
        BY <1>0, <1>7 DEF TypeOK, Apart, InClose, OpenAlone
  <2>7. ReadsMapped'
        BY <1>0, <1>7 DEF TypeOK, ReadsMapped, Apart, InClose, FlagFirst, OpenAlone
  <2> QED BY <2>1, <2>2, <2>3, <2>4, <2>5, <2>6, <2>7
<1>8. ASSUME NEW g \in Goroutines, CallClose(g) PROVE LifeInv'
  <2> USE DEF CallClose, Running, MayClose, Goto
  <2>1. TypeOK'
        BY <1>0, <1>8 DEF TypeOK
  <2>2. OpenAlone'
        BY <1>8 DEF OpenAlone
  <2>3. FlagFirst'
        BY <1>8 DEF FlagFirst, OpenAlone, OneReleaser, TypeOK
  <2>4. OneReleaser'
        BY <1>8 DEF TypeOK, OneReleaser, FlagFirst, OpenAlone
  <2>5. LateFindsFlag'
        BY <1>8 DEF TypeOK, LateFindsFlag, FlagFirst, OpenAlone
  <2>6. Apart'
        BY <1>0, <1>8 DEF TypeOK, Apart, InClose, OpenAlone
  <2>7. ReadsMapped'
        BY <1>0, <1>8 DEF TypeOK, ReadsMapped, Apart, InClose, FlagFirst, OpenAlone
  <2> QED BY <2>1, <2>2, <2>3, <2>4, <2>5, <2>6, <2>7
<1>9. ASSUME NEW g \in Goroutines, SwapClosed(g) PROVE LifeInv'
  <2> USE DEF SwapClosed, Running, Goto, ReturnWith
  <2>1. TypeOK'
        BY <1>0, <1>9 DEF TypeOK
  <2>2. OpenAlone'
        BY <1>9 DEF OpenAlone
  <2>3. FlagFirst'
        BY <1>9 DEF FlagFirst, OpenAlone, OneReleaser, TypeOK
  <2>4. OneReleaser'
        BY <1>9 DEF TypeOK, OneReleaser, FlagFirst, OpenAlone
  <2>5. LateFindsFlag'
        BY <1>9 DEF TypeOK, LateFindsFlag, FlagFirst, OpenAlone
  <2>6. Apart'
        BY <1>0, <1>9 DEF TypeOK, Apart, InClose, OpenAlone
  <2>7. ReadsMapped'
        BY <1>0, <1>9 DEF TypeOK, ReadsMapped, Apart, InClose, FlagFirst, OpenAlone
  <2> QED BY <2>1, <2>2, <2>3, <2>4, <2>5, <2>6, <2>7
<1>10. ASSUME NEW g \in Goroutines, TakeRelease(g) PROVE LifeInv'
  <2> USE DEF TakeRelease, Running, Goto, ReturnWith
  <2>1. TypeOK'
        BY <1>0, <1>10 DEF TypeOK
  <2>2. OpenAlone'
        BY <1>10 DEF OpenAlone
  <2>3. FlagFirst'
        BY <1>10 DEF FlagFirst, OpenAlone, OneReleaser, TypeOK
  <2>4. OneReleaser'
        BY <1>10 DEF TypeOK, OneReleaser, FlagFirst, OpenAlone
  <2>5. LateFindsFlag'
        BY <1>10 DEF TypeOK, LateFindsFlag, FlagFirst, OpenAlone
  <2>6. Apart'
        BY <1>0, <1>10 DEF TypeOK, Apart, InClose, OpenAlone
  <2>7. ReadsMapped'
        BY <1>0, <1>10 DEF TypeOK, ReadsMapped, Apart, InClose, FlagFirst, OpenAlone
  <2> QED BY <2>1, <2>2, <2>3, <2>4, <2>5, <2>6, <2>7
<1>11. ASSUME NEW g \in Goroutines, Unmap(g) PROVE LifeInv'
  <2>1. TypeOK'
    <3>1. unmaps' \in Nat
          BY <1>11 DEF Unmap, TypeOK
    <3>2. /\ pc' = [pc EXCEPT ![g] = "idle"] /\ answer' = [answer EXCEPT ![g] = "nil"]
          /\ mapped' = FALSE /\ release' = FALSE /\ closeDone' = TRUE
          /\ opening' = opening /\ closed' = closed
          BY <1>11 DEF Unmap, Goto, ReturnWith
    <3>3. pc' \in [Goroutines -> {"idle", "analyze", "read", "close", "release", "unmap"}]
          BY <3>2 DEF TypeOK
    <3>4. answer' \in [Goroutines -> {"none", "late", "errClosed", "morphemes", "nil"}]
          BY <3>2 DEF TypeOK
    <3> QED BY <1>0, <3>1, <3>2, <3>3, <3>4, Zenon DEF TypeOK
  <2>2. OpenAlone'
        BY <1>11 DEF Unmap, Running, Goto, ReturnWith, OpenAlone
  <2>3. FlagFirst'
        BY <1>11 DEF Unmap, Running, Goto, ReturnWith, FlagFirst, OpenAlone, OneReleaser, TypeOK
  <2>4. OneReleaser'
        BY <1>11 DEF Unmap, Running, Goto, ReturnWith, TypeOK, OneReleaser, FlagFirst, OpenAlone
  <2>5. LateFindsFlag'
        BY <1>11 DEF Unmap, Running, Goto, ReturnWith, TypeOK, LateFindsFlag, FlagFirst, OpenAlone
  <2>6. Apart'
        BY <1>0, <1>11 DEF Unmap, Running, Goto, ReturnWith, TypeOK, Apart, InClose, OpenAlone
  <2>7. ReadsMapped'
        BY <1>0, <1>11
           DEF Unmap, Running, Goto, ReturnWith, TypeOK, ReadsMapped, Apart, InClose, FlagFirst,
                        OpenAlone
  <2> QED BY <2>1, <2>2, <2>3, <2>4, <2>5, <2>6, <2>7
<1>12. CASE UNCHANGED vars
       BY <1>0, <1>12 DEF vars, TypeOK, OpenAlone, FlagFirst, OneReleaser, LateFindsFlag, Apart,
                    ReadsMapped, InClose
<1> QED BY <1>1, <1>2, <1>3, <1>4, <1>5, <1>6, <1>7, <1>8, <1>9, <1>10, <1>11, <1>12
        DEF Next

LEMMA SpecLifeInv == Spec => []LifeInv
BY InitLifeInv, NextLifeInv, PTL DEF Spec

\* Careful callers never read the dictionary after it is unmapped.
THEOREM SpecReadsMapped == Spec => []ReadsMapped
<1>1. LifeInv => ReadsMapped
      BY DEF LifeInv
<1> QED BY <1>1, SpecLifeInv, PTL

\* The file is unmapped at most once, in whatever order goroutines close.
THEOREM SpecReleasedOnce == Spec => []ReleasedOnce
<1>1. LifeInv => ReleasedOnce
      BY DEF LifeInv, FlagFirst, ReleasedOnce
<1> QED BY <1>1, SpecLifeInv, PTL

\* An analysis called after a Close has returned is refused.
THEOREM SpecLateAnalyzeRefused == Spec => []LateAnalyzeRefused
<1>1. LifeInv => LateAnalyzeRefused
      BY DEF LifeInv, LateFindsFlag, LateAnalyzeRefused
<1> QED BY <1>1, SpecLifeInv, PTL

-----------------------------------------------------------------------------
(* The command (CommandLine)                                                *)

(* What is open and what has failed, wherever run is. While inputs are read   *)
(* the analyser is open, and the output if there is one; from the flush on    *)
(* one after the other is closed.                                           *)

Started == step \in {"flags", "analyzer"} => open = {} /\ ~failed
Reading == step \in {"output", "input", "lines", "write"} => ~failed
Needed ==
    /\ step \in {"output", "input", "lines", "write", "closeInput", "flush"} => "analyzer" \in open
    /\ step \in {"input", "lines", "write", "closeInput", "flush"} /\ hasOutput => "output" \in open
NoMore ==
    /\ open \subseteq {"analyzer", "output", "input"}
    /\ step \in {"output", "input", "flush", "closeOutput", "closeAnalyzer", "exit"} =>
           "input" \notin open
    /\ step \in {"output", "closeAnalyzer", "exit"} => "output" \notin open
    /\ step = "exit" => "analyzer" \notin open

OpenInv == Started /\ Reading /\ Needed /\ NoMore

LEMMA InitOpenInv == CommandInit => OpenInv
BY DEF CommandInit, OpenInv, Started, Reading, Needed, NoMore

\* One step of run, its effect on what is open, and what it may not do.
Orderly ==
    /\ step' \in {"lines", "write"} => "analyzer" \in open'
    /\ sink' # sink /\ hasOutput => "output" \in open
    /\ step' = "exit" => open' = {}
    /\ failed => UNCHANGED <<file, line>>

\* Each step of run and of what it calls keeps the invariant and is orderly.
LEMMA StepOpenInv ==
    ASSUME OpenInv, CommandNext
    PROVE  OpenInv' /\ Orderly
<1> USE DEF OpenInv, Started, Reading, Needed, NoMore, Orderly, Proceed, Fail, read, writer
<1>1. CASE ParseFlags
  BY <1>1 DEF ParseFlags
<1>2. CASE OpenAnalyzer
  <2>1. step = "analyzer" /\ open = {} /\ ~failed /\ UNCHANGED <<file, line, sink, hasOutput>>
    BY <1>2 DEF OpenAnalyzer
  <2>2. CASE step' = "output" /\ open' = {"analyzer"} /\ UNCHANGED failed
    BY <2>1, <2>2
  <2>3. CASE step' = "exit" /\ open' = open
    BY <2>1, <2>3
  <2> QED BY <2>2, <2>3, <1>2 DEF OpenAnalyzer
<1>3. CASE CreateOutput
  <2>1. step = "output" /\ open \subseteq {"analyzer"} /\ "analyzer" \in open /\ ~failed
        /\ UNCHANGED <<file, line, sink, hasOutput>>
    BY <1>3 DEF CreateOutput
  <2>2. CASE step' = "input" /\ ~hasOutput /\ UNCHANGED <<failed, open>>
    BY <2>1, <2>2
  <2>3. CASE step' = "input" /\ open' = open \cup {"output"} /\ UNCHANGED failed
    BY <2>1, <2>3
  <2>4. CASE step' = "closeAnalyzer" /\ UNCHANGED open
    BY <2>1, <2>4
  <2> QED BY <2>2, <2>3, <2>4, <1>3 DEF CreateOutput, WithoutOutput
<1>4. CASE OpenInput
  <2>1. step = "input" /\ ~failed /\ UNCHANGED <<file, line, sink, hasOutput>>
    BY <1>4 DEF OpenInput
  <2>2. CASE step' = "lines" /\ open' = open \cup {"input"} /\ UNCHANGED failed
    BY <2>1, <2>2
  <2>3. CASE step' \in {"lines", "flush"} /\ UNCHANGED open /\ (step' = "lines" => UNCHANGED failed)
    BY <2>1, <2>3
  <2> QED BY <2>2, <2>3, <1>4 DEF OpenInput
<1>5. CASE NoInput
  BY <1>5 DEF NoInput
<1>6. CASE AnalyzeLine
  BY <1>6 DEF AnalyzeLine
<1>7. CASE ScanEnds
  BY <1>7 DEF ScanEnds
<1>8. CASE MakeRoom
  BY <1>8 DEF MakeRoom
<1>9. CASE WritePiece
  BY <1>9 DEF WritePiece
<1>10. CASE CloseInput
  BY <1>10 DEF CloseInput, AfterFile
<1>11. CASE FlushWriter
  BY <1>11 DEF FlushWriter, Flush
<1>12. CASE CloseOutput
  BY <1>12 DEF CloseOutput
<1>13. CASE CloseAnalyzer
  BY <1>13 DEF CloseAnalyzer
<1> QED BY <1>1, <1>2, <1>3, <1>4, <1>5, <1>6, <1>7, <1>8, <1>9, <1>10, <1>11,
           <1>12, <1>13 DEF CommandNext

LEMMA StutterOpenInv == OpenInv /\ UNCHANGED commandVars => OpenInv'
BY DEF OpenInv, Started, Reading, Needed, NoMore, commandVars, read, writer

LEMMA AlwaysOpen == CommandSpec => []OpenInv
<1>1. OpenInv /\ [CommandNext]_commandVars => OpenInv'
  BY StepOpenInv, StutterOpenInv
<1> QED BY InitOpenInv, <1>1, PTL DEF CommandSpec

\* For any inputs and a buffer of any size: the analyser is open for every line
\* and the output for every write, nothing is open when the command exits, and
\* no line is analysed after a failure (main.go:66).
THEOREM SpecStopsInOrder == CommandSpec => StopsInOrder
<1>1. OpenInv /\ [CommandNext]_commandVars => OpenInv'
  BY StepOpenInv, StutterOpenInv
<1>2. OpenInv /\ [CommandNext]_commandVars =>
        [/\ step' \in {"lines", "write"} => "analyzer" \in open'
         /\ sink' # sink /\ hasOutput => "output" \in open
         /\ step' = "exit" => open' = {}]_commandVars
  BY StepOpenInv DEF Orderly
<1>3. OpenInv /\ [CommandNext]_commandVars => [failed => UNCHANGED <<file, line>>]_commandVars
  BY StepOpenInv DEF Orderly
<1> QED BY InitOpenInv, <1>1, <1>2, <1>3, PTL
       DEF CommandSpec, StopsInOrder, OpenWhileUsed, StopsAtFailure

-----------------------------------------------------------------------------
(* What is written, as sequences                                            *)

Triple == Nat \X Nat \X Nat

LEMMA PiecesStep ==
    ASSUME NEW f \in Nat, NEW l \in Nat, NEW p \in Nat
    PROVE  /\ PiecesOf(f, l, p) \in Seq(Triple)
           /\ PiecesOf(f, l, 0) = <<>>
           /\ PiecesOf(f, l, p + 1) = Append(PiecesOf(f, l, p), <<f, l, p + 1>>)
<1>1. \A q \in Nat : PiecesOf(f, l, q) \in Seq(Triple) /\ Len(PiecesOf(f, l, q)) = q
  BY DEF PiecesOf, Triple
<1>2. PiecesOf(f, l, 0) = <<>>
  BY <1>1, EmptySeq
<1> DEFINE a == PiecesOf(f, l, p + 1)
           b == Append(PiecesOf(f, l, p), <<f, l, p + 1>>)
<1>3. <<f, l, p + 1>> \in Triple
  BY DEF Triple
<1>4. /\ b \in Seq(Triple) /\ Len(b) = p + 1 /\ b[p + 1] = <<f, l, p + 1>>
      /\ \A i \in 1 .. p : b[i] = PiecesOf(f, l, p)[i]
  <2> DEFINE s == PiecesOf(f, l, p)
             x == <<f, l, p + 1>>
  <2>1. s \in Seq(Triple) /\ Len(s) = p /\ x \in Triple
    BY <1>1, <1>3
  <2> HIDE DEF s, x, Triple
  <2>2. /\ Append(s, x) \in Seq(Triple) /\ Len(Append(s, x)) = Len(s) + 1
        /\ \A i \in 1 .. Len(s) : Append(s, x)[i] = s[i]
        /\ Append(s, x)[Len(s) + 1] = x
    BY <2>1, AppendProperties
  <2>3. /\ Append(s, x) \in Seq(Triple) /\ Len(Append(s, x)) = p + 1
        /\ Append(s, x)[p + 1] = x /\ \A i \in 1 .. p : Append(s, x)[i] = s[i]
    BY <2>1, <2>2
  <2> QED BY <2>3 DEF s, x
<1>5. a \in Seq(Triple) /\ Len(a) = p + 1
  BY <1>1
<1>6. \A i \in 1 .. p + 1 : a[i] = <<f, l, i>>
  BY DEF PiecesOf
<1>7. \A i \in 1 .. p : PiecesOf(f, l, p)[i] = <<f, l, i>>
  BY DEF PiecesOf
<1>8. \A i \in 1 .. p + 1 : a[i] = b[i]
  <2> HIDE DEF a, b
  <2> SUFFICES ASSUME NEW i \in 1 .. p + 1 PROVE a[i] = b[i]
    OBVIOUS
  <2>1. CASE i = p + 1
    BY <2>1, <1>4, <1>6
  <2>2. CASE i # p + 1
    <3>1. i \in 1 .. p
      BY <2>2
    <3> QED BY <3>1, <1>4, <1>6, <1>7
  <2> QED BY <2>1, <2>2
<1>9. a = b
  <2> HIDE DEF a, b
  <2> QED BY <1>4, <1>5, <1>8, SeqEqual
<1> QED BY <1>1, <1>2, <1>9

\* The lines of an input, one after the other.
LEMMA LinesStep ==
    ASSUME inputs \in Seq(Seq(Nat)), NEW f \in 1 .. Len(inputs), NEW l \in 0 .. Len(inputs[f])
    PROVE  /\ LinesOf(f, l) \in Seq(Triple)
           /\ l < Len(inputs[f]) =>
                 LinesOf(f, l + 1) = LinesOf(f, l) \o PiecesOf(f, l + 1, inputs[f][l + 1])
<1>1. inputs[f] \in Seq(Nat) /\ f \in Nat
  BY ElementOfSeq
<1>2. Len(inputs[f]) \in Nat /\ \A k \in 1 .. Len(inputs[f]) : inputs[f][k] \in Nat
  BY <1>1, ElementOfSeq, LenProperties
<1> DEFINE S(m) == [k \in 1 .. m |-> PiecesOf(f, k, inputs[f][k])]
<1>3. ASSUME NEW m \in 0 .. Len(inputs[f])
      PROVE  S(m) \in Seq(Seq(Triple)) /\ Len(S(m)) = m /\ m \in Nat
  <2>1. ASSUME NEW k \in 1 .. m
        PROVE  PiecesOf(f, k, inputs[f][k]) \in Seq(Triple)
    <3>1. k \in Nat /\ inputs[f][k] \in Nat
      BY <1>2
    <3> QED BY <1>1, <3>1, PiecesStep
  <2>2. m \in Nat
    BY <1>2
  <2> DEFINE e(k) == PiecesOf(f, k, inputs[f][k])
             T == Seq(Triple)
  <2>3. \A k \in 1 .. m : e(k) \in T
    BY <2>1
  <2>4. S(m) = [k \in 1 .. m |-> e(k)]
    OBVIOUS
  <2> HIDE DEF e, T, S
  <2>5. S(m) \in [1 .. m -> T] /\ DOMAIN S(m) = 1 .. m
    BY <2>3, <2>4
  <2>6. S(m) \in Seq(T) /\ Len(S(m)) = m
    BY <2>2, <2>5
  <2> QED BY <2>2, <2>6 DEF T
<1>4. \A m : LinesOf(f, m) = FlattenSeq(S(m))
  BY DEF LinesOf
<1>5. FlattenSeq(S(l)) \in Seq(Triple)
  BY <1>3, FlattenElements
<1>6. ASSUME l < Len(inputs[f])
      PROVE  FlattenSeq(S(l + 1)) = FlattenSeq(S(l)) \o S(l + 1)[l + 1]
  <2>1. l + 1 \in 0 .. Len(inputs[f]) /\ l \in Nat
    BY <1>2, <1>6
  <2>2. /\ S(l) \in Seq(Seq(Triple)) /\ Len(S(l)) = l
        /\ S(l + 1) \in Seq(Seq(Triple)) /\ Len(S(l + 1)) = l + 1
    BY <1>3, <2>1
  <2>3. \A i \in 1 .. l : S(l + 1)[i] = S(l)[i]
    BY <2>1
  <2> HIDE DEF S
  <2> QED BY <2>1, <2>2, <2>3, FlattenAppend
<1>7. l < Len(inputs[f]) => S(l + 1)[l + 1] = PiecesOf(f, l + 1, inputs[f][l + 1])
  BY <1>2
<1> QED BY <1>4, <1>5, <1>6, <1>7

LEMMA NoLines == \A f : LinesOf(f, 0) = <<>> /\ InputsUpTo(0) = <<>>
<1>1. ASSUME NEW s, s = <<>> PROVE FlattenSeq(s) = <<>>
  BY <1>1 DEF FlattenSeq
<1>2. ASSUME NEW f PROVE [k \in 1 .. 0 |-> PiecesOf(f, k, inputs[f][k])] = <<>>
  OBVIOUS
<1>3. [k \in 1 .. 0 |-> LinesOf(k, Len(inputs[k]))] = <<>>
  OBVIOUS
<1> QED BY <1>1, <1>2, <1>3 DEF LinesOf, InputsUpTo

\* The inputs, one after the other.
LEMMA InputsStep ==
    ASSUME inputs \in Seq(Seq(Nat)), NEW f \in 0 .. Len(inputs)
    PROVE  /\ InputsUpTo(f) \in Seq(Triple)
           /\ f < Len(inputs) =>
                 InputsUpTo(f + 1) = InputsUpTo(f) \o LinesOf(f + 1, Len(inputs[f + 1]))
<1> DEFINE S(m) == [k \in 1 .. m |-> LinesOf(k, Len(inputs[k]))]
<1>1. ASSUME NEW k \in 1 .. Len(inputs)
      PROVE  LinesOf(k, Len(inputs[k])) \in Seq(Triple)
  <2>1. Len(inputs[k]) \in 0 .. Len(inputs[k])
    BY ElementOfSeq, LenProperties
  <2> QED BY <2>1, LinesStep
<1>2. ASSUME NEW m \in 0 .. Len(inputs)
      PROVE  S(m) \in Seq(Seq(Triple)) /\ Len(S(m)) = m /\ m \in Nat
  BY <1>1
<1>3. \A m : InputsUpTo(m) = FlattenSeq(S(m))
  BY DEF InputsUpTo
<1>4. FlattenSeq(S(f)) \in Seq(Triple)
  BY <1>2, FlattenElements
<1>5. ASSUME f < Len(inputs)
      PROVE  FlattenSeq(S(f + 1)) = FlattenSeq(S(f)) \o S(f + 1)[f + 1]
  <2>1. f + 1 \in 0 .. Len(inputs) /\ f \in Nat
    BY <1>5
  <2>2. /\ S(f) \in Seq(Seq(Triple)) /\ Len(S(f)) = f
        /\ S(f + 1) \in Seq(Seq(Triple)) /\ Len(S(f + 1)) = f + 1
    BY <1>2, <2>1
  <2>3. \A i \in 1 .. f : S(f + 1)[i] = S(f)[i]
    BY <2>1
  <2> HIDE DEF S
  <2> QED BY <2>1, <2>2, <2>3, FlattenAppend
<1>6. f < Len(inputs) => S(f + 1)[f + 1] = LinesOf(f + 1, Len(inputs[f + 1]))
  OBVIOUS
<1> QED BY <1>3, <1>4, <1>5, <1>6

\* One piece more, the end of a line and the end of an input.
LEMMA WrittenStep ==
    ASSUME inputs \in Seq(Seq(Nat)), NEW f \in 0 .. Len(inputs),
           NEW l \in Nat, NEW p \in Nat,
           (f < Len(inputs) /\ l <= Len(inputs[f + 1])) \/ l = 0
    PROVE  /\ Written(f, l, p) \in Seq(Triple)
           /\ Written(f, l, p + 1) = Append(Written(f, l, p), <<f + 1, l + 1, p + 1>>)
           /\ f < Len(inputs) /\ l < Len(inputs[f + 1]) =>
                 Written(f, l + 1, 0) = Written(f, l, inputs[f + 1][l + 1])
           /\ f < Len(inputs) => Written(f + 1, 0, 0) = Written(f, Len(inputs[f + 1]), 0)
<1>1. f \in Nat /\ Len(inputs) \in Nat
  BY LenProperties
<1>2. InputsUpTo(f) \in Seq(Triple)
  BY InputsStep
<1>3. LinesOf(f + 1, l) \in Seq(Triple)
  <2>1. CASE l = 0
    <3>1. LinesOf(f + 1, 0) = <<>> /\ <<>> \in Seq(Triple)
      BY NoLines, EmptySeq
    <3> QED BY <2>1, <3>1
  <2>2. CASE f < Len(inputs) /\ l <= Len(inputs[f + 1])
    <3>1. f + 1 \in 1 .. Len(inputs) /\ l \in 0 .. Len(inputs[f + 1])
      <4>1. f + 1 \in 1 .. Len(inputs)
        BY <1>1, <2>2
      <4>2. Len(inputs[f + 1]) \in Nat
        BY <4>1, ElementOfSeq, LenProperties
      <4> QED BY <4>1, <4>2, <2>2
    <3> QED BY <3>1, LinesStep
  <2> QED BY <2>1, <2>2
<1> DEFINE before == InputsUpTo(f) \o LinesOf(f + 1, l)
<1>4. before \in Seq(Triple)
  BY <1>2, <1>3, ConcatProperties
<1>5. \A q : Written(f, l, q) = before \o PiecesOf(f + 1, l + 1, q)
  BY DEF Written
<1>6. f + 1 \in Nat /\ l + 1 \in Nat
  BY <1>1
<1>7. /\ \A q \in Nat : PiecesOf(f + 1, l + 1, q) \in Seq(Triple)
      /\ PiecesOf(f + 1, l + 1, p + 1) =
             Append(PiecesOf(f + 1, l + 1, p), <<f + 1, l + 1, p + 1>>)
  BY <1>6, PiecesStep
<1>8. Written(f, l, p) \in Seq(Triple)
  <2> HIDE DEF before
  <2> QED BY <1>4, <1>5, <1>7, ConcatProperties
<1>9. Written(f, l, p + 1) = Append(Written(f, l, p), <<f + 1, l + 1, p + 1>>)
  <2> DEFINE e == <<f + 1, l + 1, p + 1>>
             q == PiecesOf(f + 1, l + 1, p)
  <2>1. e \in Triple
    BY <1>6 DEF Triple
  <2>2. q \in Seq(Triple)
    BY <1>7
  <2>3. Written(f, l, p + 1) = before \o Append(q, e) /\ Written(f, l, p) = before \o q
    BY <1>5, <1>7
  <2> HIDE DEF before, e, q, Triple
  <2>4. Append(q, e) = q \o <<e>> /\ <<e>> \in Seq(Triple)
    BY <2>1, <2>2, AppendIsConcat
  <2>5. before \o (q \o <<e>>) = (before \o q) \o <<e>>
    BY <1>4, <2>2, <2>4, ConcatAssociative
  <2>6. Append(before \o q, e) = (before \o q) \o <<e>>
    BY <1>8, <2>1, <2>3, AppendIsConcat
  <2>7. Written(f, l, p + 1) = Append(Written(f, l, p), e)
    BY <2>3, <2>4, <2>5, <2>6
  <2> QED BY <2>7 DEF e
<1>10. ASSUME f < Len(inputs), l < Len(inputs[f + 1])
       PROVE  Written(f, l + 1, 0) = Written(f, l, inputs[f + 1][l + 1])
  <2>1. f + 1 \in 1 .. Len(inputs)
    BY <1>1, <1>10
  <2>2. inputs[f + 1] \in Seq(Nat)
    BY <2>1, ElementOfSeq
  <2>3. Len(inputs[f + 1]) \in Nat
    BY <2>2, LenProperties
  <2>4. l \in 0 .. Len(inputs[f + 1]) /\ l + 1 \in 0 .. Len(inputs[f + 1])
        /\ l + 1 \in 1 .. Len(inputs[f + 1]) /\ l + 1 + 1 \in Nat
    BY <2>3, <1>10
  <2>5. inputs[f + 1][l + 1] \in Nat
    BY <2>2, <2>4, ElementOfSeq
  <2> DEFINE q == PiecesOf(f + 1, l + 1, inputs[f + 1][l + 1])
  <2>6. q \in Seq(Triple)
    BY <1>7, <2>5
  <2>7. /\ LinesOf(f + 1, l + 1) = LinesOf(f + 1, l) \o q
        /\ LinesOf(f + 1, l + 1) \in Seq(Triple)
    BY <2>1, <2>4, <1>10, LinesStep
  <2>8. PiecesOf(f + 1, l + 1 + 1, 0) = <<>>
    BY <1>6, <2>4, PiecesStep
  <2>9. Written(f, l + 1, 0) = InputsUpTo(f) \o LinesOf(f + 1, l + 1)
    <3>1. InputsUpTo(f) \o LinesOf(f + 1, l + 1) \in Seq(Triple)
      BY <1>2, <2>7, ConcatProperties
    <3> QED BY <3>1, <2>8, ConcatEmptySeq DEF Written
  <2>10. InputsUpTo(f) \o (LinesOf(f + 1, l) \o q) = (InputsUpTo(f) \o LinesOf(f + 1, l)) \o q
    <3> HIDE DEF q
    <3> QED BY <1>2, <1>3, <2>6, ConcatAssociative, SMTT(30)
  <2> QED BY <2>7, <2>9, <2>10, <1>5
<1>11. ASSUME f < Len(inputs)
       PROVE  Written(f + 1, 0, 0) = Written(f, Len(inputs[f + 1]), 0)
  <2> DEFINE n == Len(inputs[f + 1])
  <2>1. f + 1 \in 1 .. Len(inputs) /\ f + 1 \in 0 .. Len(inputs)
    BY <1>1, <1>11
  <2>2. inputs[f + 1] \in Seq(Nat)
    BY <2>1, ElementOfSeq
  <2>3. n \in Nat
    BY <2>2, LenProperties
  <2>4. InputsUpTo(f + 1) = InputsUpTo(f) \o LinesOf(f + 1, n) /\ InputsUpTo(f + 1) \in Seq(Triple)
    BY <2>1, <1>11, InputsStep
  <2>5. PiecesOf(f + 1, n + 1, 0) = <<>> /\ PiecesOf(f + 1 + 1, 0 + 1, 0) = <<>>
    <3>1. f + 1 + 1 \in Nat /\ n + 1 \in Nat /\ 0 + 1 \in Nat
      BY <1>6, <2>3
    <3> HIDE DEF n
    <3> QED BY <3>1, <1>6, PiecesStep
  <2>6. Written(f + 1, 0, 0) = (InputsUpTo(f + 1) \o <<>>) \o <<>>
    BY <2>5, NoLines DEF Written
  <2>7. Written(f, n, 0) = InputsUpTo(f + 1) \o <<>>
    BY <2>4, <2>5 DEF Written
  <2>8. InputsUpTo(f + 1) \o <<>> = InputsUpTo(f + 1)
    BY <2>4, ConcatEmptySeq
  <2> QED BY <2>6, <2>7, <2>8
<1> QED BY <1>8, <1>9, <1>10, <1>11

\* What the system has taken and what the buffer still holds are what they were
\* together, if it took all of it or not.
LEMMA EmitKeeps ==
    ASSUME sink \in Seq(Triple), buffer \in Seq(Triple), Emit
    PROVE  /\ sink' \in Seq(Triple) /\ buffer' \in Seq(Triple)
           /\ sink' \o buffer' = sink \o buffer
           /\ (wrerr' = wrerr /\ buffer' = <<>>) \/ wrerr' = TRUE
<1> HIDE DEF Triple
<1>1. CASE sink' = sink \o buffer /\ buffer' = <<>> /\ UNCHANGED wrerr
  <2>1. sink \o buffer \in Seq(Triple)
    BY ConcatProperties
  <2>2. (sink \o buffer) \o <<>> = sink \o buffer
    BY <2>1, ConcatEmptySeq
  <2> QED BY <1>1, <2>1, <2>2
<1>2. ASSUME NEW n \in 0 .. Len(buffer),
             sink' = sink \o SubSeq(buffer, 1, n),
             buffer' = SubSeq(buffer, n + 1, Len(buffer)),
             wrerr' = TRUE
      PROVE  /\ sink' \in Seq(Triple) /\ buffer' \in Seq(Triple)
             /\ sink' \o buffer' = sink \o buffer
  <2> DEFINE a == SubSeq(buffer, 1, n)
             b == SubSeq(buffer, n + 1, Len(buffer))
  <2>1. Len(buffer) \in Nat /\ n \in Nat
    BY LenProperties
  <2>2. \A i \in 1 .. Len(buffer) : buffer[i] \in Triple
    BY ElementOfSeq
  <2>3. a \in Seq(Triple)
    <3>1. \A i \in 1 .. n : buffer[i] \in Triple
      BY <2>1, <2>2
    <3> QED BY <2>1, <3>1, SubSeqProperties
  <2>4. b \in Seq(Triple)
    <3>1. \A i \in n + 1 .. Len(buffer) : buffer[i] \in Triple
      BY <2>1, <2>2
    <3>2. n + 1 \in Int /\ Len(buffer) \in Int
      BY <2>1
    <3> QED BY <3>1, <3>2, SubSeqProperties
  <2>5. a \o b = buffer
    <3>1. 1 \in 1 .. Len(buffer) + 1 /\ n \in 1 - 1 .. Len(buffer)
          /\ Len(buffer) \in n .. Len(buffer)
      BY <2>1
    <3>2. a \o b = SubSeq(buffer, 1, Len(buffer))
      BY <3>1, ConcatAdjacentSubSeq
    <3> QED BY <3>2, SubSeqFull
  <2> HIDE DEF a, b
  <2>6. (sink \o a) \o b = sink \o (a \o b) /\ sink \o a \in Seq(Triple)
    BY <2>3, <2>4, ConcatAssociative, ConcatProperties
  <2>7. sink' = sink \o a /\ buffer' = b
    BY <1>2 DEF a, b
  <2> QED BY <2>3, <2>4, <2>5, <2>6, <2>7
<1> QED BY <1>1, <1>2 DEF Emit

-----------------------------------------------------------------------------
(* How far the command has come, and what is written by then. A line is       *)
(* begun only while there is one, and given up only when something failed;    *)
(* what no write has refused is out of the buffer once it is flushed.         *)

Typed ==
    /\ inputs \in Seq(Seq(Nat)) /\ file \in 0 .. Len(inputs)
    /\ line \in Nat /\ piece \in Nat
    /\ buffer \in Seq(Triple) /\ sink \in Seq(Triple)
    /\ wrerr \in BOOLEAN /\ failed \in BOOLEAN
Within ==
    /\ step \in {"lines", "write", "closeInput"} => file < Len(inputs) /\ line <= Len(Lines)
    /\ step = "write" => line < Len(Lines) /\ piece < Lines[line + 1]
Between ==
    /\ step \in {"flags", "analyzer", "output"} => file = 0
    /\ step \in {"flags", "analyzer", "output", "input"} => line = 0
    /\ step \in {"flags", "analyzer", "output", "input", "lines"} => piece = 0
Completed ==
    /\ step = "closeInput" /\ ~failed => line = Len(Lines) /\ piece = 0
    /\ step \in {"flush", "closeOutput", "closeAnalyzer", "exit"} /\ ~failed =>
           file = Len(inputs) /\ line = 0 /\ piece = 0
Emptied ==
    /\ wrerr => failed
    /\ step \in {"flags", "analyzer", "output"} => buffer = <<>> /\ sink = <<>>
    /\ step \in {"closeOutput", "closeAnalyzer", "exit"} /\ ~wrerr => buffer = <<>>
\* Where the run is, line and piece are in the input that is read next.
There == (file < Len(inputs) /\ line <= Len(Lines)) \/ line = 0

Progress == Typed /\ Within /\ Between /\ Completed /\ Emptied /\ There /\ InOrder

\* The lines of an input there is are numbers of pieces.
LEMMA LinesThere ==
    ASSUME Typed, file < Len(inputs)
    PROVE  /\ Lines \in Seq(Nat) /\ Len(Lines) \in Nat
           /\ \A k \in 1 .. Len(Lines) : Lines[k] \in Nat
<1>1. inputs \in Seq(Seq(Nat)) /\ file + 1 \in 1 .. Len(inputs)
  BY LenProperties DEF Typed
<1>2. inputs[file + 1] \in Seq(Nat)
  BY <1>1, ElementOfSeq
<1> QED BY <1>2, ElementOfSeq, LenProperties DEF Lines

LEMMA InitProgress == CommandInit => Progress
<1> SUFFICES ASSUME CommandInit PROVE Progress
  OBVIOUS
<1>1. Typed /\ file = 0 /\ line = 0 /\ piece = 0 /\ buffer = <<>> /\ sink = <<>>
  <2>1. inputs \in Seq(Seq(Nat)) /\ Len(inputs) \in Nat
    BY CommandAssumption, LenProperties DEF CommandInit
  <2>2. <<>> \in Seq(Triple)
    BY EmptySeq
  <2>3. /\ file = 0 /\ line = 0 /\ piece = 0 /\ buffer = <<>> /\ sink = <<>>
        /\ wrerr = FALSE /\ failed = FALSE
    BY DEF CommandInit
  <2>4. file \in 0 .. Len(inputs) /\ line \in Nat /\ piece \in Nat
    BY <2>1, <2>3
  <2> QED BY <2>1, <2>2, <2>3, <2>4 DEF Typed
<1>2. Within /\ Between /\ Completed /\ Emptied /\ There
  BY <1>1 DEF CommandInit, Within, Between, Completed, Emptied, There
<1>3. Written(0, 0, 0) = <<>>
  <2>1. LinesOf(0 + 1, 0) = <<>> /\ InputsUpTo(0) = <<>> /\ PiecesOf(0 + 1, 0 + 1, 0) = <<>>
    BY NoLines, PiecesStep
  <2> QED BY <2>1 DEF Written
<1>4. sink \o buffer = <<>>
  BY <1>1
<1> QED BY <1>1, <1>2, <1>3, <1>4 DEF Progress, InOrder

LEMMA SameWritten ==
    ASSUME inputs' = inputs
    PROVE  Written(file, line, piece)' = Written(file', line', piece')
BY DEF Written, InputsUpTo, LinesOf, PiecesOf

Places == Typed /\ Within /\ Between /\ Completed /\ Emptied /\ There

\* Steps that write nothing and stay where they are.
LEMMA StepsBetween ==
    ASSUME Progress,
           ParseFlags \/ OpenAnalyzer \/ CreateOutput \/ OpenInput \/ NoInput \/ AnalyzeLine
           \/ ScanEnds \/ CloseOutput \/ CloseAnalyzer
    PROVE  Places' /\ UNCHANGED <<inputs, file, line, piece, buffer, sink>>
<1> USE DEF Progress, Places, Typed, Within, Between, Completed, Emptied, There, Lines,
            Proceed, Fail, read, writer
<1>1. CASE ParseFlags
  BY <1>1 DEF ParseFlags
<1>2. CASE OpenAnalyzer
  BY <1>2 DEF OpenAnalyzer
<1>3. CASE CreateOutput
  BY <1>3 DEF CreateOutput, WithoutOutput
<1>4. CASE OpenInput
  <2>1. file < Len(inputs)
    BY <1>4 DEF OpenInput
  <2>2. Len(Lines) \in Nat
    BY <2>1, LinesThere
  <2>3. line <= Len(Lines)
    BY <1>4, <2>2 DEF OpenInput
  <2>4. UNCHANGED <<inputs, file, line, piece, buffer, wrerr, sink, Lines>>
    BY <1>4 DEF OpenInput
  <2>5. /\ step = "input"
        /\ \/ step' = "lines" /\ failed' = failed
           \/ step' = "flush" /\ failed' = TRUE
    BY <1>4 DEF OpenInput
  <2> HIDE DEF Lines
  <2> QED BY <2>1, <2>3, <2>4, <2>5
<1>5. CASE NoInput
  BY <1>5 DEF NoInput
<1>6. CASE AnalyzeLine
  <2>1. file < Len(inputs) /\ line < Len(Lines) /\ line \in Nat
    BY <1>6 DEF AnalyzeLine
  <2>2. line + 1 \in 1 .. Len(Lines)
    BY <2>1, LinesThere
  <2>3. Lines[line + 1] \in Nat
    BY <2>1, <2>2, LinesThere
  <2>4. UNCHANGED <<inputs, file, line, piece, buffer, wrerr, sink, Lines>>
    BY <1>6 DEF AnalyzeLine
  <2>5. /\ step = "lines"
        /\ \/ step' = "closeInput" /\ failed' = TRUE
           \/ step' = "write" /\ failed' = failed /\ Lines[line + 1] # 0
    BY <1>6 DEF AnalyzeLine, Bad
  <2> HIDE DEF Lines
  <2>6. Typed' /\ Completed' /\ There' /\ Emptied'
    BY <2>1, <2>4, <2>5
  <2>7. Between'
    BY <2>1, <2>4, <2>5
  <2>8. Within'
    BY <2>1, <2>3, <2>4, <2>5
  <2> HIDE DEF Typed, Within, Between, Completed, Emptied, There
  <2> QED BY <2>4, <2>6, <2>7, <2>8
<1>7. CASE ScanEnds
  BY <1>7 DEF ScanEnds
<1>8. CASE CloseOutput
  BY <1>8 DEF CloseOutput
<1>9. CASE CloseAnalyzer
  BY <1>9 DEF CloseAnalyzer
<1> QED BY <1>1, <1>2, <1>3, <1>4, <1>5, <1>6, <1>7, <1>8, <1>9

\* What the system takes of the buffer changes nothing else.
LEMMA StepsOut ==
    ASSUME Progress, MakeRoom \/ FlushWriter
    PROVE  Places' /\ UNCHANGED <<inputs, file, line, piece>> /\ sink' \o buffer' = sink \o buffer
<1>1. sink \in Seq(Triple) /\ buffer \in Seq(Triple) /\ wrerr \in BOOLEAN /\ failed \in BOOLEAN
  BY DEF Progress, Typed
<1>2. CASE MakeRoom
  <2>1. /\ sink' \in Seq(Triple) /\ buffer' \in Seq(Triple)
        /\ sink' \o buffer' = sink \o buffer
        /\ (wrerr' = wrerr /\ buffer' = <<>>) \/ wrerr' = TRUE
    BY <1>1, <1>2, EmitKeeps DEF MakeRoom
  <2>2. /\ step = "write" /\ UNCHANGED <<inputs, file, line, piece, Lines>>
        /\ \/ step' = "closeInput" /\ failed' = TRUE /\ wrerr' = TRUE
           \/ step' = "write" /\ failed' = failed /\ wrerr' = wrerr
    BY <1>2, <2>1 DEF MakeRoom, Proceed, Fail, read, Lines
  <2>3. Typed'
    BY <1>1, <2>1, <2>2 DEF Progress, Typed
  <2>4. Within' /\ Between' /\ There'
    BY <2>2 DEF Progress, Within, Between, There
  <2>5. Completed' /\ Emptied'
    BY <2>2 DEF Progress, Completed, Emptied
  <2> QED BY <2>1, <2>2, <2>3, <2>4, <2>5 DEF Places
<1>3. CASE FlushWriter
  <2>1. /\ sink' \in Seq(Triple) /\ buffer' \in Seq(Triple)
        /\ sink' \o buffer' = sink \o buffer
        /\ wrerr' \in BOOLEAN /\ (wrerr' = TRUE \/ buffer' = <<>>) /\ (wrerr => wrerr')
    <3>1. CASE wrerr \/ buffer = <<>>
      BY <1>1, <1>3, <3>1 DEF FlushWriter, Flush, writer
    <3>2. CASE ~(wrerr \/ buffer = <<>>)
      <4>1. Emit
        BY <1>3, <3>2 DEF FlushWriter, Flush
      <4> QED BY <1>1, <3>2, <4>1, EmitKeeps
    <3> QED BY <3>1, <3>2
  <2>2. /\ step = "flush" /\ step' = "closeOutput" /\ failed' = (failed \/ wrerr')
        /\ UNCHANGED <<inputs, file, line, piece, Lines>>
    BY <1>3 DEF FlushWriter, Flush, Proceed, read, Lines
  <2>3. Typed'
    BY <1>1, <2>1, <2>2 DEF Progress, Typed
  <2>4. Within' /\ Between' /\ There'
    BY <2>2 DEF Progress, Within, Between, There
  <2>5. Completed' /\ Emptied'
    BY <2>1, <2>2 DEF Progress, Completed, Emptied
  <2> QED BY <2>1, <2>2, <2>3, <2>4, <2>5 DEF Places
<1> QED BY <1>2, <1>3

\* A piece is what is written next, and may be the last one of its line.
LEMMA StepWritePiece ==
    ASSUME Progress, WritePiece
    PROVE  Progress'
<1>1. Typed /\ Within /\ Between /\ Completed /\ Emptied /\ There /\ InOrder
  BY DEF Progress
<1>2. file < Len(inputs) /\ line < Len(Lines) /\ step = "write" /\ piece < Lines[line + 1]
  BY <1>1 DEF WritePiece, Within
<1>3. /\ file \in 0 .. Len(inputs) /\ line \in Nat /\ piece \in Nat /\ inputs \in Seq(Seq(Nat))
      /\ buffer \in Seq(Triple) /\ sink \in Seq(Triple)
  BY <1>1 DEF Typed
<1>4. Lines = inputs[file + 1] /\ Len(Lines) \in Nat /\ file \in Nat
  BY <1>1, <1>2, <1>3, LinesThere, LenProperties DEF Lines
<1> DEFINE e == <<file + 1, line + 1, piece + 1>>
<1>5. e \in Triple
  BY <1>3, <1>4 DEF Triple
<1>6. /\ buffer' = Append(buffer, e)
      /\ UNCHANGED <<inputs, file, sink, wrerr, failed, Lines>>
      /\ \/ step' = "lines" /\ line' = line + 1 /\ piece' = 0 /\ piece + 1 = Lines[line + 1]
         \/ step' = "write" /\ line' = line /\ piece' = piece + 1 /\ piece + 1 # Lines[line + 1]
  BY DEF WritePiece, Proceed, Lines
<1>7. Lines[line + 1] \in Nat
  <2>1. line + 1 \in 1 .. Len(Lines)
    BY <1>2, <1>3, <1>4
  <2> QED BY <2>1, <1>1, <1>2, LinesThere
<1>8. Typed'
  <2>1. buffer' \in Seq(Triple)
    <3> HIDE DEF e
    <3> QED BY <1>3, <1>5, <1>6, AppendProperties
  <2>2. line' \in Nat /\ piece' \in Nat
    BY <1>3, <1>6
  <2> QED BY <1>1, <1>6, <2>1, <2>2 DEF Typed
<1>9. Within' /\ Between' /\ There'
  <2>1. line' <= Len(Lines) /\ file' < Len(inputs)
    BY <1>2, <1>3, <1>4, <1>6
  <2>2. step' = "write" => line' < Len(Lines) /\ piece' < Lines[line' + 1]
    BY <1>2, <1>3, <1>6, <1>7
  <2> QED BY <1>1, <1>6, <2>1, <2>2 DEF Within, Between, There
<1>10. Completed' /\ Emptied'
  BY <1>1, <1>2, <1>6 DEF Completed, Emptied
<1>11. sink' \o buffer' = Append(Written(file, line, piece), e)
  <2> HIDE DEF e, Triple
  <2>1. <<e>> \in Seq(Triple) /\ sink \o buffer \in Seq(Triple)
    BY <1>3, <1>5, ConcatProperties
  <2>2. Append(buffer, e) = buffer \o <<e>>
    BY <1>3, <1>5, AppendIsConcat
  <2>3. (sink \o buffer) \o <<e>> = sink \o (buffer \o <<e>>)
    BY <1>3, <2>1, ConcatAssociative
  <2>4. Append(sink \o buffer, e) = (sink \o buffer) \o <<e>>
    BY <1>5, <2>1, AppendIsConcat
  <2> QED BY <1>1, <1>6, <2>2, <2>3, <2>4 DEF InOrder
<1>12. /\ Written(file, line, piece + 1) = Append(Written(file, line, piece), e)
       /\ Written(file, line + 1, 0) = Written(file, line, Lines[line + 1])
  <2>1. line < Len(inputs[file + 1]) /\ line <= Len(inputs[file + 1])
    BY <1>2, <1>3, <1>4
  <2>2. /\ Written(file, line, piece + 1) = Append(Written(file, line, piece), e)
        /\ Written(file, line + 1, 0) = Written(file, line, inputs[file + 1][line + 1])
    BY <1>2, <1>3, <2>1, WrittenStep
  <2> QED BY <1>4, <2>2
<1>13. Written(file', line', piece') = Written(file, line, piece + 1)
  <2>1. CASE line' = line + 1 /\ piece' = 0 /\ piece + 1 = Lines[line + 1]
    BY <2>1, <1>6, <1>12
  <2>2. CASE line' = line /\ piece' = piece + 1
    BY <2>2, <1>6
  <2> QED BY <2>1, <2>2, <1>6
<1>14. InOrder'
  <2> HIDE DEF e
  <2> QED BY <1>6, <1>11, <1>12, <1>13, SameWritten DEF InOrder
<1> QED BY <1>8, <1>9, <1>10, <1>14 DEF Progress

\* The end of an input that was read to its end is where the next one begins;
\* after a failure the run stays where it is.
LEMMA StepCloseInput ==
    ASSUME Progress, CloseInput
    PROVE  Progress'
<1>1. Typed /\ Within /\ Between /\ Completed /\ Emptied /\ There /\ InOrder
  BY DEF Progress
<1>2. file < Len(inputs) /\ line <= Len(Lines) /\ step = "closeInput"
  BY <1>1 DEF CloseInput, Within
<1>3. /\ file \in 0 .. Len(inputs) /\ line \in Nat /\ piece \in Nat /\ inputs \in Seq(Seq(Nat))
      /\ buffer \in Seq(Triple) /\ sink \in Seq(Triple) /\ failed \in BOOLEAN
      /\ Len(inputs) \in Nat
  BY <1>1, LenProperties DEF Typed
<1>4. /\ failed' \in BOOLEAN /\ (failed => failed')
      /\ UNCHANGED <<inputs, buffer, wrerr, sink>>
  BY <1>3 DEF CloseInput, Proceed, writer
<1>5. CASE ~failed'
  <2>1. step' = "input" /\ file' = file + 1 /\ line' = 0 /\ piece' = 0
    BY <1>4, <1>5 DEF CloseInput, AfterFile, Proceed
  <2>2. line = Len(Lines) /\ piece = 0 /\ ~failed
    BY <1>1, <1>2, <1>3, <1>4, <1>5 DEF Completed
  <2>3. Typed'
    BY <1>1, <1>2, <1>3, <1>4, <2>1 DEF Typed
  <2>4. Within' /\ Between' /\ There' /\ Completed' /\ Emptied'
    BY <1>1, <1>4, <1>5, <2>1, <2>2 DEF Within, Between, There, Completed, Emptied
  <2>5. Written(file + 1, 0, 0) = Written(file, line, piece)
    <3>1. Lines = inputs[file + 1]
      BY DEF Lines
    <3>2. Written(file + 1, 0, 0) = Written(file, Len(inputs[file + 1]), 0)
      BY <1>2, <1>3, WrittenStep
    <3> QED BY <2>2, <3>1, <3>2
  <2>6. InOrder'
    BY <1>1, <1>4, <2>1, <2>5, SameWritten DEF InOrder
  <2> QED BY <2>3, <2>4, <2>6 DEF Progress
<1>6. CASE failed'
  <2>1. step' = "flush" /\ UNCHANGED <<file, line, piece>>
    BY <1>6 DEF CloseInput, AfterFile, Proceed, read
  <2>2. Typed'
    BY <1>1, <1>3, <1>4, <2>1 DEF Typed
  <2>3. Lines' = Lines
    BY <1>4, <2>1 DEF Lines
  <2>4. Within' /\ Between' /\ There' /\ Completed' /\ Emptied'
    BY <1>1, <1>4, <1>6, <2>1, <2>3 DEF Within, Between, There, Completed, Emptied
  <2>5. InOrder'
    BY <1>1, <1>4, <2>1, SameWritten DEF InOrder
  <2> QED BY <2>2, <2>4, <2>5 DEF Progress
<1> QED BY <1>4, <1>5, <1>6

LEMMA StepProgress ==
    ASSUME Progress, CommandNext
    PROVE  Progress'
<1>1. CASE WritePiece
  BY <1>1, StepWritePiece
<1>2. CASE CloseInput
  BY <1>2, StepCloseInput
<1>3. CASE ~WritePiece /\ ~CloseInput
  <2>1. Places' /\ UNCHANGED <<inputs, file, line, piece>> /\ sink' \o buffer' = sink \o buffer
    BY <1>3, StepsBetween, StepsOut DEF CommandNext
  <2>2. InOrder'
    BY <2>1, SameWritten DEF Progress, InOrder
  <2> QED BY <2>1, <2>2 DEF Places, Progress
<1> QED BY <1>1, <1>2, <1>3

LEMMA StutterProgress == Progress /\ UNCHANGED commandVars => Progress'
<1> SUFFICES ASSUME Progress, UNCHANGED commandVars PROVE Progress'
  OBVIOUS
<1>1. UNCHANGED <<inputs, step, file, line, piece, buffer, wrerr, sink, failed>>
  BY DEF commandVars, read, writer
<1>2. InOrder'
  BY <1>1, SameWritten DEF Progress, InOrder
<1> QED BY <1>1, <1>2 DEF Progress, Typed, Within, Between, Completed, Emptied, There, Lines

LEMMA AlwaysProgress == CommandSpec => []Progress
<1>1. Progress /\ [CommandNext]_commandVars => Progress'
  BY StepProgress, StutterProgress
<1> QED BY InitProgress, <1>1, PTL DEF CommandSpec

\* For any inputs and a buffer of any size, wherever a call fails: what has
\* reached the output and what the buffer holds are the pieces of the lines
\* analysed so far, each once and in the order they were read.
THEOREM SpecInOrder == CommandSpec => []InOrder
<1>1. Progress => InOrder
  BY DEF Progress
<1> QED BY <1>1, AlwaysProgress, PTL

\* For any inputs and a buffer of any size: the command answers success only
\* when every line of every input is in the output and everything is closed,
\* and what was analysed is in the output unless the output itself failed
\* (main.go:66 and main.go:95).
THEOREM SpecOutputAtExit == CommandSpec => []OutputAtExit
<1>1. ASSUME OpenInv, Progress PROVE OutputAtExit
  <2>1. CASE step = "exit"
    <3>1. ~wrerr => sink = Written(file, line, piece)
      <4>1. ~wrerr => buffer = <<>>
        BY <1>1, <2>1 DEF Progress, Emptied
      <4>2. sink \o <<>> = sink
        BY <1>1, ConcatEmptySeq DEF Progress, Typed
      <4> QED BY <1>1, <4>1, <4>2 DEF Progress, InOrder
    <3>2. ~failed => ~wrerr /\ file = Len(inputs) /\ line = 0 /\ piece = 0
      BY <1>1, <2>1 DEF Progress, Emptied, Completed
    <3>3. open = {}
      BY <1>1, <2>1 DEF OpenInv, NoMore
    <3> QED BY <3>1, <3>2, <3>3 DEF OutputAtExit, SuccessIsComplete, EarlierLinesReachOutput
  <2>2. CASE step # "exit"
    BY <2>2 DEF OutputAtExit, SuccessIsComplete, EarlierLinesReachOutput
  <2> QED BY <2>1, <2>2
<1> QED BY <1>1, AlwaysOpen, AlwaysProgress, PTL

\* A write never leaves the buffer with more pieces than it has room for.
BufferFits ==
    /\ step \in {"flags", "analyzer", "output", "input", "lines", "write", "closeInput", "flush",
                 "closeOutput", "closeAnalyzer", "exit"}
    /\ Len(buffer) <= BufSize

LEMMA EmitFits ==
    ASSUME Typed, Len(buffer) <= BufSize, Emit
    PROVE  Len(buffer') <= BufSize
<1>1. Len(buffer) \in Nat /\ BufSize \in Nat
  BY CommandAssumption, LenProperties DEF Typed
<1>2. CASE buffer' = <<>>
  BY <1>1, <1>2, EmptySeq
<1>3. ASSUME NEW n \in 0 .. Len(buffer), buffer' = SubSeq(buffer, n + 1, Len(buffer))
      PROVE  Len(buffer') <= BufSize
  <2>1. n + 1 \in Int /\ Len(buffer) \in Int
    BY <1>1
  <2>2. \A i \in n + 1 .. Len(buffer) : buffer[i] \in Triple
    <3>1. \A i \in 1 .. Len(buffer) : buffer[i] \in Triple
      BY ElementOfSeq DEF Typed
    <3> QED BY <1>1, <3>1
  <2>3. Len(buffer') = IF n + 1 <= Len(buffer) THEN Len(buffer) - (n + 1) + 1 ELSE 0
    BY <1>3, <2>1, <2>2, SubSeqProperties
  <2> QED BY <1>1, <2>3
<1> QED BY <1>2, <1>3 DEF Emit

LEMMA StepBufferFits ==
    ASSUME Typed, BufferFits, [CommandNext]_commandVars
    PROVE  BufferFits'
<1> USE DEF BufferFits, Proceed, Fail, read, writer
<1>0. Len(buffer) \in Nat /\ BufSize \in Nat
  BY CommandAssumption, LenProperties DEF Typed
<1>1. CASE ParseFlags
  BY <1>1 DEF ParseFlags
<1>2. CASE OpenAnalyzer
  BY <1>2 DEF OpenAnalyzer
<1>3. CASE CreateOutput
  BY <1>3 DEF CreateOutput, WithoutOutput
<1>4. CASE OpenInput
  BY <1>4 DEF OpenInput
<1>5. CASE NoInput
  BY <1>5 DEF NoInput
<1>6. CASE AnalyzeLine
  BY <1>6 DEF AnalyzeLine
<1>7. CASE ScanEnds
  BY <1>7 DEF ScanEnds
<1>8. CASE MakeRoom
  <2>1. Len(buffer') <= BufSize
    BY <1>8, EmitFits DEF MakeRoom
  <2> QED BY <1>8, <2>1 DEF MakeRoom
<1>9. CASE WritePiece
  <2>1. Len(buffer) < BufSize /\ buffer' = Append(buffer, <<file + 1, line + 1, piece + 1>>)
    BY <1>0, <1>9 DEF WritePiece, Full
  <2>2. Len(buffer') = Len(buffer) + 1
    <3>1. <<file + 1, line + 1, piece + 1>> \in Triple
      BY DEF Typed, Triple
    <3> HIDE DEF Triple
    <3> QED BY <2>1, <3>1, AppendProperties DEF Typed
  <2>3. Len(buffer') <= BufSize
    BY <1>0, <2>1, <2>2
  <2> QED BY <1>9, <2>3 DEF WritePiece
<1>10. CASE CloseInput
  BY <1>10 DEF CloseInput, AfterFile
<1>11. CASE FlushWriter
  <2>1. Len(buffer') <= BufSize
    BY <1>11, EmitFits DEF FlushWriter, Flush
  <2> QED BY <1>11, <2>1 DEF FlushWriter
<1>12. CASE CloseOutput
  BY <1>12 DEF CloseOutput
<1>13. CASE CloseAnalyzer
  BY <1>13 DEF CloseAnalyzer
<1>14. CASE UNCHANGED commandVars
  BY <1>14 DEF commandVars
<1> QED BY <1>1, <1>2, <1>3, <1>4, <1>5, <1>6, <1>7, <1>8, <1>9, <1>10, <1>11,
           <1>12, <1>13, <1>14 DEF CommandNext

LEMMA SpecCommandTypeOK == CommandSpec => []CommandTypeOK
<1>1. CommandInit => BufferFits
  BY CommandAssumption, EmptySeq DEF CommandInit, BufferFits
<1>2. Progress /\ BufferFits /\ [CommandNext]_commandVars => BufferFits'
  BY StepBufferFits DEF Progress
<1>3. OpenInv /\ Progress /\ BufferFits => CommandTypeOK
  BY DEF OpenInv, NoMore, Progress, Typed, BufferFits, CommandTypeOK
<1> QED BY <1>1, <1>2, <1>3, AlwaysOpen, AlwaysProgress, PTL DEF CommandSpec

-----------------------------------------------------------------------------
(* The table of char.def (CharTable)                                        *)

RangeOf(l) == [begin |-> l.lo, end |-> Table!AfterRune(l.hi), cats |-> l.cats]
RangesOfLines == {RangeOf(l) : l \in {x \in DefLines : x.kind = "range"}}

\* Of the lines read, the ranges are ranges, and the rest has infos.
LineRead(l) ==
    CASE l.kind = "range" -> Table!Known(l) /\ \E j \in DOMAIN ranges : ranges[j] = RangeOf(l)
      [] l.kind = "info"  -> l.cat # "unknown" /\ l.cat \in DOMAIN infos
      [] OTHER            -> FALSE
LinesRead ==
    tStage # "failed" =>
        /\ \A k \in 1 .. tN : LineRead(def[k])
        /\ \A j \in DOMAIN ranges : \E k \in 1 .. tN : def[k].kind = "range" /\ ranges[j] = RangeOf(def[k])

\* The stretches are those of the ranges, and the plane holds what lookup found.
Filled ==
    tStage \in {"filling", "ready"} =>
        /\ tN = Len(def) /\ \A j \in DOMAIN ranges : Table!Valid(ranges[j])
        /\ starts = Table!Ascending(Table!Bounds)
        /\ cats = [k \in DOMAIN starts |-> Table!CatsFrom(starts[k])]
        /\ \A k \in 1 .. Len(bmp) : bmp[k] = Table!lookup(k - 1)
        /\ tStage = "ready" => Len(bmp) = BmpSize

TableTyped ==
    /\ def \in Seq(DefLines) /\ tN \in 0 .. Len(def) /\ ranges \in Seq(RangesOfLines)
    /\ \E S : bmp \in Seq(S)
    /\ Len(bmp) <= BmpSize /\ (tStage = "reading" => bmp = <<>>)

TableInv == TableTyped /\ LinesRead /\ Filled

LEMMA BoundsOrder ==
    ASSUME Table!LinesAssumption, TableTyped
    PROVE  /\ Table!Bounds \in SUBSET Int /\ IsFiniteSet(Table!Bounds)
<1> DEFINE D == DOMAIN ranges
           B == {ranges[k].begin : k \in D}
           E == {ranges[k].end : k \in D}
           f == [k \in D |-> ranges[k].begin]
           g == [k \in D |-> ranges[k].end]
<1>1. \A k \in D : ranges[k].begin \in Int /\ ranges[k].end \in Int
  <2>1. ASSUME NEW k \in D PROVE ranges[k].begin \in Int /\ ranges[k].end \in Int
    <3>1. ranges[k] \in RangesOfLines
      BY ElementOfSeq DEF TableTyped
    <3>2. PICK l \in DefLines : l.kind = "range" /\ ranges[k] = RangeOf(l)
      BY <3>1 DEF RangesOfLines
    <3>3. l.lo \in Int /\ l.hi \in Int /\ MaxRune \in Int
      BY <3>2 DEF Table!LinesAssumption
    <3> QED BY <3>2, <3>3 DEF RangeOf, Table!AfterRune
  <2> QED BY <2>1
<1>2. IsFiniteSet(D)
  <2>1. D = 1 .. Len(ranges) /\ Len(ranges) \in Nat
    BY DEF TableTyped
  <2> QED BY <2>1, FS_Interval
<1>3. IsFiniteSet(B) /\ IsFiniteSet(E)
  <2>1. f \in Surjection(D, B) /\ g \in Surjection(D, E)
    BY DEF Surjection
  <2> HIDE DEF f, g, B, E, D
  <2> QED BY <1>2, <2>1, FS_Surjection
<1>4. Table!Bounds = ({0} \cup B) \cup E
  BY DEF Table!Bounds
<1>5. IsFiniteSet({0} \cup B)
  <2> HIDE DEF B
  <2> QED BY <1>3, FS_Singleton, FS_Union
<1>6. IsFiniteSet(({0} \cup B) \cup E)
  <2> HIDE DEF B, E
  <2> QED BY <1>3, <1>5, FS_Union
<1>7. Table!Bounds \in SUBSET Int
  BY <1>1 DEF Table!Bounds
<1> QED BY <1>4, <1>6, <1>7

\* A character has the categories of the last bound before it.
LEMMA LookupRight ==
    ASSUME Table!LinesAssumption, TableTyped, NEW c \in Nat,
           starts = Table!Ascending(Table!Bounds),
           cats = [k \in DOMAIN starts |-> Table!CatsFrom(starts[k])]
    PROVE  Table!lookup(c) = Table!CatsFrom(c)
<1> DEFINE B == Table!Bounds
           N == Cardinality(B)
           K == {k \in DOMAIN starts : c <= starts[k]} \cup {Len(starts) + 1}
<1>1. B \in SUBSET Int /\ IsFiniteSet(B)
  BY BoundsOrder
<1>2. /\ N \in Nat /\ starts \in [1 .. N -> B]
      /\ \A b \in B : \E k \in 1 .. N : starts[k] = b
      /\ \A k, m \in 1 .. N : k < m => starts[k] < starts[m]
  <2> HIDE DEF B
  <2>1. starts = [k \in 1 .. N |-> CHOOSE b \in B : Cardinality({a \in B : a < b}) = k - 1]
    BY DEF Table!Ascending, B, Table!Cardinality, Cardinality
  <2> HIDE DEF N
  <2> QED BY <1>1, <2>1, RanksOrder DEF N
<1>3. DOMAIN starts = 1 .. N /\ Len(starts) = N
  <2> HIDE DEF B, N
  <2>1. starts \in Seq(B)
    BY <1>2
  <2> QED BY <1>2, <2>1
<1>4. Table!Found(c) \in K /\ \A k \in K : Table!Found(c) <= k
  <2>1. K \in SUBSET Nat /\ K # {}
    <3> HIDE DEF N
    <3> QED BY <1>2, <1>3
  <2>2. Table!Found(c) = CHOOSE x \in K : \A y \in K : x =< y
    BY DEF Table!Found, Table!Min
  <2> HIDE DEF K
  <2>3. \E x \in K : \A y \in K : x =< y
    BY <2>1, Least
  <2> QED BY <2>2, <2>3
<1> HIDE DEF B, N
<1>5. \A k \in 1 .. N : starts[k] \in Int
  BY <1>1, <1>2
<1>6. PICK m \in 1 .. N : /\ starts[m] <= c /\ \A k \in m + 1 .. N : c < starts[k]
                          /\ Table!lookup(c) = cats[m]
  <2>1. CASE c \in Table!Range(starts)
    <3>1. PICK m \in 1 .. N : starts[m] = c
      BY <1>2, <2>1 DEF Table!Range
    <3>2. m \in K
      BY <1>3, <1>5, <3>1
    <3>3. Table!Found(c) = m
      <4>1. Table!Found(c) <= m /\ Table!Found(c) \in 1 .. N /\ c <= starts[Table!Found(c)]
        BY <1>2, <1>3, <1>4, <3>2
      <4>2. ~(Table!Found(c) < m)
        BY <1>2, <1>5, <3>1, <4>1
      <4> QED BY <4>1, <4>2
    <3>4. \A k \in m + 1 .. N : c < starts[k]
      BY <1>2, <3>1
    <3>5. starts[m] <= c
      BY <3>1
    <3> QED BY <2>1, <3>3, <3>4, <3>5 DEF Table!lookup
  <2>2. CASE c \notin Table!Range(starts)
    <3> DEFINE m == Table!Found(c) - 1
    <3>1. Table!Found(c) \in 1 .. N + 1
      BY <1>2, <1>3, <1>4
    <3>2. PICK z \in 1 .. N : starts[z] = 0
      BY <1>2 DEF B, Table!Bounds
    <3>3. \A k \in 1 .. N : starts[k] # c
      BY <1>3, <2>2 DEF Table!Range
    <3>4. \A k \in 1 .. N : Table!Found(c) <= k <=> c < starts[k]
      <4>1. ASSUME NEW k \in 1 .. N, Table!Found(c) <= k PROVE c < starts[k]
        <5>1. Table!Found(c) \in 1 .. N /\ c <= starts[Table!Found(c)]
          BY <1>2, <1>3, <1>4, <3>1, <4>1
        <5>2. starts[Table!Found(c)] <= starts[k]
          BY <1>2, <1>5, <4>1, <5>1
        <5>3. c <= starts[k]
          BY <1>5, <5>1, <5>2
        <5> QED BY <1>5, <3>3, <5>3
      <4>2. ASSUME NEW k \in 1 .. N, c < starts[k] PROVE Table!Found(c) <= k
        BY <1>3, <1>4, <1>5, <4>2
      <4> QED BY <4>1, <4>2
    <3>5. ~(Table!Found(c) <= z)
      BY <3>2, <3>4
    <3>6. m \in 1 .. N
      BY <1>2, <3>1, <3>5
    <3>7. starts[m] <= c
      <4>1. ~(Table!Found(c) <= m)
        BY <3>1
      <4>2. ~(c < starts[m])
        BY <3>4, <3>6, <4>1
      <4> QED BY <1>5, <3>6, <4>2
    <3>8. \A k \in m + 1 .. N : c < starts[k]
      BY <1>2, <3>1, <3>4, <3>6
    <3>9. Table!lookup(c) = cats[m]
      BY <2>2 DEF Table!lookup
    <3> HIDE DEF m
    <3> QED BY <3>6, <3>7, <3>8, <3>9
  <2> QED BY <2>1, <2>2
\* No bound is between that one and the character.
<1>7. ASSUME NEW b \in B PROVE b <= starts[m] <=> b <= c
  <2>1. PICK k \in 1 .. N : starts[k] = b
    BY <1>2
  <2>2. k <= m => starts[k] <= starts[m]
    BY <1>2, <1>5
  <2>3. ~(k <= m) => c < starts[k]
    BY <1>2, <1>6, <2>1
  <2> QED BY <1>5, <1>6, <2>1, <2>2, <2>3
<1>8. \A k \in DOMAIN ranges : /\ ranges[k].begin \in B /\ ranges[k].end \in B
                               /\ ranges[k].begin \in Int /\ ranges[k].end \in Int
  <2>1. \A k \in DOMAIN ranges : ranges[k].begin \in B /\ ranges[k].end \in B
    BY DEF B, Table!Bounds
  <2> QED BY <1>1, <2>1
<1>9. \A k \in DOMAIN ranges : (ranges[k].begin <= c /\ c < ranges[k].end)
                               <=> (ranges[k].begin <= starts[m] /\ starts[m] < ranges[k].end)
  <2>1. ASSUME NEW k \in DOMAIN ranges
        PROVE (ranges[k].begin <= c /\ c < ranges[k].end)
              <=> (ranges[k].begin <= starts[m] /\ starts[m] < ranges[k].end)
    BY <1>5, <1>6, <1>7, <1>8
  <2> QED BY <2>1
<1>10. cats[m] = Table!CatsFrom(starts[m])
  BY <1>3
<1>11. Table!CatsFrom(starts[m]) = Table!CatsFrom(c)
  BY <1>9 DEF Table!CatsFrom
<1> QED BY <1>6, <1>10, <1>11

LEMMA TableStarts == ASSUME Table!LinesAssumption, Table!Init PROVE TableInv
<1>1. def \in Seq(DefLines)
  BY DEF Table!Init
<1>2. TableTyped
  <2>1. bmp \in Seq({}) /\ ranges \in Seq(RangesOfLines) /\ Len(bmp) = 0 /\ bmp = <<>> /\ tN = 0
    BY DEF Table!Init
  <2>2. Len(def) \in Nat
    BY <1>1
  <2> QED BY <1>1, <2>1, <2>2 DEF TableTyped, Table!LinesAssumption
<1>3. LinesRead /\ Filled
  BY DEF LinesRead, Filled, Table!Init
<1> QED BY <1>2, <1>3 DEF TableInv

\* What is said of the stretches does not change when they do not.
LEMMA FilledStays ==
    ASSUME Filled, tStage \in {"filling", "ready"}, UNCHANGED <<def, tN, ranges, starts, cats>>,
           \A k \in 1 .. Len(bmp') : bmp'[k] = Table!lookup(k - 1),
           tStage' = "ready" => Len(bmp') = BmpSize
    PROVE  Filled'
<1>1. UNCHANGED <<def, tN, ranges, starts, cats>>
  OBVIOUS
<1>2. starts' = Table!Ascending(Table!Bounds)'
  <2>1. Table!Bounds' = Table!Bounds
    BY <1>1 DEF Table!Bounds
  <2>2. starts' = Table!Ascending(Table!Bounds)
    BY <1>1 DEF Filled
  <2> QED BY <2>1, <2>2 DEF Table!Ascending
<1>3. cats' = [k \in DOMAIN starts' |-> Table!CatsFrom(starts[k])']
  BY <1>1 DEF Filled, Table!CatsFrom
<1>4. \A k : Table!lookup(k)' = Table!lookup(k)
  BY <1>1 DEF Table!lookup, Table!Found
<1>5. \A k \in 1 .. Len(bmp') : bmp'[k] = Table!lookup(k - 1)'
  BY <1>4
<1>6. tN' = Len(def') /\ \A j \in DOMAIN ranges' : Table!Valid(ranges'[j])
  BY <1>1 DEF Filled
<1> QED BY <1>1, <1>2, <1>3, <1>5, <1>6 DEF Filled, Table!Valid

LEMMA TableStep ==
    ASSUME Table!LinesAssumption, TableInv, [Table!Next]_(Table!vars)
    PROVE  TableInv'
<1> USE DEF TableInv
<1>1. ASSUME Table!ParseCharRange PROVE TableInv'
  <2> USE <1>1 DEF Table!ParseCharRange
  <2> DEFINE l == Table!Line
  <2>1. l \in DefLines /\ l.kind = "range" /\ tN + 1 \in 1 .. Len(def) /\ l = def[tN + 1]
    <3>1. tN + 1 \in 1 .. Len(def)
      BY DEF TableTyped
    <3> QED BY <3>1, ElementOfSeq DEF TableTyped, Table!Line
  <2>2. RangeOf(l) \in RangesOfLines
    BY <2>1 DEF RangesOfLines
  <2> HIDE DEF l
  <2>3. CASE Table!Known(l)
    <3>1. ranges' = Append(ranges, RangeOf(l)) /\ tStage' = "reading"
      BY <2>3 DEF l, RangeOf
    <3>2. /\ ranges' \in Seq(RangesOfLines) /\ Len(ranges') = Len(ranges) + 1
          /\ ranges'[Len(ranges) + 1] = RangeOf(l)
          /\ \A j \in DOMAIN ranges : j \in DOMAIN ranges' /\ ranges'[j] = ranges[j]
          /\ DOMAIN ranges' = 1 .. Len(ranges) + 1 /\ DOMAIN ranges = 1 .. Len(ranges)
          /\ Len(ranges) \in Nat
      BY <2>2, <3>1, AppendProperties DEF TableTyped
    <3>3. TableTyped'
      BY <2>1, <3>1, <3>2 DEF TableTyped
    <3>4. ASSUME NEW k \in 1 .. tN + 1 PROVE LineRead(def[k])'
      <4>1. CASE k = tN + 1
        <5>1. Len(ranges) + 1 \in DOMAIN ranges'
          BY <3>2
        <5> QED BY <2>1, <2>3, <3>2, <4>1, <5>1 DEF LineRead, RangeOf, Table!Known
      <4>2. CASE k # tN + 1
        <5>1. LineRead(def[k])
          BY <4>2 DEF LinesRead, TableTyped
        <5> QED BY <3>2, <5>1 DEF LineRead, RangeOf, Table!Known
      <4> QED BY <4>1, <4>2
    <3>5. ASSUME NEW j \in DOMAIN ranges'
          PROVE  \E k \in 1 .. tN + 1 : def[k].kind = "range" /\ ranges'[j] = RangeOf(def[k])
      <4>1. CASE j = Len(ranges) + 1
        BY <2>1, <3>2, <4>1 DEF TableTyped
      <4>2. CASE j # Len(ranges) + 1
        <5>1. j \in DOMAIN ranges
          BY <3>2, <4>2
        <5>2. PICK k \in 1 .. tN : def[k].kind = "range" /\ ranges[j] = RangeOf(def[k])
          BY <5>1 DEF LinesRead
        <5> QED BY <3>2, <5>1, <5>2 DEF TableTyped
      <4> QED BY <4>1, <4>2
    <3>6. LinesRead'
      <4>1. tN' = tN + 1 /\ def' = def
        OBVIOUS
      <4> QED BY <3>4, <3>5, <4>1 DEF LinesRead, RangeOf, Table!AfterRune
    <3> QED BY <3>1, <3>3, <3>6 DEF Filled
  <2>4. CASE ~Table!Known(l)
    <3>1. tStage' = "failed" /\ ranges' = ranges
      BY <2>4 DEF l
    <3> QED BY <2>1, <3>1 DEF TableTyped, LinesRead, Filled
  <2> QED BY <2>3, <2>4
<1>2. ASSUME Table!ParseCategoryInfo PROVE TableInv'
  <2> USE <1>2 DEF Table!ParseCategoryInfo
  <2> DEFINE l == Table!Line
  <2>1. l.kind = "info" /\ tN + 1 \in 1 .. Len(def) /\ l = def[tN + 1]
    BY DEF TableTyped, Table!Line
  <2> HIDE DEF l
  <2>2. CASE l.cat # "unknown"
    <3>1. DOMAIN infos' = {l.cat} \cup DOMAIN infos
      BY <2>2 DEF l
    <3>2. ASSUME NEW k \in 1 .. tN + 1 PROVE LineRead(def[k])'
      <4>1. CASE k = tN + 1
        BY <2>1, <2>2, <3>1, <4>1 DEF LineRead
      <4>2. CASE k # tN + 1
        <5>1. LineRead(def[k])
          BY <2>2, <4>2 DEF LinesRead, TableTyped, l
        <5> QED BY <3>1, <5>1 DEF LineRead, RangeOf, Table!Known, Table!AfterRune
      <4> QED BY <4>1, <4>2
    <3>3. tStage' = "reading" /\ TableTyped'
      BY <2>1, <2>2 DEF TableTyped, l
    <3>4. LinesRead'
      <4>1. tN' = tN + 1 /\ def' = def /\ ranges' = ranges /\ tStage = "reading"
        OBVIOUS
      <4>2. tN \in Nat
        BY DEF TableTyped
      <4>3. \A j \in DOMAIN ranges : \E k \in 1 .. tN : def[k].kind = "range" /\ ranges[j] = RangeOf(def[k])
        BY <4>1 DEF LinesRead
      <4>4. 1 .. tN \subseteq 1 .. tN + 1
        BY <4>2
      <4> QED BY <3>2, <4>1, <4>3, <4>4 DEF LinesRead, RangeOf, Table!AfterRune
    <3> QED BY <3>3, <3>4 DEF Filled
  <2>3. CASE l.cat = "unknown"
    <3>1. tStage' = "failed"
      BY <2>3 DEF l
    <3> QED BY <2>1, <3>1 DEF TableTyped, LinesRead, Filled
  <2> QED BY <2>2, <2>3
<1>3. ASSUME Table!NewTable PROVE TableInv'
  <2> USE <1>3 DEF Table!NewTable
  <2>1. TableTyped'
    BY DEF TableTyped
  <2>2. LinesRead'
    <3>1. tStage = "reading" /\ UNCHANGED <<def, tN, ranges, infos>>
      OBVIOUS
    <3> QED BY <3>1 DEF LinesRead, LineRead, RangeOf, Table!Known, Table!AfterRune
  <2>3. Filled'
    <3>1. CASE \E k \in DOMAIN ranges : ~Table!Valid(ranges[k])
      BY <3>1 DEF Filled
    <3>2. CASE \A k \in DOMAIN ranges : Table!Valid(ranges[k])
      <4>1. bmp' = <<>> /\ tStage' = "filling" /\ tN' = Len(def') /\ UNCHANGED ranges
        BY <3>2 DEF TableTyped
      <4>2. starts' = Table!Ascending(Table!Bounds)'
        <5>1. Table!Bounds' = Table!Bounds
          BY <4>1 DEF Table!Bounds
        <5>2. starts' = Table!Ascending(Table!Bounds)
          BY <3>2
        <5> QED BY <5>1, <5>2 DEF Table!Ascending
      <4>3. cats' = [k \in DOMAIN starts' |-> Table!CatsFrom(starts'[k])]
        BY <3>2
      <4>4. cats' = [k \in DOMAIN starts' |-> Table!CatsFrom(starts[k])']
        BY <4>1, <4>3 DEF Table!CatsFrom
      <4> QED BY <3>2, <4>1, <4>2, <4>4 DEF Filled, Table!Valid
    <3> QED BY <3>1, <3>2
  <2> QED BY <2>1, <2>2, <2>3
<1>4. ASSUME Table!FillBmp PROVE TableInv'
  <2> USE <1>4 DEF Table!FillBmp
  <2> DEFINE x == Table!lookup(Len(bmp))
  <2>1. PICK S : bmp \in Seq(S)
    BY DEF TableTyped
  <2>2. /\ bmp \in Seq(S \cup {x}) /\ x \in S \cup {x} /\ bmp' = Append(bmp, x)
        /\ Len(bmp) \in Nat
    BY <2>1, SeqOfMore
  <2> HIDE DEF x
  <2>3. /\ bmp' \in Seq(S \cup {x}) /\ Len(bmp') = Len(bmp) + 1 /\ bmp'[Len(bmp) + 1] = x
        /\ \A k \in 1 .. Len(bmp) : bmp'[k] = bmp[k]
    BY <2>2, AppendProperties
  <2>4. TableTyped'
    BY <2>2, <2>3 DEF TableTyped, Table!LinesAssumption
  <2>5. LinesRead'
    BY DEF LinesRead, LineRead, RangeOf, Table!Known, Table!AfterRune
  <2>6. ASSUME NEW k \in 1 .. Len(bmp') PROVE bmp'[k] = Table!lookup(k - 1)
    <3>1. CASE k = Len(bmp) + 1
      <4>1. k - 1 = Len(bmp)
        BY <2>2, <3>1
      <4> QED BY <2>3, <3>1, <4>1 DEF x
    <3>2. CASE k # Len(bmp) + 1
      BY <2>2, <2>3, <3>2 DEF Filled
    <3> QED BY <3>1, <3>2
  <2>7. Filled'
    <3>1. UNCHANGED <<def, tN, ranges, starts, cats, tStage>> /\ tStage = "filling"
      OBVIOUS
    <3> QED BY <2>6, <3>1, FilledStays DEF Filled
  <2> QED BY <2>4, <2>5, <2>7
<1>5. ASSUME Table!Return PROVE TableInv'
  <2> USE <1>5 DEF Table!Return
  <2>1. TableTyped'
    BY DEF TableTyped
  <2>2. LinesRead'
    BY DEF LinesRead, LineRead, RangeOf, Table!Known, Table!AfterRune
  <2>3. Filled'
    BY FilledStays DEF Filled
  <2> QED BY <2>1, <2>2, <2>3
<1>6. CASE UNCHANGED Table!vars
  <2>1. UNCHANGED <<def, tN, ranges, infos, starts, cats, bmp, tStage>>
    BY <1>6 DEF Table!vars
  <2>2. TableTyped'
    BY <2>1 DEF TableTyped
  <2>3. LinesRead'
    BY <2>1 DEF LinesRead, LineRead, RangeOf, Table!Known, Table!AfterRune
  <2>4. Filled'
    BY <2>1, FilledStays DEF Filled
  <2> QED BY <2>2, <2>3, <2>4
<1> QED BY <1>1, <1>2, <1>3, <1>4, <1>5, <1>6 DEF Table!Next

LEMMA TableAnswers ==
    ASSUME Table!LinesAssumption, TableInv
    PROVE  Table!TableAsDefined
<1> SUFFICES ASSUME tStage = "ready" PROVE Table!TableAsDefined
  BY DEF Table!TableAsDefined, Table!UnionOfRanges, Table!AllOrNothing
<1> USE DEF TableInv
<1>1. /\ tN = Len(def) /\ def \in Seq(DefLines) /\ DOMAIN def = 1 .. tN
  BY DEF Filled, TableTyped
<1>2. ASSUME NEW k \in DOMAIN def
      PROVE  /\ LineRead(def[k])
             /\ def[k] \in DefLines
  BY <1>1, ElementOfSeq DEF LinesRead
<1>3. ASSUME NEW c \in 0 .. MaxRune, NEW k \in DOMAIN def, def[k].kind = "range"
      PROVE  /\ Table!InLine(c, def[k]) <=> RangeOf(def[k]).begin <= c /\ c < RangeOf(def[k]).end
             /\ def[k].lo <= def[k].hi
  <2>1. PICK j \in DOMAIN ranges : ranges[j] = RangeOf(def[k])
    BY <1>2, <1>3 DEF LineRead
  <2>2. Table!Valid(RangeOf(def[k]))
    BY <2>1 DEF Filled
  <2>3. def[k].lo \in -MaxRune - 1 .. MaxRune /\ def[k].hi \in -MaxRune - 1 .. MaxRune /\ MaxRune \in Nat
    BY <1>2, <1>3 DEF Table!LinesAssumption
  <2>4. def[k].lo < Table!AfterRune(def[k].hi)
    BY <2>2 DEF Table!Valid, RangeOf
  <2>5. def[k].hi # MaxRune /\ Table!AfterRune(def[k].hi) = def[k].hi + 1
    BY <2>3, <2>4 DEF Table!AfterRune
  <2> QED BY <1>3, <2>3, <2>4, <2>5 DEF Table!InLine, RangeOf
<1>4. ASSUME NEW c \in 0 .. MaxRune
      PROVE  LET of == {k \in DOMAIN def : Table!InLine(c, def[k])}
             IN  Table!CatsFrom(c) = IF of = {} THEN {"DEFAULT"} ELSE UNION {def[k].cats : k \in of}
  <2> DEFINE of == {k \in DOMAIN def : Table!InLine(c, def[k])}
             js == {j \in DOMAIN ranges : ranges[j].begin <= c /\ c < ranges[j].end}
  <2>1. ASSUME NEW k \in of PROVE \E j \in js : ranges[j].cats = def[k].cats
    <3>1. k \in DOMAIN def /\ def[k].kind = "range"
      BY DEF Table!InLine
    <3>2. PICK j \in DOMAIN ranges : ranges[j] = RangeOf(def[k])
      BY <1>2, <3>1 DEF LineRead
    <3> QED BY <1>3, <3>1, <3>2 DEF RangeOf
  <2>2. ASSUME NEW j \in js PROVE \E k \in of : ranges[j].cats = def[k].cats
    <3>1. PICK k \in DOMAIN def : def[k].kind = "range" /\ ranges[j] = RangeOf(def[k])
      BY <1>1 DEF LinesRead
    <3> QED BY <1>3, <3>1 DEF RangeOf
  <2>3. UNION {def[k].cats : k \in of} = UNION {ranges[j].cats : j \in js}
    <3> HIDE DEF of, js
    <3> QED BY <2>1, <2>2
  <2>4. (UNION {def[k].cats : k \in of} = {}) <=> (of = {})
    <3>1. ASSUME NEW k \in of PROVE def[k].cats # {}
      BY <1>2 DEF LineRead, Table!Known, Table!InLine
    <3> HIDE DEF of
    <3> QED BY <3>1
  <2>5. Table!CatsFrom(c) = LET u == UNION {ranges[j].cats : j \in js}
                            IN  IF u = {} THEN {"DEFAULT"} ELSE u
    BY DEF Table!CatsFrom
  <2> HIDE DEF of, js
  <2>6. Table!CatsFrom(c) = IF of = {} THEN {"DEFAULT"} ELSE UNION {def[k].cats : k \in of}
    BY <2>3, <2>4, <2>5
  <2> QED BY <2>6 DEF of
<1>5. ASSUME NEW c \in 0 .. MaxRune PROVE Table!Category(c) = Table!CatsFrom(c)
  <2>1. Table!lookup(c) = Table!CatsFrom(c)
    BY LookupRight DEF Filled
  <2>2. c < BmpSize => bmp[c + 1] = Table!lookup(c)
    <3>1. c + 1 \in Int /\ c + 1 - 1 = c /\ (c < BmpSize => c + 1 \in 1 .. Len(bmp))
      BY DEF Filled, Table!LinesAssumption
    <3> QED BY <3>1 DEF Filled
  <2> QED BY <2>1, <2>2 DEF Table!Category
<1>6. Table!UnionOfRanges
  BY <1>4, <1>5 DEF Table!UnionOfRanges
<1>7. Table!AllOrNothing
  <2>1. ASSUME NEW k \in DOMAIN def
        PROVE  IF def[k].kind = "info" THEN def[k].cat # "unknown" /\ def[k].cat \in DOMAIN infos
               ELSE def[k].cats # {} /\ "unknown" \notin def[k].cats /\ def[k].lo <= def[k].hi
    <3>1. 0 \in 0 .. MaxRune
      BY DEF Table!LinesAssumption
    <3> QED BY <1>2, <1>3, <3>1 DEF LineRead, Table!Known
  <2> QED BY <2>1 DEF Table!AllOrNothing
<1> QED BY <1>6, <1>7 DEF Table!TableAsDefined

\* A code point has the categories of the ranges of char.def around it and no
\* other, whether it is looked up or in the plane that is filled beforehand, and
\* a file with one bad line makes no table (resource.go:58, table.go:63).
THEOREM SpecTableAsDefined ==
    ASSUME Table!LinesAssumption
    PROVE  Table!Spec => []TableAsDefined
<1>1. Table!Init => TableInv
  BY TableStarts
<1>2. TableInv /\ [Table!Next]_(Table!vars) => TableInv'
  BY TableStep
<1>3. TableInv => TableAsDefined
  BY TableAnswers DEF TableAsDefined
<1> QED BY <1>1, <1>2, <1>3, PTL DEF Table!Spec

\* The stretches begin in order, once they are made, and each has categories;
\* before that there are none.
Stretched ==
    /\ tStage \in {"reading", "filling", "ready", "failed"}
    /\ Len(starts) \in Nat /\ Len(starts) = Len(cats)
    /\ \A k \in 1 .. Len(starts) - 1 : starts[k] < starts[k + 1]
    /\ \A k \in DOMAIN ranges : ranges[k].cats # {} /\ "unknown" \notin ranges[k].cats

LEMMA StretchesMade ==
    ASSUME Table!LinesAssumption, TableTyped, NEW s, NEW c,
           s = Table!Ascending(Table!Bounds), c = [k \in DOMAIN s |-> Table!CatsFrom(s[k])]
    PROVE  /\ Len(s) \in Nat /\ Len(s) = Len(c)
           /\ \A k \in 1 .. Len(s) - 1 : s[k] < s[k + 1]
<1> DEFINE B == Table!Bounds
           N == Cardinality(B)
<1>1. B \in SUBSET Int /\ IsFiniteSet(B)
  BY BoundsOrder
<1>2. /\ N \in Nat /\ s \in [1 .. N -> B]
      /\ \A k, m \in 1 .. N : k < m => s[k] < s[m]
  <2> HIDE DEF B
  <2>1. s = [k \in 1 .. N |-> CHOOSE b \in B : Cardinality({a \in B : a < b}) = k - 1]
    BY DEF Table!Ascending, B, Table!Cardinality, Cardinality
  <2> HIDE DEF N
  <2> QED BY <1>1, <2>1, RanksOrder DEF N
<1> HIDE DEF B, N
<1>3. Len(s) = N /\ DOMAIN s = 1 .. N
  BY <1>2
<1>4. Len(c) = N
  BY <1>2, <1>3
<1> QED BY <1>2, <1>3, <1>4

LEMMA StepStretched ==
    ASSUME Table!LinesAssumption, TableInv, Stretched, [Table!Next]_(Table!vars)
    PROVE  Stretched'
<1> USE DEF Stretched
<1>1. CASE Table!ParseCharRange
  <2>1. CASE Table!Known(Table!Line)
    <3> DEFINE r == [begin |-> Table!Line.lo, end |-> Table!AfterRune(Table!Line.hi),
                     cats |-> Table!Line.cats]
    <3>1. ranges' = Append(ranges, r) /\ UNCHANGED <<starts, cats, tStage>>
      BY <1>1, <2>1 DEF Table!ParseCharRange
    <3>2. r.cats # {} /\ "unknown" \notin r.cats
      BY <2>1 DEF Table!Known
    <3> HIDE DEF r
    <3>3. ranges \in Seq(RangesOfLines \cup {r}) /\ r \in RangesOfLines \cup {r} /\ Len(ranges) \in Nat
      BY SeqOfMore DEF TableInv, TableTyped
    <3>4. /\ DOMAIN ranges' = 1 .. Len(ranges) + 1 /\ ranges'[Len(ranges) + 1] = r
          /\ \A k \in 1 .. Len(ranges) : k \in DOMAIN ranges /\ ranges'[k] = ranges[k]
      BY <3>1, <3>3, AppendProperties
    <3>5. ASSUME NEW k \in DOMAIN ranges'
          PROVE  ranges'[k].cats # {} /\ "unknown" \notin ranges'[k].cats
      <4>1. CASE k = Len(ranges) + 1
        BY <3>2, <3>4, <4>1
      <4>2. CASE k # Len(ranges) + 1
        <5>1. k \in 1 .. Len(ranges)
          BY <3>3, <3>4, <4>2
        <5> QED BY <3>4, <5>1
      <4> QED BY <4>1, <4>2
    <3> QED BY <3>1, <3>5
  <2>2. CASE ~Table!Known(Table!Line)
    BY <1>1, <2>2 DEF Table!ParseCharRange
  <2> QED BY <2>1, <2>2
<1>2. CASE Table!ParseCategoryInfo
  BY <1>2 DEF Table!ParseCategoryInfo
<1>3. CASE Table!NewTable
  <2>1. CASE \E k \in DOMAIN ranges : ~Table!Valid(ranges[k])
    BY <1>3, <2>1 DEF Table!NewTable
  <2>2. CASE ~\E k \in DOMAIN ranges : ~Table!Valid(ranges[k])
    <3>1. /\ tStage' = "filling" /\ starts' = Table!Ascending(Table!Bounds)
          /\ cats' = [k \in DOMAIN starts' |-> Table!CatsFrom(starts'[k])] /\ UNCHANGED ranges
      BY <1>3, <2>2 DEF Table!NewTable
    <3>2. /\ Len(starts') \in Nat /\ Len(starts') = Len(cats')
          /\ \A k \in 1 .. Len(starts') - 1 : starts'[k] < starts'[k + 1]
      BY <3>1, StretchesMade DEF TableInv
    <3> QED BY <3>1, <3>2
  <2> QED BY <2>1, <2>2
<1>4. CASE Table!FillBmp
  BY <1>4 DEF Table!FillBmp
<1>5. CASE Table!Return
  BY <1>5 DEF Table!Return
<1>6. CASE UNCHANGED Table!vars
  BY <1>6 DEF Table!vars
<1> QED BY <1>1, <1>2, <1>3, <1>4, <1>5, <1>6 DEF Table!Next

LEMMA SpecTableTypeOK ==
    ASSUME Table!LinesAssumption
    PROVE  Table!Spec => [](Table!TypeOK)
<1>1. Table!Init => TableInv /\ Stretched
  <2>1. Table!Init => Stretched
    <3> SUFFICES ASSUME Table!Init PROVE Stretched
      OBVIOUS
    <3>1. starts = <<>> /\ cats = <<>> /\ ranges = <<>> /\ tStage = "reading"
      BY DEF Table!Init
    <3> QED BY <3>1, EmptySeq DEF Stretched
  <2> QED BY <2>1, TableStarts
<1>2. TableInv /\ Stretched /\ [Table!Next]_(Table!vars) => (TableInv /\ Stretched)'
  BY TableStep, StepStretched
<1>3. TableInv /\ Stretched => Table!TypeOK
  <2> SUFFICES ASSUME TableInv, Stretched PROVE Table!TypeOK
    OBVIOUS
  <2>1. tN \in 0 .. Len(def) /\ Len(bmp) \in Nat /\ Len(bmp) <= BmpSize
    BY LenProperties DEF TableInv, TableTyped
  <2>2. Len(bmp) \in 0 .. BmpSize
    BY <2>1 DEF Table!LinesAssumption
  <2> QED BY <2>1, <2>2 DEF Stretched, Table!TypeOK
<1> QED BY <1>1, <1>2, <1>3, PTL DEF Table!Spec

-----------------------------------------------------------------------------
(* What Open makes (Setup)                                                  *)

DefOf(l) == [l EXCEPT !.left = Setup!Unsigned(@), !.right = Setup!Unsigned(@)]
Of(c, k) == {m \in 1 .. k : written[m].cat = c}
Weighed(x) == /\ x.left \in Int /\ x.right \in Int
              /\ x.left < dict.numLeft /\ x.right < dict.numRight
Candidates == [left : Int, right : Int, pos : Int]

AtDefs  == {"unk", "candidates", "simple", "numeric", "katakana", "ready"}
AtCands == AtDefs \ {"unk"}
Behind  == AtCands \ {"candidates"}

Outside ==
    /\ sStage \in {"dictionary", "chars", "rewrite", "close", "failed"} \cup AtDefs
    /\ dict \in [posList : POSLists, numLeft : ContextCounts, numRight : ContextCounts, open : BOOLEAN]
    /\ sStage \in {"dictionary", "failed"} => ~dict.open
    /\ sStage \in {"dictionary", "chars", "rewrite"} => defs = <<>>
    /\ sStage \in {"dictionary", "chars", "rewrite", "unk"} => sN = 0 /\ cands = [c \in Categories |-> <<>>]
    /\ sStage \in {"dictionary", "chars"} => replace = {} /\ written = <<>>

RulesRead ==
    sStage = "rewrite" => written \in Seq(RewriteLines) /\ Setup!RulesAsWritten

\* A line of unk.def becomes a definition, and then a candidate, the last of its
\* category so far.
DefsRead ==
    sStage \in AtDefs =>
        /\ written \in Seq(UnkLines \ {Setup!Malformed}) /\ sN \in 0 .. Len(defs)
        /\ \A k \in DOMAIN written : Setup!Parses(written[k].left) /\ Setup!Parses(written[k].right)
        /\ defs \in Seq({DefOf(l) : l \in UnkLines \ {Setup!Malformed}})
        /\ Len(defs) = Len(written) /\ \A k \in 1 .. Len(defs) : defs[k] = DefOf(written[k])
CandidatesMade ==
    sStage \in AtCands =>
        /\ cands \in [Categories -> Seq(Candidates)]
        /\ \A c \in Categories : Len(cands[c]) = Cardinality(Of(c, sN))
        /\ \A c \in Categories : \A i \in DOMAIN cands[c] : Weighed(cands[c][i])
        /\ \A k \in 1 .. sN :
               LET c == written[k].cat
               IN  /\ Setup!Known(defs[k].pos)
                   /\ Cardinality(Of(c, k)) \in DOMAIN cands[c]
                   /\ cands[c][Cardinality(Of(c, k))] = Setup!Candidate(defs[k])
RewritersMade ==
    LET numeric == IF joinNumeric THEN << <<"numeric", Setup!POSID("numeral")>> >> ELSE <<>>
        katakana == IF joinKatakana THEN << <<"katakana", Setup!POSID("noun")>> >> ELSE <<>>
    IN  /\ joinNumeric \in BOOLEAN /\ joinKatakana \in BOOLEAN
        /\ sStage \notin {"katakana", "ready", "close", "failed"} => rewriters = <<>>
        /\ sStage \in {"katakana", "ready"} =>
               /\ joinNumeric => Setup!Known("numeral")
               /\ sStage = "katakana" => rewriters = numeric
        /\ sStage = "ready" =>
               /\ joinKatakana => Setup!Known("noun")
               /\ rewriters = numeric \o katakana
        /\ sStage \in {"numeric", "katakana", "ready"} =>
               /\ Setup!Known("symbol") /\ simple = Setup!POSID("symbol")
               /\ SimpleId < dict.numLeft /\ SimpleId < dict.numRight

SetupInv ==
    /\ Outside /\ RulesRead /\ DefsRead /\ CandidatesMade /\ RewritersMade
    /\ sStage \in Behind => sN = Len(defs)

\* An id of a part of speech the dictionary knows is that of its first place.
LEMMA KnownHasId ==
    ASSUME Setup!LinesAssumption, Outside, NEW pos, Setup!Known(pos)
    PROVE  /\ Setup!POSID(pos) + 1 \in DOMAIN dict.posList /\ Setup!POSID(pos) \in Int
           /\ dict.posList[Setup!POSID(pos) + 1] = pos
<1> DEFINE I == {i \in 1 .. Len(dict.posList) : dict.posList[i] = pos}
<1>1. dict.posList \in Seq(Range(dict.posList))
  BY DEF Setup!LinesAssumption, Outside, Setup!Range, Range
<1>2. I # {} /\ I \in SUBSET Nat
  BY <1>1 DEF Setup!Known, Setup!Contains
<1>3. PICK m \in I : m = Setup!Min(I)
  <2> HIDE DEF I
  <2>1. \E x \in I : \A y \in I : x =< y
    BY <1>2, Least
  <2> QED BY <2>1 DEF Setup!Min
<1>4. Setup!POSID(pos) = m - 1
  BY <1>2, <1>3 DEF Setup!POSID, Setup!SelectInSeq
<1>5. m \in 1 .. Len(dict.posList) /\ dict.posList[m] = pos
  OBVIOUS
<1>6. DOMAIN dict.posList = 1 .. Len(dict.posList) /\ m \in Int /\ (m - 1) + 1 = m /\ m - 1 \in Int
  BY <1>1, <1>5
<1> HIDE DEF I
<1> QED BY <1>4, <1>5, <1>6

LEMMA DefTyped ==
    ASSUME Setup!LinesAssumption, NEW l \in UnkLines, l # Setup!Malformed
    PROVE  /\ l.cat \in Categories /\ l.left \in Int /\ l.right \in Int
           /\ DefOf(l).left = Setup!Unsigned(l.left) /\ DefOf(l).right = Setup!Unsigned(l.right)
           /\ DefOf(l).cat = l.cat /\ DefOf(l).pos = l.pos
           /\ DefOf(l).left \in Int /\ DefOf(l).right \in Int
<1>1. l \in [cat : Categories, left : Int, right : Int, pos : {l.pos}]
  BY DEF Setup!LinesAssumption
<1>2. 2 ^ Bits \in Int
  BY DEF Setup!LinesAssumption
<1> QED BY <1>1, <1>2 DEF DefOf, Setup!Unsigned

LEMMA SetupStarts == ASSUME Setup!LinesAssumption, Setup!Init PROVE SetupInv
<1> USE DEF Setup!Init
<1>1. Outside
  BY DEF Outside
<1>2. RulesRead /\ DefsRead /\ CandidatesMade
  BY DEF RulesRead, DefsRead, CandidatesMade, AtCands, AtDefs
<1>3. RewritersMade
  BY DEF RewritersMade
<1> QED BY <1>1, <1>2, <1>3 DEF SetupInv, Behind, AtCands, AtDefs

\* Where the parts of speech, the definitions and the candidates do not change,
\* what is said of them does not.
LEMMA PartsStay ==
    ASSUME UNCHANGED <<dict, written>>
    PROVE  /\ \A pos : (Setup!Known(pos))' = Setup!Known(pos) /\ Setup!POSID(pos)' = Setup!POSID(pos)
           /\ \A d : Setup!Candidate(d)' = Setup!Candidate(d)
           /\ \A c, k : Of(c, k)' = Of(c, k)
           /\ \A x : Weighed(x)' = Weighed(x)
<1>1. \A pos : (Setup!Known(pos))' = Setup!Known(pos)
  BY DEF Setup!Known, Setup!Contains
<1>2. \A pos : Setup!POSID(pos)' = Setup!POSID(pos)
  BY DEF Setup!POSID, Setup!SelectInSeq
<1>3. \A d : Setup!Candidate(d)' = Setup!Candidate(d)
  BY <1>2 DEF Setup!Candidate
<1>4. \A c, k : Of(c, k)' = Of(c, k)
  BY DEF Of
<1>5. \A x : Weighed(x)' = Weighed(x)
  BY DEF Weighed
<1> QED BY <1>1, <1>2, <1>3, <1>4, <1>5

LEMMA FailKeeps == ASSUME SetupInv, Setup!FailWith PROVE SetupInv'
<1> USE DEF SetupInv, Setup!FailWith, Setup!Goto, Setup!config
<1>1. sStage' = "close" /\ UNCHANGED <<dict, defs, cands, sN, written, joinNumeric, joinKatakana>>
  OBVIOUS
<1>2. Outside'
  BY <1>1 DEF Outside
<1>3. RulesRead' /\ DefsRead' /\ CandidatesMade'
  BY <1>1 DEF RulesRead, DefsRead, CandidatesMade, AtCands, AtDefs
<1>4. RewritersMade'
  BY <1>1 DEF RewritersMade
<1> QED BY <1>1, <1>2, <1>3, <1>4 DEF Behind, AtCands, AtDefs

\* Definitions and candidates, where a step leaves them alone.
LEMMA DefsStay ==
    ASSUME DefsRead, CandidatesMade, UNCHANGED <<dict, defs, cands, sN, written>>,
           sStage \in AtCands, sStage' \in AtCands
    PROVE  DefsRead' /\ CandidatesMade'
<1>1. DefsRead'
  BY DEF DefsRead, AtCands
<1>2. CandidatesMade'
  BY PartsStay DEF CandidatesMade, AtCands
<1> QED BY <1>1, <1>2

LEMMA SetupStep ==
    ASSUME Setup!LinesAssumption, SetupInv, [Setup!Next]_(Setup!vars)
    PROVE  SetupInv'
<1> USE DEF SetupInv
<1>1. ASSUME Setup!OpenDictionary PROVE SetupInv'
  <2> USE <1>1 DEF Setup!OpenDictionary, Setup!Goto, Setup!config
  <2>1. /\ sStage = "dictionary" /\ sStage' \in {"chars", "failed"}
        /\ UNCHANGED <<joinNumeric, joinKatakana, replace, defs, cands, sN, rewriters, written>>
    OBVIOUS
  <2>2. Outside'
    BY <2>1 DEF Outside
  <2>3. RulesRead' /\ DefsRead' /\ CandidatesMade'
    BY <2>1 DEF RulesRead, DefsRead, CandidatesMade, AtCands, AtDefs
  <2>4. RewritersMade'
    BY <2>1 DEF RewritersMade
  <2> QED BY <2>1, <2>2, <2>3, <2>4 DEF Behind, AtCands, AtDefs
<1>2. ASSUME Setup!CloseDictionary PROVE SetupInv'
  <2> USE <1>2 DEF Setup!CloseDictionary, Setup!Goto, Setup!config
  <2>1. /\ sStage = "close" /\ sStage' = "failed"
        /\ UNCHANGED <<joinNumeric, joinKatakana, replace, defs, cands, sN, rewriters, written>>
    OBVIOUS
  <2>2. Outside'
    BY <2>1 DEF Outside
  <2>3. RulesRead' /\ DefsRead' /\ CandidatesMade'
    BY <2>1 DEF RulesRead, DefsRead, CandidatesMade, AtCands, AtDefs
  <2>4. RewritersMade'
    BY <2>1 DEF RewritersMade
  <2> QED BY <2>1, <2>2, <2>3, <2>4 DEF Behind, AtCands, AtDefs
<1>3. ASSUME Setup!ParseChars PROVE SetupInv'
  <2>1. CASE Setup!FailWith
    BY <2>1, FailKeeps
  <2>2. CASE Setup!Goto("rewrite") /\ UNCHANGED <<dict, Setup!config, written>>
    <3> USE <1>3, <2>2 DEF Setup!ParseChars, Setup!Goto, Setup!config
    <3>1. /\ sStage = "chars" /\ sStage' = "rewrite"
          /\ UNCHANGED <<dict, joinNumeric, joinKatakana, replace, defs, cands, sN, rewriters, written>>
      OBVIOUS
    <3>2. Outside'
      BY <3>1 DEF Outside
    <3>3. RulesRead'
      <4>1. written = <<>> /\ replace = {} /\ <<>> \in Seq(RewriteLines)
        BY <3>1 DEF Outside
      <4>2. Setup!Range(<<>>) = {}
        BY DEF Setup!Range
      <4> QED BY <3>1, <4>1, <4>2 DEF RulesRead, Setup!RulesAsWritten
    <3>4. DefsRead' /\ CandidatesMade'
      BY <3>1 DEF DefsRead, CandidatesMade, AtCands, AtDefs
    <3>5. RewritersMade'
      BY <3>1 DEF RewritersMade
    <3> QED BY <3>1, <3>2, <3>3, <3>4, <3>5 DEF Behind, AtCands, AtDefs
  <2> QED BY <1>3, <2>1, <2>2 DEF Setup!ParseChars
<1>4. ASSUME NEW cols \in RewriteLines, Setup!ReadRewriteLine(cols) PROVE SetupInv'
  <2>1. CASE Setup!FailWith
    BY <2>1, FailKeeps
  <2>2. CASE ~Setup!FailWith
    <3> USE <1>4, <2>2 DEF Setup!ReadRewriteLine, Setup!Goto
    <3>1. /\ sStage = "rewrite" /\ sStage' = "rewrite" /\ written' = Append(written, cols)
          /\ UNCHANGED <<dict, joinNumeric, joinKatakana, defs, cands, sN, rewriters>>
          /\ Len(cols) = 2 => ~Setup!Twice(cols[1])
          /\ replace' = IF Len(cols) = 2
                        THEN {rule \in replace : rule[1] # cols[1]} \cup {cols} ELSE replace
      OBVIOUS
    <3>2. Outside'
      BY <3>1 DEF Outside
    <3>3. RulesRead'
      <4>1. written \in Seq(RewriteLines)
        BY <3>1 DEF RulesRead
      <4>2. written' \in Seq(RewriteLines) /\ Setup!Range(written') = Setup!Range(written) \cup {cols}
        BY <3>1, <4>1 DEF Setup!Range
      <4>3. /\ {x \in Setup!Range(written) : Len(x) = 2} = replace
            /\ \A r1, r2 \in replace : r1[1] = r2[1] => r1 = r2
        BY <3>1 DEF RulesRead, Setup!RulesAsWritten
      <4>4. CASE Len(cols) = 2
        <5>1. \A rule \in replace : rule[1] # cols[1]
          BY <3>1, <4>4 DEF Setup!Twice
        <5>2. replace' = replace \cup {cols}
          BY <3>1, <4>4, <5>1
        <5>3. {x \in Setup!Range(written') : Len(x) = 2} = replace'
          BY <4>2, <4>3, <4>4, <5>2
        <5>4. \A r1, r2 \in replace' : r1[1] = r2[1] => r1 = r2
          BY <4>3, <5>1, <5>2
        <5> QED BY <4>2, <5>3, <5>4 DEF RulesRead, Setup!RulesAsWritten, Setup!Range
      <4>5. CASE Len(cols) # 2
        <5>1. replace' = replace
          BY <3>1, <4>5
        <5>2. {x \in Setup!Range(written') : Len(x) = 2} = replace'
          BY <4>2, <4>3, <4>5, <5>1
        <5> QED BY <4>2, <4>3, <5>1, <5>2 DEF RulesRead, Setup!RulesAsWritten, Setup!Range
      <4> QED BY <4>4, <4>5
    <3>4. DefsRead' /\ CandidatesMade'
      BY <3>1 DEF DefsRead, CandidatesMade, AtCands, AtDefs
    <3>5. RewritersMade'
      BY <3>1 DEF RewritersMade
    <3> QED BY <3>1, <3>2, <3>3, <3>4, <3>5 DEF Behind, AtCands, AtDefs
  <2> QED BY <2>1, <2>2
<1>5. ASSUME Setup!EndRewrite PROVE SetupInv'
  <2> USE <1>5 DEF Setup!EndRewrite, Setup!Goto, Setup!config
  <2>1. /\ sStage = "rewrite" /\ sStage' = "unk" /\ written' = <<>> /\ defs = <<>> /\ sN = 0
        /\ UNCHANGED <<dict, joinNumeric, joinKatakana, replace, defs, cands, sN, rewriters>>
    BY DEF Outside
  <2>2. Outside'
    BY <2>1 DEF Outside, AtDefs
  <2>3. RulesRead' /\ CandidatesMade'
    BY <2>1 DEF RulesRead, CandidatesMade, AtCands, AtDefs
  <2>4. DefsRead'
    BY <2>1 DEF DefsRead, AtDefs
  <2>5. RewritersMade'
    BY <2>1 DEF RewritersMade
  <2> QED BY <2>1, <2>2, <2>3, <2>4, <2>5 DEF Behind, AtCands, AtDefs
<1>6. ASSUME NEW entry \in UnkLines, Setup!ReadUnkLine(entry) PROVE SetupInv'
  <2>1. CASE Setup!FailWith
    BY <2>1, FailKeeps
  <2>2. CASE ~Setup!FailWith
    <3> USE <1>6, <2>2 DEF Setup!ReadUnkLine, Setup!Goto
    <3>1. /\ sStage = "unk" /\ sStage' = "unk"
          /\ written' = Append(written, entry) /\ defs' = Append(defs, DefOf(entry))
          /\ entry # Setup!Malformed /\ Setup!Parses(entry.left) /\ Setup!Parses(entry.right)
          /\ UNCHANGED <<dict, joinNumeric, joinKatakana, replace, cands, sN, rewriters>>
      BY DEF DefOf
    <3>2. Outside'
      BY <3>1 DEF Outside
    <3>3. RulesRead' /\ CandidatesMade'
      BY <3>1 DEF RulesRead, CandidatesMade, AtCands, AtDefs
    <3>4. DefsRead'
      <4> DEFINE L == UnkLines \ {Setup!Malformed}
                 D == {DefOf(l) : l \in L}
      <4>1. /\ written \in Seq(L) /\ defs \in Seq(D) /\ sN = 0 /\ Len(defs) = Len(written)
            /\ entry \in L /\ DefOf(entry) \in D
            /\ \A k \in DOMAIN written : Setup!Parses(written[k].left) /\ Setup!Parses(written[k].right)
            /\ \A k \in 1 .. Len(defs) : defs[k] = DefOf(written[k])
        BY <3>1 DEF DefsRead, Outside, AtDefs
      <4> HIDE DEF L, D
      <4>2. /\ written' \in Seq(L) /\ defs' \in Seq(D) /\ Len(defs') = Len(defs) + 1
            /\ Len(written') = Len(defs) + 1 /\ Len(defs) \in Nat
            /\ DOMAIN written = 1 .. Len(defs) /\ DOMAIN written' = 1 .. Len(defs) + 1
            /\ \A k \in 1 .. Len(defs) : written'[k] = written[k] /\ defs'[k] = defs[k]
            /\ written'[Len(defs) + 1] = entry /\ defs'[Len(defs) + 1] = DefOf(entry)
        BY <3>1, <4>1, AppendProperties
      <4>3. ASSUME NEW k \in 1 .. Len(defs) + 1
            PROVE  /\ Setup!Parses(written'[k].left) /\ Setup!Parses(written'[k].right)
                   /\ defs'[k] = DefOf(written'[k])
        <5>1. CASE k = Len(defs) + 1
          BY <3>1, <4>2, <5>1
        <5>2. CASE k # Len(defs) + 1
          BY <4>1, <4>2, <5>2
        <5> QED BY <5>1, <5>2
      <4>4. sN' \in 0 .. Len(defs')
        BY <3>1, <4>1, <4>2
      <4> QED BY <4>2, <4>3, <4>4 DEF DefsRead, L, D, DefOf
    <3>5. RewritersMade'
      BY <3>1 DEF RewritersMade
    <3> QED BY <3>1, <3>2, <3>3, <3>4, <3>5 DEF Behind, AtCands, AtDefs
  <2> QED BY <2>1, <2>2
<1>7. ASSUME Setup!EndUnk PROVE SetupInv'
  <2> USE <1>7 DEF Setup!EndUnk, Setup!Goto, Setup!config
  <2>1. /\ sStage = "unk" /\ sStage' = "candidates"
        /\ UNCHANGED <<dict, joinNumeric, joinKatakana, replace, defs, cands, sN, rewriters, written>>
        /\ sN = 0 /\ cands = [c \in Categories |-> <<>>]
    BY DEF Outside
  <2>2. Outside'
    BY <2>1 DEF Outside, AtDefs
  <2>3. RulesRead' /\ DefsRead'
    BY <2>1 DEF RulesRead, DefsRead, AtDefs
  <2>4. CandidatesMade'
    <3>1. \A c : Of(c, 0)' = {}
      BY DEF Of
    <3>2. Cardinality({}) = 0
      BY FS_EmptySet
    <3>3. ASSUME NEW c \in Categories
          PROVE  /\ cands'[c] \in Seq(Candidates) /\ Len(cands'[c]) = 0
                 /\ DOMAIN cands'[c] = {}
      <4>1. cands'[c] = <<>> /\ <<>> \in Seq(Candidates) /\ Len(<<>>) = 0 /\ DOMAIN <<>> = {}
        BY <2>1
      <4> QED BY <4>1
    <3>4. cands' \in [Categories -> Seq(Candidates)]
      <4>1. cands' = [c \in Categories |-> <<>>]
        BY <2>1
      <4>2. <<>> \in Seq(Candidates)
        OBVIOUS
      <4> QED BY <4>1, <4>2
    <3>5. sN' = 0 /\ 1 .. sN' = {}
      BY <2>1
    <3>6. \A c \in Categories : Len(cands'[c]) = Cardinality(Of(c, sN)')
      <4>1. \A c : Of(c, sN)' = {}
        BY <3>5 DEF Of
      <4> QED BY <3>2, <3>3, <4>1
    <3> QED BY <3>3, <3>4, <3>5, <3>6 DEF CandidatesMade
  <2>5. RewritersMade'
    BY <2>1 DEF RewritersMade
  <2> QED BY <2>1, <2>2, <2>3, <2>4, <2>5 DEF Behind, AtCands, AtDefs
<1>8. ASSUME Setup!MakeCandidate PROVE SetupInv'
  <2>1. CASE Setup!FailWith
    BY <2>1, FailKeeps
  <2>2. CASE ~Setup!FailWith
    <3> USE <1>8, <2>2 DEF Setup!MakeCandidate, Setup!Goto
    <3> DEFINE d == defs[sN + 1]
    <3>1. /\ sStage = "candidates" /\ sStage' = "candidates" /\ sN < Len(defs) /\ sN' = sN + 1
          /\ Setup!Known(d.pos) /\ Setup!CheckParam(d.left, d.right) /\ cands' = Setup!AddCandidate(d)
          /\ UNCHANGED <<dict, joinNumeric, joinKatakana, replace, defs, rewriters, written>>
      OBVIOUS
    <3>2. sN \in Nat /\ Len(defs) \in Nat /\ sN + 1 \in 1 .. Len(defs) /\ DOMAIN written = 1 .. Len(defs)
      BY <3>1 DEF DefsRead, AtDefs
    <3>3. PICK l \in UnkLines : l # Setup!Malformed /\ l = written[sN + 1] /\ d = DefOf(l)
      <4>1. written[sN + 1] \in UnkLines \ {Setup!Malformed} /\ d = DefOf(written[sN + 1])
        BY <3>1, <3>2, ElementOfSeq DEF DefsRead, AtDefs
      <4> QED BY <4>1
    <3>4. /\ l.cat \in Categories /\ d.cat = l.cat /\ d.left \in Int /\ d.right \in Int
      BY <3>3, DefTyped
    <3> HIDE DEF d
    <3>5. Outside'
      BY <3>1 DEF Outside
    <3>6. RulesRead' /\ DefsRead'
      BY <3>1, <3>2 DEF RulesRead, DefsRead, AtDefs
    <3>7. CandidatesMade'
      <4> DEFINE c == l.cat
                 x == Setup!Candidate(d)
      <4>1. /\ cands \in [Categories -> Seq(Candidates)]
            /\ \A b \in Categories : Len(cands[b]) = Cardinality(Of(b, sN))
            /\ \A b \in Categories : \A i \in DOMAIN cands[b] : Weighed(cands[b][i])
        BY <3>1 DEF CandidatesMade, AtCands, AtDefs
      <4>2. /\ x \in Candidates /\ Weighed(x) /\ c \in Categories
            /\ cands' = [cands EXCEPT ![c] = Append(@, x)]
        <5>1. Setup!POSID(d.pos) \in Int
          BY <3>1, KnownHasId
        <5> QED BY <3>1, <3>4, <5>1 DEF Setup!AddCandidate, Setup!Candidate, Candidates, Weighed, Setup!CheckParam
      <4>3. \A b : Of(b, sN + 1) = IF b = c THEN Of(b, sN) \cup {sN + 1} ELSE Of(b, sN)
        BY <3>2, <3>3 DEF Of
      <4>4. \A b : IsFiniteSet(Of(b, sN)) /\ sN + 1 \notin Of(b, sN)
        <5>1. ASSUME NEW b PROVE IsFiniteSet(Of(b, sN)) /\ sN + 1 \notin Of(b, sN)
          <6>1. Of(b, sN) \in SUBSET (1 .. sN) /\ IsFiniteSet(1 .. sN)
            BY <3>2, FS_Interval DEF Of
          <6> QED BY <3>2, <6>1, FS_Subset
        <5> QED BY <5>1
      <4>5. Cardinality(Of(c, sN + 1)) = Len(cands[c]) + 1
        <5>1. Cardinality(Of(c, sN) \cup {sN + 1}) = Cardinality(Of(c, sN)) + 1
          BY <4>4, FS_AddElement
        <5>2. Of(c, sN + 1) = Of(c, sN) \cup {sN + 1}
          BY <4>3
        <5>3. Len(cands[c]) = Cardinality(Of(c, sN))
          BY <4>1, <4>2
        <5> HIDE DEF c
        <5> QED BY <5>1, <5>2, <5>3
      <4> HIDE DEF c, x
      <4>6. /\ cands[c] \in Seq(Candidates) /\ cands'[c] = Append(cands[c], x)
            /\ \A b \in Categories : b # c => cands'[b] = cands[b]
        BY <4>1, <4>2
      <4>7. /\ cands'[c] \in Seq(Candidates) /\ Len(cands'[c]) = Len(cands[c]) + 1
            /\ Len(cands[c]) \in Nat
            /\ DOMAIN cands'[c] = 1 .. Len(cands[c]) + 1 /\ DOMAIN cands[c] = 1 .. Len(cands[c])
            /\ cands'[c][Len(cands[c]) + 1] = x
            /\ \A i \in DOMAIN cands[c] : cands'[c][i] = cands[c][i]
        BY <4>2, <4>6, AppendProperties
      <4>8. cands' \in [Categories -> Seq(Candidates)]
        BY <4>1, <4>2, <4>7
      <4>9. \A b \in Categories : Len(cands'[b]) = Cardinality(Of(b, sN + 1))
        BY <4>1, <4>3, <4>5, <4>6, <4>7
      <4>10. ASSUME NEW b \in Categories, NEW i \in DOMAIN cands'[b] PROVE Weighed(cands'[b][i])
        <5>1. CASE b = c /\ i = Len(cands[c]) + 1
          BY <4>2, <4>7, <5>1
        <5>2. CASE b = c /\ i # Len(cands[c]) + 1
          <6>1. i \in DOMAIN cands[c]
            BY <4>7, <5>2
          <6> QED BY <4>1, <4>2, <4>7, <5>2, <6>1
        <5>3. CASE b # c
          BY <4>1, <4>6, <5>3
        <5> QED BY <5>1, <5>2, <5>3
      <4>11. ASSUME NEW k \in 1 .. sN + 1
             PROVE  LET b == written[k].cat
                    IN  /\ Setup!Known(defs[k].pos)
                        /\ Cardinality(Of(b, k)) \in DOMAIN cands'[b]
                        /\ cands'[b][Cardinality(Of(b, k))] = Setup!Candidate(defs[k])
        <5>1. CASE k = sN + 1
          BY <3>1, <3>3, <4>5, <4>7, <5>1 DEF c, x, d
        <5>2. CASE k # sN + 1
          <6> DEFINE b == written[k].cat
          <6>1. k \in 1 .. sN
            BY <3>2, <5>2
          <6>2. /\ Setup!Known(defs[k].pos)
                /\ Cardinality(Of(b, k)) \in DOMAIN cands[b]
                /\ cands[b][Cardinality(Of(b, k))] = Setup!Candidate(defs[k])
            BY <3>1, <6>1 DEF CandidatesMade, AtCands, AtDefs
          <6>3. b \in Categories
            <7>1. k \in 1 .. Len(written) /\ written \in Seq(UnkLines \ {Setup!Malformed})
              BY <3>1, <3>2, <6>1 DEF DefsRead, AtDefs
            <7>2. written[k] \in UnkLines \ {Setup!Malformed}
              BY <7>1, ElementOfSeq
            <7> QED BY <7>2, DefTyped
          <6> HIDE DEF b
          <6>4. b = c => DOMAIN cands[b] \subseteq DOMAIN cands'[b]
            BY <4>7
          <6>5. CASE b = c
            <7>1. Cardinality(Of(b, k)) \in DOMAIN cands[c] /\ Cardinality(Of(b, k)) \in DOMAIN cands'[c]
              BY <6>2, <6>4, <6>5
            <7> QED BY <4>7, <6>2, <6>5, <7>1 DEF b
          <6>6. CASE b # c
            BY <4>6, <6>2, <6>3, <6>6 DEF b
          <6> QED BY <6>5, <6>6
        <5> QED BY <5>1, <5>2
      <4>12. /\ \A pos : (Setup!Known(pos))' = Setup!Known(pos)
             /\ \A e : Setup!Candidate(e)' = Setup!Candidate(e)
             /\ \A b, k : Of(b, k)' = Of(b, k)
             /\ \A y : Weighed(y)' = Weighed(y)
        BY <3>1, PartsStay
      <4> QED BY <3>1, <4>8, <4>9, <4>10, <4>11, <4>12 DEF CandidatesMade
    <3>8. RewritersMade'
      BY <3>1 DEF RewritersMade
    <3> QED BY <3>1, <3>5, <3>6, <3>7, <3>8 DEF Behind, AtCands, AtDefs
  <2> QED BY <2>1, <2>2
<1>9. ASSUME Setup!EndCandidates PROVE SetupInv'
  <2> USE <1>9 DEF Setup!EndCandidates, Setup!Goto, Setup!config
  <2>1. /\ sStage = "candidates" /\ sStage' = "simple" /\ sN = Len(defs)
        /\ UNCHANGED <<dict, joinNumeric, joinKatakana, replace, defs, cands, sN, rewriters, written>>
    OBVIOUS
  <2>2. Outside'
    BY <2>1 DEF Outside, AtDefs
  <2>3. DefsRead' /\ CandidatesMade'
    BY <2>1, DefsStay DEF AtCands, AtDefs
  <2>4. RulesRead' /\ RewritersMade'
    BY <2>1 DEF RulesRead, RewritersMade
  <2> QED BY <2>1, <2>2, <2>3, <2>4
<1>10. ASSUME Setup!MakeSimple PROVE SetupInv'
  <2>1. CASE Setup!FailWith
    BY <2>1, FailKeeps
  <2>2. CASE ~Setup!FailWith
    <3> USE <1>10, <2>2 DEF Setup!MakeSimple, Setup!Goto
    <3>1. /\ sStage = "simple" /\ sStage' = "numeric" /\ simple' = Setup!POSID("symbol")
          /\ Setup!Known("symbol") /\ Setup!CheckParam(SimpleId, SimpleId)
          /\ UNCHANGED <<dict, joinNumeric, joinKatakana, replace, defs, cands, sN, rewriters, written>>
      OBVIOUS
    <3>2. Outside'
      BY <3>1 DEF Outside, AtDefs
    <3>3. DefsRead' /\ CandidatesMade'
      BY <3>1, DefsStay DEF AtCands, AtDefs
    <3>4. RulesRead'
      BY <3>1 DEF RulesRead
    <3>5. RewritersMade'
      BY <3>1, PartsStay DEF RewritersMade, Setup!CheckParam
    <3> QED BY <3>1, <3>2, <3>3, <3>4, <3>5 DEF Behind, AtCands, AtDefs
  <2> QED BY <2>1, <2>2
<1>11. ASSUME Setup!MakeJoinNumeric PROVE SetupInv'
  <2>1. CASE Setup!FailWith
    BY <2>1, FailKeeps
  <2>2. CASE ~Setup!FailWith
    <3> USE <1>11, <2>2 DEF Setup!MakeJoinNumeric, Setup!Rewriter, Setup!Goto
    <3>1. /\ sStage = "numeric" /\ sStage' = "katakana" /\ joinNumeric => Setup!Known("numeral")
          /\ rewriters' = IF joinNumeric THEN Append(rewriters, <<"numeric", Setup!POSID("numeral")>>)
                          ELSE rewriters
          /\ UNCHANGED <<dict, joinNumeric, joinKatakana, replace, defs, cands, sN, simple, written>>
      OBVIOUS
    <3>2. Outside'
      BY <3>1 DEF Outside, AtDefs
    <3>3. DefsRead' /\ CandidatesMade'
      BY <3>1, DefsStay DEF AtCands, AtDefs
    <3>4. RulesRead'
      BY <3>1 DEF RulesRead
    <3>5. RewritersMade'
      <4>1. rewriters = <<>>
        BY <3>1 DEF RewritersMade
      <4>2. Append(<<>>, <<"numeric", Setup!POSID("numeral")>>) = << <<"numeric", Setup!POSID("numeral")>> >>
        OBVIOUS
      <4> QED BY <3>1, <4>1, <4>2, PartsStay DEF RewritersMade
    <3> QED BY <3>1, <3>2, <3>3, <3>4, <3>5 DEF Behind, AtCands, AtDefs
  <2> QED BY <2>1, <2>2
<1>12. ASSUME Setup!MakeJoinKatakana PROVE SetupInv'
  <2>1. CASE Setup!FailWith
    BY <2>1, FailKeeps
  <2>2. CASE ~Setup!FailWith
    <3> USE <1>12, <2>2 DEF Setup!MakeJoinKatakana, Setup!Rewriter, Setup!Goto
    <3> DEFINE w == <<"katakana", Setup!POSID("noun")>>
               v == <<"numeric", Setup!POSID("numeral")>>
    <3>1. /\ sStage = "katakana" /\ sStage' = "ready" /\ joinKatakana => Setup!Known("noun")
          /\ rewriters' = IF joinKatakana THEN Append(rewriters, w) ELSE rewriters
          /\ UNCHANGED <<dict, joinNumeric, joinKatakana, replace, defs, cands, sN, simple, written>>
      OBVIOUS
    <3>2. Outside'
      BY <3>1 DEF Outside, AtDefs
    <3>3. DefsRead' /\ CandidatesMade'
      BY <3>1, DefsStay DEF AtCands, AtDefs
    <3>4. RulesRead'
      BY <3>1 DEF RulesRead
    <3>5. RewritersMade'
      <4>1. rewriters = IF joinNumeric THEN <<v>> ELSE <<>>
        BY <3>1 DEF RewritersMade
      <4> HIDE DEF v, w
      <4>2. /\ Append(<<v>>, w) = <<v>> \o <<w>> /\ Append(<<>>, w) = <<>> \o <<w>>
            /\ <<v>> = <<v>> \o <<>> /\ <<>> = <<>> \o <<>>
        <5>1. <<v>> \in Seq({v, w}) /\ <<w>> \in Seq({v, w}) /\ <<>> \in Seq({v, w})
          OBVIOUS
        <5>2. Append(<<v>>, w) = <<v>> \o <<w>> /\ Append(<<>>, w) = <<>> \o <<w>>
          BY <5>1, AppendIsConcat
        <5> QED BY <5>1, <5>2, ConcatEmptySeq
      <4>3. rewriters' = (IF joinNumeric THEN <<v>> ELSE <<>>) \o (IF joinKatakana THEN <<w>> ELSE <<>>)
        <5>1. CASE joinNumeric
          BY <3>1, <4>1, <4>2, <5>1
        <5>2. CASE ~joinNumeric
          BY <3>1, <4>1, <4>2, <5>2
        <5> QED BY <5>1, <5>2
      <4> QED BY <3>1, <4>3, PartsStay DEF RewritersMade, v, w
    <3> QED BY <3>1, <3>2, <3>3, <3>4, <3>5 DEF Behind, AtCands, AtDefs
  <2> QED BY <2>1, <2>2
<1>13. CASE UNCHANGED Setup!vars
  <2>1. UNCHANGED <<sStage, dict, joinNumeric, joinKatakana, replace, defs, cands, sN, simple,
                    rewriters, written>>
    BY <1>13 DEF Setup!vars, Setup!config
  <2>2. Outside' /\ RulesRead' /\ DefsRead'
    BY <2>1 DEF Outside, RulesRead, DefsRead, Setup!RulesAsWritten
  <2>3. CandidatesMade' /\ RewritersMade'
    BY <2>1, PartsStay DEF CandidatesMade, RewritersMade
  <2> QED BY <2>1, <2>2, <2>3
<1> QED BY <1>1, <1>2, <1>3, <1>4, <1>5, <1>6, <1>7, <1>8, <1>9, <1>10, <1>11, <1>12, <1>13
     DEF Setup!Next

LEMMA WeighedAnswer == ASSUME SetupInv PROVE Setup!CandidatesWeighed
BY DEF SetupInv, CandidatesMade, RewritersMade, Weighed, Setup!CandidatesWeighed, AtCands, AtDefs

LEMMA WrittenAnswer ==
    ASSUME Setup!LinesAssumption, SetupInv
    PROVE  Setup!CandidatesAsWritten
<1> SUFFICES ASSUME sStage = "ready", dict.numLeft <= 2 ^ (Bits - 1), dict.numRight <= 2 ^ (Bits - 1)
             PROVE  /\ \A c \in Categories : Len(cands[c]) = Cardinality(Of(c, Len(written)))
                    /\ \A k \in DOMAIN written :
                           LET entry == written[k]
                               made == cands[entry.cat][Cardinality(Of(entry.cat, k))]
                           IN  /\ made.left = entry.left /\ made.right = entry.right
                               /\ dict.posList[made.pos + 1] = entry.pos
  BY DEF Setup!CandidatesAsWritten, Of, Setup!Cardinality, Cardinality
<1>1. /\ written \in Seq(UnkLines \ {Setup!Malformed}) /\ sN = Len(defs) /\ Len(defs) = Len(written)
      /\ \A k \in DOMAIN written : Setup!Parses(written[k].left) /\ Setup!Parses(written[k].right)
      /\ \A k \in 1 .. Len(defs) : defs[k] = DefOf(written[k])
  BY DEF SetupInv, DefsRead, Behind, AtCands, AtDefs
<1>2. \A c \in Categories : Len(cands[c]) = Cardinality(Of(c, Len(written)))
  BY <1>1 DEF SetupInv, CandidatesMade, AtCands, AtDefs
<1>3. ASSUME NEW k \in DOMAIN written
      PROVE  LET entry == written[k]
                 made == cands[entry.cat][Cardinality(Of(entry.cat, k))]
             IN  /\ made.left = entry.left /\ made.right = entry.right
                 /\ dict.posList[made.pos + 1] = entry.pos
  <2> DEFINE entry == written[k]
             made == cands[entry.cat][Cardinality(Of(entry.cat, k))]
             d == DefOf(entry)
             H == 2 ^ (Bits - 1)
  <2>1. /\ entry \in UnkLines /\ entry # Setup!Malformed /\ k \in 1 .. sN /\ defs[k] = d
        /\ Setup!Parses(entry.left) /\ Setup!Parses(entry.right)
    <3>1. DOMAIN written = 1 .. Len(written) /\ entry \in UnkLines \ {Setup!Malformed}
      BY <1>1, ElementOfSeq
    <3> QED BY <1>1, <3>1
  <2>2. /\ Setup!Known(d.pos) /\ made = Setup!Candidate(d)
        /\ Cardinality(Of(entry.cat, k)) \in DOMAIN cands[entry.cat]
    BY <2>1 DEF SetupInv, CandidatesMade, AtCands, AtDefs
  <2>3. /\ entry.cat \in Categories /\ entry.left \in Int /\ entry.right \in Int
        /\ d.left = Setup!Unsigned(entry.left) /\ d.right = Setup!Unsigned(entry.right)
        /\ d.pos = entry.pos
    BY <2>1, DefTyped
  <2>4. Weighed(made)
    BY <2>2, <2>3 DEF SetupInv, CandidatesMade, AtCands, AtDefs
  <2>5. made.left = d.left /\ made.right = d.right /\ made.pos = Setup!POSID(entry.pos)
    BY <2>2, <2>3 DEF Setup!Candidate
  <2>6. /\ H \in Nat /\ 2 ^ Bits = 2 * H /\ dict.numLeft \in Int /\ dict.numRight \in Int
        /\ dict.numLeft <= H /\ dict.numRight <= H
    BY DEF Setup!LinesAssumption, SetupInv, Outside
  <2>7. entry.left \in -H .. H - 1 /\ entry.right \in -H .. H - 1
    BY <2>1 DEF Setup!Parses
  <2>8. dict.posList[made.pos + 1] = entry.pos
    BY <2>2, <2>3, <2>5, KnownHasId DEF SetupInv
  <2> HIDE DEF entry, made, d, H
  <2>9. made.left = entry.left
    <3>1. entry.left < 0 => made.left = entry.left + 2 * H
      BY <2>3, <2>5, <2>6 DEF Setup!Unsigned
    <3>2. entry.left >= 0 => made.left = entry.left
      BY <2>3, <2>5, <2>6 DEF Setup!Unsigned
    <3> QED BY <2>3, <2>4, <2>6, <2>7, <3>1, <3>2 DEF Weighed
  <2>10. made.right = entry.right
    <3>1. entry.right < 0 => made.right = entry.right + 2 * H
      BY <2>3, <2>5, <2>6 DEF Setup!Unsigned
    <3>2. entry.right >= 0 => made.right = entry.right
      BY <2>3, <2>5, <2>6 DEF Setup!Unsigned
    <3> QED BY <2>3, <2>4, <2>6, <2>7, <3>1, <3>2 DEF Weighed
  <2> QED BY <2>8, <2>9, <2>10 DEF entry, made
<1> QED BY <1>2, <1>3

LEMMA RewritersAnswer ==
    ASSUME Setup!LinesAssumption, SetupInv
    PROVE  Setup!RewritersAsAsked
<1> DEFINE ask == (IF joinNumeric THEN << <<"numeric", "numeral">> >> ELSE <<>>)
                  \o (IF joinKatakana THEN << <<"katakana", "noun">> >> ELSE <<>>)
<1> SUFFICES ASSUME sStage = "ready"
             PROVE  /\ dict.posList[simple + 1] = "symbol" /\ Len(rewriters) = Len(ask)
                    /\ \A k \in DOMAIN ask : /\ rewriters[k][1] = ask[k][1]
                                              /\ dict.posList[rewriters[k][2] + 1] = ask[k][2]
  BY DEF Setup!RewritersAsAsked
<1>1. /\ Setup!Known("symbol") /\ simple = Setup!POSID("symbol")
      /\ joinNumeric => Setup!Known("numeral")
      /\ joinKatakana => Setup!Known("noun")
      /\ rewriters = (IF joinNumeric THEN << <<"numeric", Setup!POSID("numeral")>> >> ELSE <<>>)
                     \o (IF joinKatakana THEN << <<"katakana", Setup!POSID("noun")>> >> ELSE <<>>)
  BY DEF SetupInv, RewritersMade
<1>2. \A pos : Setup!Known(pos) => dict.posList[Setup!POSID(pos) + 1] = pos
  BY KnownHasId DEF SetupInv
<1>3. dict.posList[simple + 1] = "symbol"
  BY <1>1, <1>2
<1>4. CASE joinNumeric /\ joinKatakana
  <2>1. /\ rewriters = << <<"numeric", Setup!POSID("numeral")>>, <<"katakana", Setup!POSID("noun")>> >>
        /\ ask = << <<"numeric", "numeral">>, <<"katakana", "noun">> >>
    <3>1. ASSUME NEW a, NEW b PROVE <<a>> \o <<b>> = <<a, b>>
      <4>1. <<a>> \in Seq({a, b}) /\ b \in {a, b}
        OBVIOUS
      <4>2. Append(<<a>>, b) = <<a>> \o <<b>>
        BY <4>1, AppendIsConcat
      <4>3. Append(<<a>>, b) = <<a, b>>
        <5>1. /\ Append(<<a>>, b) \in Seq({a, b}) /\ Len(Append(<<a>>, b)) = 2
              /\ Append(<<a>>, b)[1] = a /\ Append(<<a>>, b)[2] = b
          BY <4>1, AppendProperties
        <5>2. <<a, b>> \in Seq({a, b}) /\ Len(<<a, b>>) = 2 /\ <<a, b>>[1] = a /\ <<a, b>>[2] = b
          OBVIOUS
        <5>3. \A i \in 1 .. 2 : Append(<<a>>, b)[i] = <<a, b>>[i]
          <6>1. \A i \in 1 .. 2 : i = 1 \/ i = 2
            OBVIOUS
          <6> QED BY <5>1, <5>2, <6>1
        <5> QED BY <5>1, <5>2, <5>3, SeqEqual
      <4> QED BY <4>2, <4>3
    <3> QED BY <1>1, <1>4, <3>1
  <2> QED BY <1>1, <1>2, <1>3, <1>4, <2>1
<1>5. CASE joinNumeric /\ ~joinKatakana
  <2>1. /\ rewriters = << <<"numeric", Setup!POSID("numeral")>> >>
        /\ ask = << <<"numeric", "numeral">> >>
    BY <1>1, <1>5
  <2> QED BY <1>1, <1>2, <1>3, <1>5, <2>1
<1>6. CASE ~joinNumeric /\ joinKatakana
  <2>1. /\ rewriters = << <<"katakana", Setup!POSID("noun")>> >>
        /\ ask = << <<"katakana", "noun">> >>
    BY <1>1, <1>6
  <2> QED BY <1>1, <1>2, <1>3, <1>6, <2>1
<1>7. CASE ~joinNumeric /\ ~joinKatakana
  <2>1. rewriters = <<>> /\ ask = <<>>
    BY <1>1, <1>7
  <2> QED BY <1>3, <2>1
<1> QED BY <1>4, <1>5, <1>6, <1>7

\* Open makes what its definitions say and its options ask for, within what the
\* dictionary can serve, or closes the dictionary (sudachin.go:77):
\* the candidates are the lines of unk.def, in their order.
THEOREM SpecMadeAsWritten ==
    ASSUME Setup!LinesAssumption
    PROVE  Setup!Spec => []MadeAsWritten
<1>1. Setup!Init => SetupInv
  BY SetupStarts
<1>2. SetupInv /\ [Setup!Next]_(Setup!vars) => SetupInv'
  BY SetupStep
<1>3. SetupInv => MadeAsWritten
  <2> SUFFICES ASSUME SetupInv PROVE MadeAsWritten
    OBVIOUS
  <2>1. Setup!RulesAsWritten
    BY DEF SetupInv, RulesRead, Setup!RulesAsWritten
  <2>2. Setup!FailureCloses
    BY DEF SetupInv, Outside, Setup!FailureCloses
  <2> QED BY <2>1, <2>2, WeighedAnswer, WrittenAnswer, RewritersAnswer DEF MadeAsWritten, Setup!MadeAsWritten
<1> QED BY <1>1, <1>2, <1>3, PTL DEF Setup!Spec

\* The ids of a line that is read are as wide as an id, whatever it says, and
\* the definitions keep them although a later step fails.
WidthsKept ==
    /\ \A k \in DOMAIN defs : defs[k].left \in Setup!Ids /\ defs[k].right \in Setup!Ids
    /\ \E S : defs \in Seq(S)
    /\ sN \in 0 .. Len(defs)
    /\ simple \in {Setup!NoId} \cup 0 .. Len(dict.posList) - 1

LEMMA WideEnough ==
    ASSUME Setup!LinesAssumption, NEW i, Setup!Parses(i)
    PROVE  Setup!Unsigned(i) \in Setup!Ids
<1> DEFINE half == 2 ^ (Bits - 1)
<1>1. half \in Nat /\ 2 ^ Bits = 2 * half
  BY DEF Setup!LinesAssumption
<1>2. i \in -half .. half - 1
  BY DEF Setup!Parses
<1> HIDE DEF half
<1>3. Setup!Unsigned(i) = IF i < 0 THEN i + 2 * half ELSE i
  BY <1>1 DEF Setup!Unsigned
<1>4. Setup!Ids = 0 .. 2 * half - 1
  BY <1>1 DEF Setup!Ids
<1> QED BY <1>1, <1>2, <1>3, <1>4

LEMMA StepWidths ==
    ASSUME Setup!LinesAssumption, SetupInv, WidthsKept, [Setup!Next]_(Setup!vars)
    PROVE  WidthsKept'
<1> DEFINE Same == /\ UNCHANGED <<defs, sN, simple>> /\ dict'.posList = dict.posList
<1>0. ASSUME Same PROVE WidthsKept'
  BY <1>0 DEF WidthsKept, Setup!Ids
<1>F. ASSUME Setup!FailWith PROVE Same
  BY <1>F DEF Setup!FailWith, Setup!config
<1>1. CASE Setup!OpenDictionary
  <2>1. dict'.posList = dict.posList
    BY <1>1 DEF Setup!OpenDictionary, SetupInv, Outside
  <2> QED BY <1>0, <1>1, <2>1 DEF Setup!OpenDictionary, Setup!config
<1>2. CASE Setup!CloseDictionary
  <2>1. dict'.posList = dict.posList
    BY <1>2 DEF Setup!CloseDictionary, SetupInv, Outside
  <2> QED BY <1>0, <1>2, <2>1 DEF Setup!CloseDictionary, Setup!config
<1>3. CASE Setup!ParseChars
  BY <1>0, <1>F, <1>3 DEF Setup!ParseChars, Setup!config
<1>4. ASSUME NEW cols \in RewriteLines, Setup!ReadRewriteLine(cols) PROVE WidthsKept'
  BY <1>0, <1>F, <1>4 DEF Setup!ReadRewriteLine
<1>5. CASE Setup!EndRewrite
  BY <1>0, <1>5 DEF Setup!EndRewrite, Setup!config
<1>6. ASSUME NEW l \in UnkLines, Setup!ReadUnkLine(l) PROVE WidthsKept'
  <2>1. CASE Setup!FailWith
    BY <1>0, <1>F, <2>1
  <2>2. CASE ~Setup!FailWith
    <3>1. /\ l # Setup!Malformed /\ Setup!Parses(l.left) /\ Setup!Parses(l.right)
          /\ defs' = Append(defs, DefOf(l)) /\ UNCHANGED <<sN, simple, dict>>
      BY <1>6, <2>2 DEF Setup!ReadUnkLine, DefOf
    <3>2. DefOf(l).left \in Setup!Ids /\ DefOf(l).right \in Setup!Ids
      BY <3>1, DefTyped, WideEnough
    <3>3. PICK S : defs \in Seq(S)
      BY DEF WidthsKept
    <3>4. defs \in Seq(S \cup {DefOf(l)}) /\ Len(defs) \in Nat
      BY <3>3, SeqOfMore
    <3> DEFINE d == DefOf(l)
    <3>5. d \in S \cup {d}
      OBVIOUS
    <3> HIDE DEF d
    <3>6. /\ defs' \in Seq(S \cup {d}) /\ Len(defs') = Len(defs) + 1
          /\ DOMAIN defs' = 1 .. Len(defs) + 1 /\ defs'[Len(defs) + 1] = d
          /\ \A k \in 1 .. Len(defs) : k \in DOMAIN defs /\ defs'[k] = defs[k]
      <4>1. defs' = Append(defs, d) /\ defs \in Seq(S \cup {d})
        BY <3>1, <3>4 DEF d
      <4> QED BY <3>4, <3>5, <4>1, AppendProperties
    <3>7. ASSUME NEW k \in DOMAIN defs'
          PROVE  defs'[k].left \in Setup!Ids /\ defs'[k].right \in Setup!Ids
      <4>1. CASE k = Len(defs) + 1
        BY <3>2, <3>6, <4>1 DEF d
      <4>2. CASE k # Len(defs) + 1
        <5>1. k \in 1 .. Len(defs)
          BY <3>4, <3>6, <4>2
        <5> QED BY <3>6, <5>1 DEF WidthsKept
      <4> QED BY <4>1, <4>2
    <3>8. sN \in 0 .. Len(defs) + 1
      BY <3>4 DEF WidthsKept
    <3> QED BY <3>1, <3>6, <3>7, <3>8 DEF WidthsKept, Setup!Ids
  <2> QED BY <2>1, <2>2
<1>7. CASE Setup!EndUnk
  BY <1>0, <1>7 DEF Setup!EndUnk, Setup!config
<1>8. CASE Setup!MakeCandidate
  <2>1. CASE Setup!FailWith
    BY <1>0, <1>F, <2>1
  <2>2. CASE ~Setup!FailWith
    <3>1. sN < Len(defs) /\ sN' = sN + 1 /\ UNCHANGED <<defs, simple, dict>>
      BY <1>8, <2>2 DEF Setup!MakeCandidate
    <3>2. Len(defs) \in Nat
      BY LenProperties DEF WidthsKept
    <3>3. sN' \in 0 .. Len(defs)
      BY <3>1, <3>2 DEF WidthsKept
    <3> QED BY <3>1, <3>3 DEF WidthsKept, Setup!Ids
  <2> QED BY <2>1, <2>2
<1>9. CASE Setup!EndCandidates
  BY <1>0, <1>9 DEF Setup!EndCandidates, Setup!config
<1>10. CASE Setup!MakeSimple
  <2>1. CASE Setup!FailWith
    BY <1>0, <1>F, <2>1
  <2>2. CASE ~Setup!FailWith
    <3>1. Setup!Known("symbol") /\ simple' = Setup!POSID("symbol") /\ UNCHANGED <<defs, sN, dict>>
      BY <1>10, <2>2 DEF Setup!MakeSimple
    <3>2. /\ Setup!POSID("symbol") + 1 \in DOMAIN dict.posList /\ Setup!POSID("symbol") \in Int
      BY <3>1, KnownHasId DEF SetupInv
    <3>3. DOMAIN dict.posList = 1 .. Len(dict.posList) /\ Len(dict.posList) \in Nat
      <4>1. dict.posList \in Seq(Range(dict.posList))
        BY DEF SetupInv, Outside, Setup!LinesAssumption, Setup!Range, Range
      <4> QED BY <4>1, LenProperties
    <3>4. simple' \in 0 .. Len(dict.posList) - 1
      BY <3>1, <3>2, <3>3
    <3> QED BY <3>1, <3>4 DEF WidthsKept, Setup!Ids
  <2> QED BY <2>1, <2>2
<1>11. CASE Setup!MakeJoinNumeric
  BY <1>0, <1>F, <1>11 DEF Setup!MakeJoinNumeric, Setup!Rewriter
<1>12. CASE Setup!MakeJoinKatakana
  BY <1>0, <1>F, <1>12 DEF Setup!MakeJoinKatakana, Setup!Rewriter
<1>13. CASE UNCHANGED Setup!vars
  BY <1>0, <1>13 DEF Setup!vars, Setup!config
<1> QED BY <1>1, <1>2, <1>3, <1>4, <1>5, <1>6, <1>7, <1>8, <1>9, <1>10, <1>11, <1>12, <1>13
        DEF Setup!Next

LEMMA SpecSetupTypeOK ==
    ASSUME Setup!LinesAssumption
    PROVE  Setup!Spec => [](Setup!TypeOK)
<1>1. Setup!Init => SetupInv /\ WidthsKept
  <2>1. Setup!Init => WidthsKept
    <3> SUFFICES ASSUME Setup!Init PROVE WidthsKept
      OBVIOUS
    <3>1. defs = <<>> /\ sN = 0 /\ simple = Setup!NoId
      BY DEF Setup!Init
    <3>2. defs \in Seq({}) /\ Len(defs) = 0 /\ DOMAIN defs = {}
      BY <3>1, EmptySeq
    <3> QED BY <3>1, <3>2 DEF WidthsKept
  <2> QED BY <2>1, SetupStarts
<1>2. SetupInv /\ WidthsKept /\ [Setup!Next]_(Setup!vars) => (SetupInv /\ WidthsKept)'
  BY SetupStep, StepWidths
<1>3. SetupInv /\ WidthsKept => Setup!TypeOK
  <2>1. SetupInv => dict.open \in BOOLEAN
    BY DEF SetupInv, Outside
  <2>2. SetupInv => sStage \in {"dictionary", "chars", "rewrite", "unk", "candidates", "simple", "numeric",
                  "katakana", "close", "ready", "failed"}
    BY DEF SetupInv, Outside, AtDefs
  <2> QED BY <2>1, <2>2 DEF Setup!TypeOK, WidthsKept
<1> QED BY <1>1, <1>2, <1>3, PTL DEF Setup!Spec

-----------------------------------------------------------------------------
\* For any goroutines, inputs and buffer, any dictionary and definitions that
\* are of lines: no release is without a mapping, no buffer holds more pieces
\* than it has room for, every id is as wide as an id and of a part of speech
\* the dictionary lists, and no two stretches of the table begin at the same
\* character.
THEOREM SpecTypesOK ==
    ASSUME Setup!LinesAssumption, Table!LinesAssumption
    PROVE  Spec /\ CommandSpec /\ Setup!Spec /\ Table!Spec => []TypesOK
<1>1. Spec => []TypeOK
  <2>1. LifeInv => TypeOK
    BY DEF LifeInv
  <2> QED BY <2>1, SpecLifeInv, PTL
<1>2. TypeOK /\ CommandTypeOK /\ Setup!TypeOK /\ Table!TypeOK => TypesOK
  BY DEF TypesOK
<1> QED BY <1>1, <1>2, SpecCommandTypeOK, SpecSetupTypeOK, SpecTableTypeOK, PTL
=============================================================================
