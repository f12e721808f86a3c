---------------------------- MODULE CommandLine ----------------------------
(***************************************************************************)
(* The command (cmd/sudachin/main.go) and the Writer it prints through      *)
(* (internal/adapter/presenter): every line of every input is analysed and  *)
(* written into a buffer, which goes to the output when it is full and at   *)
(* the end. Any call to the system may fail; run then undoes, from the last *)
(* to the first, what it had opened.                                        *)
(*                                                                         *)
(* A line is the number of pieces its analysis is written in (one a         *)
(* morpheme and EOS, or one in all), or Bad, when its analysis fails.       *)
(***************************************************************************)
EXTENDS Integers, SequencesExt

CONSTANTS Inputs,   \* the sequences of inputs there may be, each of lines
          BufSize   \* pieces the buffer holds

Bad == 0

ASSUME CommandAssumption == Inputs \subseteq Seq(Seq(Nat)) /\ BufSize \in Nat \ {0}

VARIABLES inputs, stdin,   \* what is read: the standard input, or files
          hasOutput,       \* -o is given
          step,
          file, line,      \* inputs done, and lines read of the next one
          piece,           \* pieces written of that line
          buffer, wrerr,   \* bufio.Writer: what it holds, and its first error
          sink,            \* what has reached the output
          failed,          \* err # nil
          open             \* what is open

read == <<file, line, piece>>
writer == <<buffer, wrerr, sink>>
commandVars == <<inputs, stdin, hasOutput, step, read, writer, failed, open>>

CommandInit ==
    /\ inputs \in Inputs /\ stdin \in BOOLEAN /\ hasOutput \in BOOLEAN
    /\ inputs # <<>> /\ (stdin => Len(inputs) = 1)
    /\ step = "flags" /\ file = 0 /\ line = 0 /\ piece = 0
    /\ buffer = <<>> /\ wrerr = FALSE /\ sink = <<>> /\ failed = FALSE /\ open = {}

Proceed(l) == step' = l /\ UNCHANGED <<inputs, stdin, hasOutput>>
Fail(l) == Proceed(l) /\ failed' = TRUE

-----------------------------------------------------------------------------
ParseFlags ==
    /\ step = "flags"
    /\ \/ Proceed("analyzer") /\ UNCHANGED failed
       \/ Fail("exit")
    /\ UNCHANGED <<read, writer, open>>

OpenAnalyzer ==
    /\ step = "analyzer"
    /\ \/ Proceed("output") /\ open' = {"analyzer"} /\ UNCHANGED failed
       \/ Fail("exit") /\ UNCHANGED open
    /\ UNCHANGED <<read, writer>>

\* The analyser is closed by what run has deferred.
WithoutOutput_Returns == "exit"
WithoutOutput == "closeAnalyzer"

CreateOutput ==
    /\ step = "output"
    /\ \/ ~hasOutput /\ Proceed("input") /\ UNCHANGED <<failed, open>>
       \/ hasOutput /\ Proceed("input") /\ open' = open \cup {"output"} /\ UNCHANGED failed
       \/ hasOutput /\ Fail(WithoutOutput) /\ UNCHANGED open
    /\ UNCHANGED <<read, writer>>

\* The next input, if there is one; the standard input is not opened.
OpenInput ==
    /\ step = "input" /\ file < Len(inputs)
    /\ \/ Proceed("lines") /\ open' = open \cup (IF stdin THEN {} ELSE {"input"}) /\ UNCHANGED failed
       \/ ~stdin /\ Fail("flush") /\ UNCHANGED open
    /\ UNCHANGED <<read, writer>>

NoInput ==
    /\ step = "input" /\ file = Len(inputs)
    /\ Proceed("flush") /\ UNCHANGED <<read, writer, failed, open>>

Lines == inputs[file + 1]

\* analyzeLines: what Scan and Analyze answer.
AnalyzeLine ==
    /\ step = "lines" /\ line < Len(Lines)
    /\ IF Lines[line + 1] = Bad THEN Fail("closeInput") ELSE Proceed("write") /\ UNCHANGED failed
    /\ UNCHANGED <<read, writer, open>>

ScanEnds ==
    /\ step = "lines"
    /\ \/ line = Len(Lines) /\ Proceed("closeInput") /\ UNCHANGED failed
       \/ Fail("closeInput")
    /\ UNCHANGED <<read, writer, open>>

\* What the system does with a buffer: it takes it, or some of it only.
Emit ==
    \/ sink' = sink \o buffer /\ buffer' = <<>> /\ UNCHANGED wrerr
    \/ \E n \in 0 .. Len(buffer) : /\ sink' = sink \o SubSeq(buffer, 1, n)
                                   /\ buffer' = SubSeq(buffer, n + 1, Len(buffer))
                                   /\ wrerr' = TRUE

\* Writer.Write, piece by piece: a full buffer goes to the output first.
Full == Len(buffer) = BufSize

MakeRoom ==
    /\ step = "write" /\ Full
    /\ Emit
    /\ IF wrerr' THEN Fail("closeInput") ELSE Proceed("write") /\ UNCHANGED failed
    /\ UNCHANGED <<read, open>>

WritePiece ==
    /\ step = "write" /\ ~Full
    /\ buffer' = Append(buffer, <<file + 1, line + 1, piece + 1>>)
    /\ IF piece + 1 = Lines[line + 1]
       THEN Proceed("lines") /\ line' = line + 1 /\ piece' = 0
       ELSE Proceed("write") /\ piece' = piece + 1 /\ UNCHANGED line
    /\ UNCHANGED <<file, wrerr, sink, failed, open>>

\* analyzeFile closes what it opened; run goes on only if nothing failed.
AfterFile_GoesOn(err) == "input"
AfterFile(err) == IF err THEN "flush" ELSE "input"

CloseInput ==
    /\ step = "closeInput"
    /\ failed' \in (IF stdin THEN {failed} ELSE {failed, TRUE})
    /\ Proceed(AfterFile(failed')) /\ open' = open \ {"input"}
    /\ IF AfterFile(failed') = "input" THEN file' = file + 1 /\ line' = 0 /\ piece' = 0 ELSE UNCHANGED read
    /\ UNCHANGED writer

\* Flush also answers an error of before.
Flush_IfNoError ==
    /\ IF failed \/ buffer = <<>> THEN UNCHANGED writer ELSE Emit
    /\ failed' = (failed \/ wrerr')
Flush ==
    /\ IF wrerr \/ buffer = <<>> THEN UNCHANGED writer ELSE Emit
    /\ failed' = (failed \/ wrerr')

FlushWriter ==
    /\ step = "flush"
    /\ Flush
    /\ Proceed("closeOutput") /\ UNCHANGED <<read, open>>

CloseOutput ==
    /\ step = "closeOutput"
    /\ failed' \in (IF "output" \in open THEN {failed, TRUE} ELSE {failed})
    /\ open' = open \ {"output"}
    /\ Proceed("closeAnalyzer") /\ UNCHANGED <<read, writer>>

CloseAnalyzer ==
    /\ step = "closeAnalyzer"
    /\ failed' \in {failed, TRUE} /\ open' = open \ {"analyzer"}
    /\ Proceed("exit") /\ UNCHANGED <<read, writer>>

CommandNext ==
    \/ ParseFlags \/ OpenAnalyzer \/ CreateOutput \/ OpenInput \/ NoInput
    \/ AnalyzeLine \/ ScanEnds \/ MakeRoom \/ WritePiece \/ CloseInput
    \/ FlushWriter \/ CloseOutput \/ CloseAnalyzer

CommandSpec == CommandInit /\ [][CommandNext]_commandVars
-----------------------------------------------------------------------------
(* Properties *)

CommandTypeOK ==
    /\ step \in {"flags", "analyzer", "output", "input", "lines", "write", "closeInput", "flush",
               "closeOutput", "closeAnalyzer", "exit"}
    /\ file \in 0 .. Len(inputs) /\ line \in Nat /\ piece \in Nat
    /\ Len(buffer) <= BufSize /\ wrerr \in BOOLEAN /\ failed \in BOOLEAN
    /\ open \subseteq {"analyzer", "output", "input"}

\* What the lines are written as, up to piece p of line l of input f.
PiecesOf(f, l, p) == [k \in 1 .. p |-> <<f, l, k>>]
LinesOf(f, l) == FlattenSeq([k \in 1 .. l |-> PiecesOf(f, k, inputs[f][k])])
InputsUpTo(f) == FlattenSeq([k \in 1 .. f |-> LinesOf(k, Len(inputs[k]))])
Written(f, l, p) == InputsUpTo(f) \o LinesOf(f + 1, l) \o PiecesOf(f + 1, l + 1, p)

\* Nothing is lost, repeated or put out of order between the analysis and the
\* output, whatever the buffer holds and wherever a write fails.
InOrder == sink \o buffer = Written(file, line, piece)

\* The command answers success only if every line of every input has reached
\* the output and everything it opened is closed (main.go:66).
SuccessIsComplete ==
    step = "exit" /\ ~failed => sink = Written(Len(inputs), 0, 0) /\ open = {}

\* When something else than the output fails, what was analysed before it is
\* not lost: it is in the output (main.go:95).
EarlierLinesReachOutput == step = "exit" /\ ~wrerr => sink = Written(file, line, piece)

\* The analyser is there for every line and the output for every write, and
\* neither is left open, whichever call failed.
OpenWhileUsed ==
    [][/\ step' \in {"lines", "write"} => "analyzer" \in open'
       /\ sink' # sink /\ hasOutput => "output" \in open
       /\ step' = "exit" => open' = {}]_commandVars

\* After a failure no further line is analysed.
StopsAtFailure == [][failed => UNCHANGED <<file, line>>]_commandVars

\* What the output holds when the command ends, well or not.
OutputAtExit == SuccessIsComplete /\ EarlierLinesReachOutput

\* A failure anywhere stops the analysis and still closes everything, in time.
StopsInOrder == OpenWhileUsed /\ StopsAtFailure
=============================================================================
