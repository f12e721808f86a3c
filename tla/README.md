# A verification development of sudachin-go

sudachin-go is a Japanese morphological analyser in Go: it rewrites its input,
looks words up in a memory-mapped dictionary, invents words where there are
none, and returns the cheapest way to cut the text into words. This directory
holds TLA+ modules translated from its source, TLC configurations that check
them on small instances, and proofs checked by TLAPS. Paths below are relative
to the repository.

## 1. The system

| Part | Source | State | Operations | Talks to |
|---|---|---|---|---|
| Rewritable input text | `internal/domain/text/builder.go` | original, current text, offset map `m2o` | `Rewrite` (collect edits, sort, validate, apply, commit) | called by the tokenizer, once per input-text plugin |
| Input-text plugins | `internal/adapter/plugin/inputtext/` | none | `Rewrite` callbacks that register edits | the input text |
| Text under analysis | `internal/domain/text/text.go` | byte and character indexes, begin-of-word table, category runs | `Build`, then lookups | read by providers, lattice stage, rewriters |
| Character categories | `internal/domain/chars/` | stretches of code points, the first plane cached | `NewTable`, lookup | `Build` |
| Lattice | `internal/domain/lattice/lattice.go` | per position, the nodes that end there with cost and predecessor | `Insert`, `BestPath` | filled by the tokenizer, reads connection costs |
| Unknown-word providers | `internal/adapter/plugin/oov/oov.go` | none | `ProvideOOV` of MeCab and Simple | called back by the tokenizer |
| Tokenizer | `internal/usecase/tokenize/` | none of its own; one call is a long sequential computation | `Tokenize` | all of the above |
| Path rewriters | `internal/adapter/plugin/pathrewrite/` | a number parser | join numerals, join katakana | the best path |
| Words and morphemes | `internal/domain/morpheme/` | values | construction | the tokenizer |
| Dictionary file | `internal/infrastructure/dicfile/` | mapping, release function, byte tables | `Open`, `Parse`, lookups, `Close` | analyzer, tokenizer |
| Resources | `internal/infrastructure/resource/` | none | parsers of three embedded definitions | `Open` |
| Analyzer | `sudachin.go` | dictionary, tokenizer, closed flag | `Open`, `Analyze`, `Close` from many goroutines | all of the above |
| Command line, presenter | `cmd/sudachin/`, `internal/adapter/presenter/` | a buffered output | flags, lines in, lines out | the analyzer |

What is hard here, and what makes each part correct:

* **Input text.** Several plugins rewrite in turn, each on the output of the
  one before; offsets into the original must survive insertions, deletions and
  deletions at the head, or surfaces overlap, repeat or cut characters. A
  rejected rewrite must leave no trace, and no plugin may cause one, because it
  fails the whole text.
* **Text under analysis.** Whether a word may begin is decided by state carried
  from character to character; category runs are built from the right; two
  indexes with sentinels must agree.
* **Lattice and tokenizer.** Nodes are connected once, on insertion, to what
  ends at their begin at that moment. This is right only if nothing arrives
  there later. Dictionary words, providers, a retry of the last provider and
  categories that forbid unknown words interact through one set, `created`.
  Costs are added in 32 bits.
* **Path rewriters.** Numerals are joined in one pass that writes a second path
  while it reads the first, and goes back when a separator turns out not to
  belong to the number: nodes may be lost or repeated, or the pass may not end.
  The parser keeps three sums whose digits must not overlap.
* **Dictionary.** The reader remembers its first failure and `Parse` looks at
  it late; lookups index one table by the count of another. The trie's words
  interleave in one array.
* **Character table.** Ranges overlap; lookup is a binary search over the
  stretches between their bounds, with a cache of the first plane before it.
* **Open and the command.** Many steps, each of which may fail after others
  have taken something; deferred calls release in the reverse order, and their
  failures count too.
* **Analyzer.** The closed flag is read once per analysis, the mapping many
  times; `Close` may run in several goroutines.

There are no messages, timeouts or persistent state; concurrency is confined to
the Analyzer, because a Tokenizer and a Text are immutable.

## 2. The modules

| Module | Models | Checked by |
|---|---|---|
| `TextBuilder` | `Builder`, `Editor`, `apply` | `MCText`, proofs in `TextBuilderProofs` |
| `InputPlugins` | the three plugins and the Rewrite around each | `MCText`, proofs in `TextBuilderProofs` |
| `AnalysisText` | `Build` and the methods of `Text` | `MCText`, `MCAnalysisText`, proofs in `AnalysisTextProofs` |
| `InputText` | the three above in one module | `MCText`, proofs in `TextBuilderProofs` |
| `Oov` | the two providers, on an `AnalysisText` | through `Tokenizer`, proofs in `TokenizerProofs` |
| `Lattice` | `Insert`, `connect` | through `Tokenizer`, proofs in `TokenizerProofs` |
| `Tokenizer` | `Tokenize` up to the best path; composes `Oov` (hence `AnalysisText`) and `Lattice` | `MCTokenize`, `MCTokenizer`, proofs in `TokenizerProofs` |
| `BestSegmentation` | abstract: what a tokenizer promises, without a lattice | refined by `Tokenizer`, proved in `TokenizerProofs` |
| `Morphemes` | the rest of `Tokenize`: word infos, joins of path rewriters, `split`, `toMorphemes`; on an `AnalysisText` | `MCTokenize`, proofs in `TokenizerProofs` |
| `Numerals` | `decimal` and `numberParser`, as operators | through the next three |
| `NumberParser` | a parser that is fed characters, against the numerals | `MCRewriters`, proofs in `NumeralProofs`, its type in `JoinNumericProofs` |
| `JoinInPlace` | abstract: the numeral rewriter that joins in the path itself | refined by `JoinNumeric` |
| `JoinNumeric` | `JoinNumeric.Rewrite` | `MCRewriters`, `MCJoinNumeric`, proofs in `JoinNumericProofs` |
| `JoinKatakana` | `JoinKatakanaOOV.Rewrite` | `MCRewriters`, proofs in `JoinNumericProofs` |
| `PathRewriters` | `JoinNumeric`, `NumberParser` and `JoinKatakana` in one module | `MCRewriters`, proofs in `JoinNumericProofs` |
| `Dictionary` | the reader, `Parse` and every lookup | `MCDictionary`, proofs in `DictionaryProofs` |
| `Trie` | `CommonPrefix`, on double arrays as they are built | `MCDictionary`, proofs in `DictionaryProofs` |
| `DictionaryFile` | the two above in one module | `MCDictionary`, proofs in `DictionaryProofs` |
| `CharTable` | `ParseCharDef`, `NewTable`, `Category` | `MCProgram`, proofs in `ProgramProofs` |
| `Setup` | `Open` and `newTokenizer`, with the parsers of unk.def and rewrite.def | `MCProgram`, proofs in `ProgramProofs` |
| `Analyzer` | `Open`, `Analyze`, `Close`, and the life of the mapping | `MCProgram`, proofs in `ProgramProofs` |
| `CommandLine` | `run`, `analyzeFile`, `analyzeLines`, the presenter's `Writer` | `MCProgram`, proofs in `ProgramProofs` |
| `Program` | `Setup`, `CharTable`, `Analyzer` and `CommandLine` in one module | `MCProgram`, proofs in `ProgramProofs` |
| `SequenceLemmas` | nothing: lemmas on sequences and on least counterexamples | used by the proofs |

Names with an underscore, such as `MapOf_OneMore`, are variants of the
definition they precede, each with a bug a programmer could plausibly make. No
specification uses them: substituted for the definition they show that a
property can fail.

`MCText`, `MCTokenize`, `MCRewriters`, `MCDictionary` and `MCProgram` check several
components in one run; `MCTokenize`, `InputText`, `PathRewriters`, `DictionaryFile` and `Program` give
their components variables of their own, for the run and for the proofs (only the
two halves of `Tokenize` share those of the text). They do not interact there: a variable `part` chooses the one a
behaviour is about, and the others stay in one initial state. `TypesOK` is the
conjunction of their type invariants. Each component gets inputs of its own,
which are more than what the stage before it can hand over: what is checked of
`Morphemes` holds for any path, of `AnalysisText` for any text, of `JoinNumeric`
for any nodes, but that it ends: this takes that no word of digits has a separator in
its form (section 6, `endless_numeral`).

### TextBuilder

A string is the sequence of its bytes; of a byte the model keeps whether it
starts a character and which byte of the original it is. `original`, `current`
and `m2o` are the fields of `Builder`; `edits` is the Editor's list; `pending`,
`pos`, `sb` and `newMap` are the locals of `apply`. `Replace` is one call of
`Editor.Replace` with any range, in or out of the text, since the code checks
nothing there. `apply` takes one step per edit, in the order of its stable sort
(`Before`), and either commits both fields at the end or rejects. `aligned`
remembers whether every edit so far was on character boundaries, as those of
real plugins are.

### InputPlugins

A text is a sequence of characters, of which `Lower` and `Nfkc` say what the
Unicode tables make of them, and an iteration of a plugin's loop is a step.
`stage` names the plugin at work. At its end `Apply` does what `TextBuilder`
does with the edits, on characters: it fails if one begins before the end of the
last. The maximum a key of rewrite.def may have is kept by first character, as
in the code. `Kanji` and `Reading` are the two predicates of `sudachin.go:163`, and
overlap: a combining mark or a joiner has all categories (`char.def:168`), so it
may stand before a bracket like a kanji and inside it like a letter.

### AnalysisText

A character is a width in bytes and a set of categories. `Decode` is an
iteration of the first loop of `Build`, `Terminate` the two sentinels,
`ScanRun` an iteration of the loop from the right, which holds the entries of
`catRun` it has filled in. The categories `USER1` to `USER4` behave as the
other named ones and are left out.

### Lattice, Oov, Tokenizer

`ends` is `Lattice.ends`, `prev` an index into the list of the node's begin.
`Wrap` is Go's addition: past `MaxCost`, the largest cost, it starts again
from the smallest. `Usable` are the entries
`connect` considers: those marked unreachable are skipped and a cost of the
maximum is never below the initial one. `pc` of `Tokenizer` follows `bestPath`
and `BestPath`: `visit` (the head of the loop), `words`, `provide`, `insert`,
`fallback`, `insertLast`, `walk`. Every `Insert` is a step, so that the order of
insertions and the predecessors chosen are visible. `found` is what
`CommonPrefix` yields: *any* list of at most `MaxFound` words, shortest first,
whose ends may be character boundaries or, as byte tries allow, one byte into
the first character. `providers` is the configured list, `MeCab` and `Simple` in
the program, or one that may propose nothing.

`BestSegmentation` keeps only the set of candidates offered and the answer: an
answer tiles the text with candidates at a cost no other tiling undercuts, and
the two failures happen only where no candidate continues or no tiling exists.
`Tokenizer` refines it with `offered` the set of nodes in the lattice and
`answer` read off `pc` and `path` (`MinimalPath`).

### Morphemes

The text is built by `AnalysisText`. `m2o` is *any* map that `TextBuilder` can
leave by `SpecMapSound`, the path *any* tiling of the
text by *any* words, and the rewriters make *any* joins of neighbours through
the two functions of `path.go` they have for it. So what is checked does not
rest on which path is cheapest or which rewriter is configured. An iteration of
each loop of `toPath`, `split` and `toMorphemes` is a step; each ends the
analysis (`failed`) where the code returns an error. A word info is its length,
its units and its part of speech; nothing in the code makes lengths of units
agree with the length of the word. Modes are the three of the program and an unknown
one, on which `split` fails at the first word that is not unknown (`ModeFails`).

### Numerals, NumberParser, JoinNumeric

A character is the value `numeralValues` gives it, a separator, or any other. A
`Decimal` has the fields of `decimal`; `AppendChar` and `Done` return the new
parser and the answer, because callers use the parser after a refusal, too.
`NumberParser` compares an accepted string with what a numeral *is*: `Denoted`
is the set of its digits with the powers they count, defined on the whole string
without a parser, and `IsNumeral` says which strings have a value.

`JoinNumeric` is the loop of the code, `out` the slice it builds and `next` how
much of `in` that stands for. `JoinInPlace` is the rewriter that
`equivalence_test.go` keeps as the reference, which splices the path it walks.
`JoinNumeric` refines it (`JoinsInPlace`) with `out` and the rest of `in` as the
path and its indexes moved by the difference: the test compares the two on given
paths, the refinement on all of five nodes, step by step. A node carries
the forms of the nodes it stands for, so that lost and repeated nodes show. Its form
and its categories are independent, as those of a word of the dictionary are: the
form is read from the file (`dictionary.go:226`), the categories are those of the
surface. So a word of digits may have a separator in its form; the code then asks for
its category only and never gives the separator up.

### JoinKatakana

A path is any way to cut a text of three kinds of characters, with any nodes
unknown. A step is an iteration: the run around a short or unknown node is
found from what has not been put out yet, and the node after a joined run is
skipped without being looked at, because it ended the run.

### Dictionary and Trie

`Dictionary` models positions and lengths, not contents: every number read from
the file is *any* number of its width in the instance, so that corrupt files are
among those checked. `Take` is the reader's method and keeps its rule that after
the first failure nothing is read. `access` records the bytes the last lookup
read and the section they must lie in. Integers are unbounded: an `int` has 64
bits where the dictionary fits into memory, so no size computed from a `uint32`
overflows. What the code does compute in a `uint32`, four times the number of a unit
or of a word (`At`), wraps at `TwoTo32`. In the instance no table is long enough for
that; the proofs hold also where one is.

`Trie` assumes of the array what its builder (darts-clone, not in the
repository) promises: `Arranged` is *any* placement of the prefixes and values
of a lexicon whose units do not collide. `UnitOf` is a unit as the accessors of
`trie.go` read it. A step of the walk is a byte, or a word id of a leaf. The
exclusive or is a parameter, `BitXor`: the run gives it that of the bits, the
proofs use only that it is commutative, its own inverse and stays in the width.

### CharTable, Setup

`CharTable` reads any file of a few lines, good or bad, of a small set of code
points the first half of which is the cached plane; the end of a range is
widened by one in the width of a rune. Binary search is modelled by what it
finds: the last stretch that begins at or before the character.

`Setup` is `Open`, a step at a time, from the dictionary to the rewriters; every
step may fail where the code has an error return. The lines of unk.def and
rewrite.def are parsed one by one; an id is parsed signed and kept unsigned in
`Bits` bits.

### Analyzer

`opening` follows `Open`, which may fail at each of its stages. Per goroutine,
`analyze` is before and `read` after the check of the flag; `close`, `release`
and `unmap` are the swap, the look at `Dictionary.release` and the call of it.
`Fault` is the death of a process that reads an unmapped page. `careful`, chosen
at the start, says whether callers obey the comment on `Close`; it guards only
the calls, never what the code does. That a `munmap` fails is not modelled.

### CommandLine

A line is the number of pieces its result is written in: `Writer.writeLine` is
called per morpheme, or once. `buffer` and `wrerr` are those of `bufio.Writer`,
modelled from how the presenter uses it: it writes through when it is full and
remembers its first error. `step` follows `run` and the functions it calls;
`closeOutput` and `closeAnalyzer` are its deferred calls. Any system call fails
or does not.

## 3. The runs

| Run | Instance | Question |
|---|---|---|
| `text` | builder: originals of 0, 2 and 3 bytes with 1- and 2-byte characters, replacements of 0, 1 and 2 bytes, 2 edits in each of 2 rewrites, at most 4 bytes of text. Plugins: all texts of up to 5 of 8 characters, and of 5 with one that is a kanji and a letter of a reading, 4 rules. Indexes: all 4681 texts of up to 4 characters of 8 kinds | Is the offset map sound, is a rewrite exact or without effect? Does no plugin make a text fail, is each edit the longest, is nothing passed over? Do the indexes agree, do words begin where the text says, are runs homogeneous? |
| `tokenizer` | the lattice: 8 texts that mix kinds, 2 words at each position, 2 cost matrices, ties included; the configured providers and MeCab alone. Morphemes: 2 texts of 3 bytes, 5 words with units that fit, are too long, too short or missing, originals of up to 2 bytes, 1 join, 3 modes and an unknown one | Minimal path (refinement), where candidates may be, ties, no late arrival, an answer in the end. Do words and units tile the text and surfaces the original in every mode; are joined words left whole? |
| `narrow_costs` | texts of 0, 3 and 4 characters, the configured providers and MeCab alone, words of cost 1 and 2, connections of cost 1 (0 to the end of the text), no cost above 7 | Bookkeeping when costs leave their width |
| `rewriters` | all paths of up to 5 nodes of 7 kinds, and of up to 3 where a word of digits may have the form 1.1; strings of 7 characters of 7 kinds, of 9 digits and commas; all paths through texts of 5 characters | Does one pass join what joining in place joins, and end where no word of digits has a separator in its form? Are exactly the numerals read, for their values? Is each katakana run joined, whole? |
| `dictionary` | files of 4 lengths with counts of 0, 1, 2 and one that is too large; all placements of 3 lexicons in 10 units, texts of 4 bytes | Are sections whole, do lookups stay inside? Does a lookup find the words, all and in order? |
| `program` | 3 goroutines, careful or not; 4 lists of parts of speech, 2-bit ids, 2 lines of unk.def, 3 of rewrite.def, 3 of char.def over 8 code points; 2 inputs of 2 lines, a buffer of 2 pieces | No read after unmap, one unmap, late callers refused, a Close ends unmapped; are parts what their definitions say; does the command lose nothing and release everything, in time? |
| `category_runs` | texts of up to 3 characters | The documented meaning of a run: **violated**, see 6 |
| `cost_overflow` | texts of 3 and 4 characters, the configured providers, costs as in `narrow_costs` | The minimal path then: **violated**, see 6 |
| `joined_no_number` | paths of up to 4 nodes | Are joined nodes numbers: **violated**, see 6 |
| `endless_numeral` | paths of up to 2 nodes, with words of the form 1.1 | Does the pass end on every path: **violated**, see 6 |
| `checked_in_matrix` | as `dictionary` | Does `CheckParam` keep ids in the matrix: **violated**, see 6 |
| `failed_open` | 3 goroutines | A failed Open holds nothing: **violated**, see 6 |

**Bounds.** Two edits are the fewest that can overlap, be out of order or share
a begin; two rewrites the fewest that compose maps; three-byte originals let a
rewrite work beside, inside and after what the one before wrote. Five characters
hold a kanji with a bracketed reading that is one too long, a mark that
normalisation makes beside one that was there, and a character that is a kanji and
a letter of a reading at once, on both sides of a bracket. Three bytes and one
join give a split that follows a joined word, one that is joined away and one
whose first unit already reaches the end of its node. Four characters
let a joiner bind a joiner that binds a joiner, and a run meet two others.
Two words at a position give an entry two predecessors of different or equal
cost and two successors. Five nodes hold a number, a separator that is given up,
a number read again and what ends it; two words of the form 1.1 in a row are refused
at the second point, and a third may end them; seven characters a sum of two units, one
with a fraction; nine digits and commas two groups behind a short one. Ten units
leave the values and states of one lexicon room to lie between those of other
keys, with free units among them. Three lines
of char.def can overlap all at once. Three goroutines give two that race and one
that finds the race over. `Len(current') <= MaxLen` in `Commit` of `TextBuilder`
only cuts off rewrites that make the text longer than the bound.

**Deadlock.** `tokenizer` and `narrow_costs` check it (in `MCTokenize` morphemes that
are returned, or an analysis that failed, stutter); the others switch it off
because a text that is built, a builder that has had its rewrites, a path that is
rewritten, an `Open` that failed and a command that exited have nothing left to do.

**Fairness.** `Tokenizer` (in `MCTokenize`) and `JoinNumeric` (in `MCRewriters` and by
itself) assume weak fairness of the whole next-state relation: a call is sequential
code that nothing suspends for ever.
`Analyzer` assumes it of the continuation of a call of each goroutine, because
the Go scheduler is preemptive, and not of making calls.


## 4. The proofs

Eight modules hold theorems. Each safety property is proved from an inductive
invariant that says more, and why that is needed is said here. What a proof
assumes of the constants is a named operator of the module of the component; the
run that checks the component evaluates it for its instance (`ASSUME`).

**Text builder** (`TextBuilderProofs`; any originals, replacements and bounds;
`StringsAssumption`: strings begin with a character).

* `TypeCorrect`. The invariant only adds to `TypeOK` that no edit is pending
  outside `apply`; the work is in two lemmas about slices (`SliceAppend`,
  `SliceConcat`), which say element by element what an iteration and the tail of
  `apply` build.
* `SpecMapSound`, from its three parts. `MapMonotone` alone is not
  inductive: while `apply` runs, what is built in `newMap` must itself be
  monotone *and* bounded by `m2o` at `pos`, where the tail will be attached; and
  pinning the head to 0 keeps it so because offsets are never negative
  (`MapAnchored`). For `SurfaceOnBoundary` the strengthening says of `sb` and
  `newMap` what the property says of `current` and `m2o`, and that `pos` is a
  boundary while all edits were.
* `SpecKeptBytesMapHome` and `SpecRewritesExactly`, by `RewriteInv`: `Home`
  (a byte of the original maps to where it was, the head aside), `InLoop`
  (the edits applied end at `pos` or before and begin no later than those pending)
  and `BuiltSo` (what is in `sb` is each byte before `pos` that no applied
  edit covers, and nothing else of the text). A rejected rewrite is therefore one
  with an edit outside the text or two that overlap, and a committed one removes
  exactly what its edits cover.

**Input-text plugins** (`TextBuilderProofs`; any texts, rules, tables and marks;
`RulesAssumption`: no rule is for the empty string, a run of marks is not
replaced by one with two of them side by side, no kanji is a mark or a left or right
bracket, and neither bracket is a letter of a reading or the other bracket; a kanji
may be a letter of a reading). `SpecNeverRejected`, `SpecLongestRules` and
`SpecNothingPassedOver`. `PlugInv` is the conjunction of

* `PlugTyped`: the edits registered lie one behind the other and end at `i` or
  before, and the marks being counted are behind the last of them. From it no
  `Rewrite` finds edits that overlap;
* `LongestRules`, which is inductive: the longest key is looked for only as far
  as the longest one with that first character, and no key reaches further
  (`RuleInReach`, `LongestFound`);
* `MarksQuiet`: what the edits so far make of the text before the marks being
  counted (`Made`) has no two marks side by side and does not end with one, and
  what follows are these marks. In the plugin after it, the
  same is kept by dropping a reading, because what is left before the brackets is
  a kanji. `MadeEdited` and `MadeApplied` tie `Made` to what `Apply` leaves;
* `ReadingsRead`: each reading in brackets that begins before `i` is among the
  edits and nothing else is. That the plugin may skip to the end of the one it
  dropped is where the brackets count: the kanji of a reading that began inside another
  would be a letter of that one, with a left bracket behind it, or its right bracket;
  no bracket is a letter of a reading, and none is a kanji.

**Text under analysis** (`AnalysisTextProofs`; any texts; `TextsAssumption`:
sequences of characters with a width and categories). `SpecIndexesAgree`,
`SpecBOWMatchesText` and `SpecCatRunSound`; none is inductive, because all speak
of a text that is built.

* `Indexed` says of the characters decoded so far what the property says of all,
  and of the sentinels that they are each other's; the step of the argument is
  `AgreeDecoded`: the next character begins behind every byte there is, and the
  bytes it adds are its own.
* `Started` ties what `Build` carries from character to character to the text:
  `nextBOW` is the parity of the joiners that immediately precede, `prev` are the
  categories of the last character.
* `Scanned` says of the runs filled in so far what `CatRunSound` says of all of
  them, and ties `common`, which the code carries from one character to the one
  before it, to what the characters of the last run share. Without that nothing
  says why the next character may join the run.

**Tokenizer, with providers and lattice** (`TokenizerProofs`; any texts, words
found, provider lists, parameters and cost matrices). `TokenizerAssumption` says
what the configuration guarantees: at least one provider, Simple last if it is
there, parameters of the right type; `LatticeAssumption` that 0 is a context id.
Theorems `TypeCorrect`, `SpecNoLateArrival`, `SpecEntriesAccountFor`,
`SpecCandidatesAllowed` and `SpecDictionaryWordPreferred`. The invariant `IInv`
is the conjunction of

* `Control` and `Queues`: what is pending at each `pc`, and that the words found
  and those proposed lie at `pos`, end behind it in the text and on a character
  (`RunInText`, `MeCabProposes`, `SimpleProposes`);
* `Entries`: each entry is what `connect` would make of its node *now*. This is
  the strengthening that `NoLateArrival` needs: it is kept because every insertion
  is at a position behind `pos`, and every node inserted earlier begins at `pos`
  or before; and it gives `EntriesAccountFor`, because `connect` considers no
  entry at the mark, whatever wrapped around;
* `WordsFirst`, `Offered` and `SimpleLast`: the words of the dictionary precede the
  others in each list, `created` is empty exactly where nothing has been inserted
  at `pos`, and a word of Simple comes alone and last;
* `Walked`: on the way back from the end each entry is the oldest of the cheapest
  for what was put on the path before it, so no unknown word on the path has a twin
  in the dictionary.

`SpecMinimalPath`: `Tokenizer` refines `BestSegmentation`, so no sequence of
candidates is cheaper than the path. Its hypothesis is `CostsFit(W)`: no word and no
connection costs more than `W` either way, and `2 * W * Len(t) + W` stays below
`MaxCost` for every text `t`. The program's costs have 16 bits and its totals 32, so
it holds of texts of up to 32767 characters; the `tokenizer` run satisfies it with
`W` = 3. Beyond it the statement is false (section 6, `cost_overflow`). The proof adds to
`IInv`

* `Priced`: what is inserted or pending costs at most `W`, and begins where
  something ends. From it `TotalsFit`: the totals at `p` are within `2 * W * p`, so no
  addition wraps, every entry is usable, and its total is the least over the
  entries it could follow (`EntryBest`, `EndBest`);
* `NoneCheaper`, about tilings of the text up to a position: each is
  matched by an entry there that goes on as it does, with the same context id, and
  costs no more. It is an induction over positions, done at the least position where
  it fails. `UpTo` are those tilings, as a recursive function on positions;
* `Continues`: the part of the path read back so far, put behind any tiling that
  goes on like the entry the walk is at (`Completes`), tiles the text and costs
  what `EOS` has added since. At the beginning of the text that tiling is empty,
  and the cost is the total of `EOS`, which `EndIsLeast` bounds by any other.

`Insert` maps to `Offer`, or to a stutter if the node was there already, `Return` and
`ReturnEmpty` to `Answer`, `FailNoPath` to `AnswerNoPath`, `FailNoWord` to `GiveUp`;
the rest are stutters.

**Morphemes** (`TokenizerProofs`, its second half; any texts, maps, words, units, joins and
modes; `MorphemesAssumption`: the lexicon is a set of word infos of natural
lengths). `SpecUnitsTile`, `SpecSurfacesCover` and `SpecJoinedStayWhole`. `MorphemesInv`
adds to the invariant of the text: `Tiles` (the path before `split` tiles a
prefix of the text), `Units` (what has been put out tiles the bytes up to
`OutEnd`), `Splitting` (every node passed was `Treated`: kept whole, or cut into
its units; in the middle of one, `AmongUnits`: the sum of the heads of the units
made so far says where the next begins, clamped to the end of the node, and the
last unit ends where the node does), `Surfaces` (a morpheme is its node's image
under `m2o`) and `Mapped` (`m2o` is non-decreasing from 0, which is what
`SpecMapSound` gives).

**JoinNumeric** (`JoinNumericProofs`). `SpecJoinsInPlace`: `JoinNumeric` refines
`JoinInPlace`, for every set of paths (`PathsAssumption`: sequences of nodes) and
whatever the parser answers, because both ask the same one. The invariant
`Indexes` says that what is in `out` replaces a prefix of `in` and that the
numeral being read lies behind it. Three lemmas on sequences say what elements,
stretches and prefixes of the path are in the two slices (`InPlaceElements`,
`InPlaceStretch`, `InPlaceHead`); from them `SplicedIsWritten` follows: a join in
the path is what the pass writes and what is behind it, with the joined node
where the first one was. Each action then maps to one action of `JoinInPlace`.
That `in[i - 1]` exists where the code looks at it is part of the argument.
`SpecPartsKept` says that no node is lost, repeated or moved on the way. Its
invariant `Whole` says that what is out consists of nodes with parts, and that
together with what is left it has the parts of `in`; it is kept by
`FlattenConcat`: the parts of two stretches are the parts of the first and then of
the second.

`SpecNumbersJoined` adds, for the parser of the program, which nodes are joined and
what form they get (`PartsAssumption`: each node of a path stands for itself).
`NumbersInv` says

* `ReadSo`: the parser is in the state that reading the nodes from `begin` to `i`
  leaves it in, although their forms were fed one after the other and the property
  speaks of reading them all at once (`AppendConcat`);
* `Right`: the form of each node that is out is right. Where the last separator was
  given up, the node's form was rendered with the separator read, so this needs
  that a separator changes nothing of the number before it (`SeparatorKeepsNumber`);
* `Counted`: what is out stands for as many nodes as `next` says, which is where
  `RunsJoined` looks for a joined node;
* `RunsRead`: each run that reads as a number is `Reached`: still ahead, being read
  from its first node, or behind and joined, or a single node left as it is. What is
  in front of a run is no number and no separator, so whatever is read before it
  ends there; and wherever the code then sends the loop, back or on, it is not
  behind the first node of the run (`OtherReached`, `OtherReaches`; a number before a
  separator is not empty, `NoSeparatorFirst`). What reads as a number is not
  refused on the way.

`SpecTypesOK` has the types of both passes and of the parser. For `JoinNumeric`
that is more than bookkeeping: where a number without its last separator is not worth
joining, the loop goes on three nodes behind its first, and that this is no further
than the node behind the one it is at depends on what the parser refuses: a number
that ends with a separator has a digit before it, hence at least two nodes.
For the parser it says that `Render` always finds a digit to write (`InputsAssumption`:
the characters fed to it are characters).

**NumberParser** (`NumeralProofs`; strings of any length; `InputsAssumption`).
`SpecNumeralsRead`: what the parser accepts is a numeral and its form denotes the same
number; without commas it accepts all of them; with commas only what is grouped by
threes; and a separator at the end leaves the total of what is before it. The
property speaks of whole strings, with each figure and the power of ten it counts, and
the parser has seen one character after another, so its invariant adds to the type

* `ParserReadSo`: the parser is what appending the string makes of a new one, which
  brings `SeparatorDropped` down to `SeparatorKeepsNumber` above;
* `CommasReadSo`: it has counted the digits since the last comma, and the groups
  before were full, so that the commas stand where threes count from the end;
* `FiguresRead`: while it reads, its three sums stand for the figures of three parts of
  the string (`ParsedSo`): up to the last big unit, from there to the last unit, and
  behind that. `Sums` says that each `Stands` for the figures of its part at their
  powers, and that figures of one part count ever less. A digit, a unit and a point each
  keep it, or the string is no numeral any more (`DigitParsed` and the lemmas after
  it): a sum does not fit under another exactly if a figure counts no less than one
  before it. At the end adding the three sums is the union of their figures
  (`EndAnswers`), and what a rendered sum denotes is what its digits count
  (`PlainDenotes`).

What the fold makes of a longer string is got from what it makes of the shorter one
by `AppendConcat`: the induction is over the steps of `NumberParser`, not over strings.

**JoinKatakana** (`JoinNumericProofs`; any paths; `TextsAssumption`: a text
has the categories of each of its characters). `SpecKatakanaJoined`: no node is lost
or repeated, and what is joined are the runs of nodes of katakana, a run being
taken from its first node that may open one, if a short or unknown one triggers it.
The pass finds a run by looking back over what it has not put out and forward in
the path, the property speaks of runs of the path, so the invariant `KatakanaInv`
says

* `MadeTiled`: what is out and not yet out has the parts of the path, in order;
* `RunsSplit`: no run that will be joined is partly out, so that looking back
  finds its beginning;
* `NonePassed`: no trigger of a run still to be joined has been passed. The node
  after a joined run is skipped without being looked at; it ended the run, so it is
  no katakana and triggers nothing (`NextJoined`);
* `MadeJoined`: what is out consists of nodes of the path outside the joined
  runs and of one joined node for each run that ends there.

`RunAround` shows that the stretch the code finds is one of those runs, and
`RunUnique` that runs do not meet.

**Dictionary** (`DictionaryProofs`; any file length and whatever numbers the file
holds; `NumbersAssumption`: they are naturals). `TypeCorrect`, `OpenLaidOut` and
`LookupsInside`. The invariant is the conjunction of both properties and the type
with `Behind` (the sections read so far lie one behind the other and end where
the reader stands or before) and `Unused` (nothing is looked up before the
dictionary is open). After a failure nothing needs to hold, because such a
dictionary is never handed out.

**Trie** (`DictionaryProofs`; any sets of keys, any number and width of units, any
text; `LexiconsAssumption`: a set of keys is finite and not empty, and what the
paragraph on `BitXor` above says of it). `SpecFoundInOrder`: at each byte a lookup
has yielded the keys that begin the text read, all and no other, in order. The
invariant `WalkInv` says that the units are `Made` from some placement of the
prefixes of the keys, and `Walk` that as long as a key begins with what has been
read the walk is at the base of it, and what it has yielded is what it should. The
argument is `MatchesRight`: the label at the child of a base is the byte read
exactly if a key goes on with it.

* One direction is that no two places coincide (`PlacesApart`). `Arranged` only
  counts them: there are as many as prefixes and keys together, so the map to them
  is injective (`FS_Surjection`).
* The other needs that no unit looks like a child it is not: one that holds a value
  has no byte as its label; one labelled `c` that belongs to another prefix would
  give that prefix the same base; and one nothing uses is labelled as the child of
  a base that no prefix has. All but the first use that the exclusive or can be
  undone.

`SpecTypesOK` adds the types of both parts of `DictionaryFile`.

**Analyzer and command line** (`ProgramProofs`). For every set of goroutines
`SpecReadsMapped` (for careful callers), `SpecReleasedOnce` and
`SpecLateAnalyzeRefused`, by `LifeInv`: nothing runs before `Open` returns
(`OpenAlone`), the flag is set before anything is released (`FlagFirst`), at most
one goroutine is past the swap (`OneReleaser`), a late analysis finds the flag
(`LateFindsFlag`), and careful callers keep the two kinds of call apart
(`Apart`). For any inputs and a buffer of any size (`CommandAssumption`: inputs
are sequences of lines, the buffer holds at least one piece) `SpecStopsInOrder`,
`SpecInOrder` and `SpecOutputAtExit`. `OpenInv` says at each place of `run` what
is open, what is needed there and that nothing has failed while lines are read;
`Progress` says where in the inputs it stands (`Within`, `Between`,
`Completed`), what has to have been flushed (`Emptied`) and that the sink and
the buffer together are what was written so far (`InOrder`), unless the output
itself failed. The proof goes through the calls, and where one can fail, through
both outcomes.

**Setup and CharTable** (`ProgramProofs`). `SpecMadeAsWritten`: for any
dictionary, definitions and options (`LinesAssumption` of `Setup`: a dictionary
lists parts of speech, a line of unk.def has integers for ids and a category there
is), what `Open` makes is what the definitions say, or it fails and closes what it
opened. `SetupInv` says for each stage what is made by then (`RulesRead`,
`DefsRead`, `CandidatesMade`, `RewritersMade`): a candidate of a category is the
line of unk.def with that many lines of its category before it, and its ids,
which are unsigned by then, passed `CheckParam`. That a negative id never gets that
far follows where the dictionary has no more ids than a signed one can name.
`SpecTableAsDefined`: for any char.def (`LinesAssumption` of `CharTable`: bounds
of ranges are runes) the table has for each character the categories of all
ranges it is in. The invariant `TableInv` says the bounds are those of the
lines read (`LinesRead`), where a range that ends at the largest rune wraps
around and is refused as empty, and that the cached plane has been filled with
what `lookup` answers (`Filled`). `LookupRight` is the step that needs an argument:
between two bounds no range begins or ends, so the categories at the last bound
before a character are those at the character.

`SpecTypesOK` of `ProgramProofs` has the types of all four modules of `Program`,
from three more invariants: `BufferFits` (a write never leaves more in the buffer
than it has room for, whether it came in one piece or in several), `WidthsKept` (an
id is as wide as an id also where a later step fails) and `Stretched` (no two
stretches of the table begin at the same character, and as many have categories as
begin). `SpecTypesOK` of `TextBuilderProofs` does so for `InputText`, from the
invariants above.

`SequenceLemmas` holds what several of them need: that a set of naturals with a
member has a least one (`Least`) and a finite one a greatest (`Greatest`), from
which single inductions are done by looking at the least counterexample, that
members of a finite set of integers have ranks, by which they are in order
(`RanksOrder`), and what `FlattenSeq` returns. The
library's own induction theorems take an operator as a parameter and cannot be
instantiated.

**Only model-checked:** all liveness (`Answers`, `NumeralsTerminate`,
`CloseReleases`), which the prover cannot do. All other properties of the passing runs
are stated by a theorem.

## 5. Not modelled

* UTF-8: the models start from characters. Validation of a text and decoding
  are the Go library's.
* The forms and readings of a word, as texts; the packing of a word id into
  32 bits beyond what tells unknown words apart.
* The wording of output formats, the flags of the command, and how a line of a
  definition file is split into columns: a line is well formed or not, and an
  output line is written in one piece or in several.
* `mmap_other.go`, which reads the file where it cannot be mapped, and a
  `munmap` that fails.
* Lower-casing and NFKC themselves: they are any functions on characters.

## 6. What the runs found

* `category_runs`: the comments at `text.go:17` and `text.go:112` promise the
  number of characters from *i* that share a category. The scan from the right
  gives a character to the run it meets first, so for categories
  `{SYMBOL}`, `{SYMBOL, KANJI}`, `{KANJI}` the first run is 1, not 2. What does
  hold is `CatRunSound`.
* `cost_overflow`: `lattice.go:64` adds without a check and `lattice.go:27` uses
  the largest cost as a mark. The documented minimum-cost path
  (`lattice.go:71`) is lost when a total leaves 32 bits, which takes a single
  text of more than thirty thousand words of the largest costs.
* `failed_open`: `dictionary.go:60` returns without releasing the mapping when
  the dictionary does not parse; the caller has nothing to close.
* `joined_no_number`: the comment at `pathrewrite.go:25` promises that what could
  not be read as a number is not joined as one. Where a numeral's sums overlap
  *and* it ends with a separator, `done` reports the separator
  (`number.go:217`), and `pathrewrite.go:78` joins the nodes before it without
  reading them again. The reference in the test does the same.
* `endless_numeral`: the same comment promises that a separator that was refused is
  not read as one again. `pathrewrite.go:50` asks for the flags only of a node without
  a category of numbers. A word of digits whose form has a separator is read again with
  it, refused again, and `i = begin - 1` (`pathrewrite.go:59`) goes back for ever. Such
  forms are possible, because they are read from the dictionary apart from the surface:
  two words of the form 1.1 in a row, or one of the form `.`. In the shipped
  char.def `,` and `.` are in no category of numbers, so a word whose form is its
  surface never does this. Without such words the pass ends (`NumeralsTerminate`,
  from `SeparatorsApart`).
* `checked_in_matrix`: `dictionary.go:153` says that `CheckParam` keeps context
  ids inside the connection matrix, but `dictionary.go:156` compares each id with
  the count of the other side. Where the counts differ, an id it lets in reads
  outside the row it means; `ConnectCost` then checks only the index into the
  whole table (`dictionary.go:165`), so it answers another pair's cost where its
  comment (`dictionary.go:154`) says 0.

## 7. Plan

Done: every module of section 2; every safety property of a passing run as a
theorem; the refinements of `BestSegmentation` and of `JoinInPlace`.

Left: what the prover cannot reach, named at the end of section 4.
