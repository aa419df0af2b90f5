# gibasa in TLA+

gibasa is an R package that splits text into morphemes. Its core is a C++ copy of MeCab
(`src/src`): a dictionary look-up over the text, a Viterbi search for the cheapest path through
the words found, an A* search for the next best ones, and an object interface (Model, Tagger,
Lattice) that several threads use at once. R functions (`src/R`) call it in parallel over many
texts and reshape the tables that come back.

`build_dict()` compiles the dictionaries that the rest reads.

This directory holds TLA+ models of that core, TLC configurations that check them on small
instances, and TLAPS proofs. `PROJECT.json` lists which definition models which lines.

## 1. Inventory

| part | state | operations | used by |
|---|---|---|---|
| readers-writer spin lock (`thread.h`) | `l_`, `write_pending_` | write/read lock and unlock, over one of four `atomic_int` classes | `ModelImpl::swap` (writer), `TaggerImpl::parse(Lattice*)` (reader) |
| Model, Tagger (`tagger.cpp`) | the `Viterbi` object, request type, theta; a tagger copies them and owns one lattice | `open`, `swap`, `createTagger`, `createLattice`, `parse*`, `next*`, setters | R bindings, C interface |
| Lattice (`tagger.cpp`) | sentence, request type, theta, node vectors, constraint vectors, allocator, output buffer | `set_sentence`, `clear`, `next`, constraint calls, `set_result`, `toString*` | Tagger, Viterbi, bindings |
| Viterbi (`viterbi.cpp`) | none of its own; fills a lattice | `analyze`: `initPartial`, scan and `connect`, `forwardbackward`, `buildBestLattice`, `buildAllLattice`, `initNBest` | Tagger |
| Tokenizer (`tokenizer.cpp`, `char_property.h`) | dictionaries, unknown-word tokens, character classes, all fixed after `open` | `lookup` at a position, with and without constraints | Viterbi |
| N-best search (`nbest_generator.cpp`) | priority queue of partial paths; links in the nodes | `set`, `next` | `Lattice::next` |
| memory (`freelist.h`, `tokenizer.h`) | chunks and cursors | `alloc`, `free`, `newNode`, `strdup` | lattice |
| output (`string_buffer.cpp`, `writer.cpp`) | buffer, size, error flag | `write`, `reserve`, formats | `toString*` |
| dictionary (`dictionary.cpp`, `darts.h`, `connector.cpp`, `char_property.cpp`) | mapped files | look-ups; compilers from CSV | Tokenizer, `build_dict` |
| dictionary compiler (`dictionary_rewriter.cpp`, `context_id.cpp`, `feature_index.cpp`, `dictionary_compiler.cpp`) | rule and id tables | rewrite, look up ids, assign costs | `build_dict` |
| options, CSV (`param.cpp`, `utils.*`) | option map | scan `argv`, split CSV | everything that opens |
| parallel parsing (`posParallel.cpp`) | one model, a result slot per text | a worker per chunk of texts | `tokenize()` |
| R layer (`src/R`) | none | `tokenize`, `pack`, `collapse_tokens`, `mute_tokens`, `prettify`, `bind_*` | users |

How they meet: `tokenize()` builds one Model; `parallelFor` gives each worker thread a chunk of the
texts and its own Tagger and Lattice; each parse takes the model's lock as a reader and calls
`Viterbi::analyze`, which asks the Tokenizer for words position by position and hands the built
lattice to the N-best generator when asked to. `build_dict()` and `build_user_dict()` run the
compiler over a directory of sources; the files it leaves are what the next Model opens, also when
a run stopped half way.

What is hard here, and what would make each part correct:

- **lock** - interleavings of its separate atomic steps. A writer inside is alone; the words
  always account for who is inside; nobody is shut out.
- **swap** - state read before the lock and used after. No object is deleted twice or while a
  reader is in it.
- **lookup** - byte offsets that may equal or pass the end (skipped spaces, wide characters,
  fragments). Every position offers a word; constraints are kept; vectors are never left.
- **Viterbi** - a local rule with a global promise. The path is optimal, tiles the text; failure
  is only reported when justified.
- **N-best** - long call sequences over shared, relinked nodes. Results are ordered, complete,
  without repetition; links read the last result.
- **Lattice object** - sequences of legal calls: what survives `set_sentence`, a failed parse,
  a change of the request type.
- **parallel parsing** - the result equals that of a sequential run; a failed text affects no
  other.
- **dictionary build** - many inputs that can be wrong, files written one after the other, the
  process may die. A model that opens has whole files that fit together; the array finds the
  words of the lines and no others.
- **buffers and free lists** - limits, errors that are overwritten, reuse of freed memory.

## 2. What is modelled

### RWLock, RWMutex (`thread.h`)

`RWLock` is what a readers-writer lock promises: atomic acquisition and release, a writer alone.
`RWMutex` is the code: one action per atomic operation, a spin loop as the guard of the operation
that ends it, `pc` the place of a thread in the lock's functions. `Backend` selects the
`atomic_int` class: `Stored` and `Retries` say what each class's `compare_and_swap` leaves in the
word and whether `write_lock`'s loop goes on, `Loaded` what its `load` returns (the word, but a truth
value in the class of OSX). `ImplementsRWLock` maps a thread in `read` to
`reading` and one in `write` to `writing`.

### Tokenizer (`tokenizer.cpp`, `char_property.h`, `ucs.h`)

Pure operators with the names of the functions. A text is a sequence of bytes, offsets count from
0; a character is known by its first byte, whose `Width` gives its length and `CharMap` its class.
`Lookup(lat, begin)` follows `Tokenizer::lookup` step by step: end of the fragment, skipped
spaces, words of all dictionaries, the early returns, the grouped unknown word, unknown words by
length, the fallback, and under constraints the forced node or the exception. The double array is
the set of entries that are prefixes of the text, with its rule that length 0 means "to the end
of the string". Dictionaries, classes and tokens are constants. What is assumed of them
(`TablesAssumption`, `DictionaryAssumption`) is what the compiler and `Tokenizer::open` make sure of:
every class has unknown words, ids are in the matrix, no word is empty, and what is outside UCS-2
has the class of NUL. `NulIsNoSpace` is a condition on char.def that the code does not check: no
chain of shared categories leads from the space to NUL; otherwise a walk over spaces may read on
behind the text. The classes of the runs satisfy it, and the theorems about the analysis have it as a
hypothesis.

Lengths have 16 bits: `Cut` is the cast of `length` and `rlength` to `unsigned short`, `LengthMax` its
largest value, and also the number of bytes a lookup looks ahead at most (`FragmentEnd`). A dictionary word
that is longer is an exception (`WordTooLong`). `ShortTexts` are inputs in which nothing is cut, with
65535 texts of at most 65532 bytes.

### ViterbiLattice (`viterbi.cpp`, constraint calls of `tagger.cpp`)

`analyze` as a state machine: `Start` sets the lattice up (`InitPartial`), one `Scan` or
`SkipPosition` per offset (which ends the analysis when the look-up throws or a cost reaches the
limit), `ConnectEOS`, `BuildResult`. A node is its index in `nodes`
(order of allocation); `begin_node_list` and `end_node_list` are the code's lists, head first,
over the code's `size() + 4` entries. `connect` takes the first of the cheapest left nodes, as
`<` in the loop does. The text of a partial parse is given as its lines, surfaces with or without a
feature; splitting it at newlines and tabs is not modelled.

### LatticeGraph, NBest (`nbest_generator.cpp`)

`IsLattice` is what the search relies on: one path per left node, costs exact, and left
nodes allocated before the node (`id`), so that no way is endless. The property
`YieldsLattice` of `ViterbiLattice` shows that the analysis delivers it, so the two modules meet
there, and `NBest` starts from any such lattice. A queue element is its whole path from EOS (the
chain of `QueueElement::next`) with `gx` and `fx`; the queue does not say which of several
cheapest comes first. `link` is `Node::next`, which every result relinks and nothing resets.

### ModelSwap (`tagger.cpp`)

`ModelImpl::swap`, `createTagger` and `parse(Lattice*)` by threads that call them at once. The lock
is RWLock; what the code reads or writes outside it (`current_viterbi`, the settings a tagger
copies) are actions of their own. `deleted` counts the deletions of each Viterbi object; `using` is
the object a parse works with, and afterwards the one its nodes point into. The refusals of `swap`
and deleting a model are left out. The module relies on the promise of RWLock, which the lock the
package is built with does not keep (finding 2).

### LatticeSession (`tagger.cpp`)

The calls of Tagger and of Lattice in any order, on one lattice. A text is a model value with a
number of results, 0 if its analysis fails; `lattice` keeps what calls leave behind: sentence,
request types, theta, constraints (by the sentence they were set for), whether nodes of an earlier
analysis are still filed, and the N-best agenda with its count of results and whether its nodes
are still allocated. `asked` is what the caller of the last analysis wanted, `answer` what the
last call gave. What an agenda gives that is older than the nodes (section 4) is
nothing or `Junk`: its nodes are freed.

### TextMap, TextParser, TokenTable (`posParallel.cpp`, `tokenize.R`, `utils.R`)

`TextMap` is the promise of parallel parsing: a loop over the texts. `TextParser` has a worker
per thread with the loop variables, the lattice and the place in the code (`pc`) of
`operator()`; `Split` and `Take` stand for `parallelFor`, which may divide and hand out ranges as it
likes. The analysis of a text is a constant: tokens, false or an exception. `ImplementsTextMap`
maps the places no range and no worker has before it any more to `done`. `TokenTable` adds what
`posParallelRcpp` and `tokenize()` make of the results: rows, the joins with document ids, numbers
of sentences, and the list of mode "wakati".

### Ordered, DoubleArray (`darts.h`)

`DoubleArray` builds a trie: `Probe` is one iteration of `insert`'s search for a place, `NextChild`,
`Leaf` and `Enter` one child, `Return` the end of a call; the recursion is the variable `stack`.
`insert` grows the array by a factor of the keys over the leaves written; to grow before the first
leaf (`GrowsBeforeLeaf`) divides by zero, and no array has the size that comes of it. `DictIndex` lets
the build die there (`GrowFails`).
`CommonPrefixSearch` and `ExactMatchSearch` walk the cells as the code does. `Ordered` sorts finite
sets.

### Rewriter, FeatureIndex, CharTable, Lexicon (dictionary compiler)

`Rewriter` has the rewrite rules, POS ids and context ids, `FeatureIndex` the templates and the cost of a
word from a text model, `CharTable` char.bin and matrix.bin. A file is the sequence of its parsed
lines or `Missing`; a `CHECK_DIE` is the result `Dead`. `Lexicon` is `Dictionary::compile`: one
`ReadLine` per line with everything the loop does to it (`NeedsIds`, `CalcCost`, the rewriter, index
and ids opened by the first line that needs them), then the sorted tokens, their packed values
and the array over the words. `Wrap16` and `Word16` cut numbers as the token's fields and matrix.bin do.
A first line of a matrix.def that is not two numbers (`HeadReadable`) or a later one that is not three
(`LineReadable`) is an input like any other.

### Options, DictIndex (`param.cpp`, `dictionary_compiler.cpp`, `build_dict.R`)

`Options` is `Param::open` and `load`; a dicrc has only lines that set something, since one that does not is
refused. `DictIndex` composes all of these: `Run` is a call of one of the two R
functions, whose command lines are fixed (`Args`), over the sources that lie there; `plan` is the
files it will write, `job` the dictionary it compiles. Sources and output are one directory or two
(`source.apart`), both named; in two, `source.matrix_bin` says whether a matrix.bin lies with the sources, which
a run then reads its sizes from. Each file is truncated (`Truncate`), unless it may not be opened (`Denied`),
filled in steps (`Fill`) and closed, with the magic number last. A write may fail (`WriteFails`): the file
stays as short as it is (`bad`), and the run goes on, since the code never looks. `Crash`
ends the process anywhere, a failed check ends the run with the files as they are, and `Edit`
changes the sources before the next run. Refusals, failed writes and deaths happen over the sources in
`Again`, to keep the runs small. `TokenizerOpens`, `ViterbiOpens` and `ModelOpens` are
the checks of `open` over the files that are there.

### FreeLists, Writer, Output (`freelist.h`, `writer.cpp`, `string_buffer.cpp`, `tagger.cpp`)

`FreeLists` is a lattice's memory: nodes from arrays of one size, texts from chunks; `free` only
rewinds. `Writer` gives what each output style writes as a sequence of writes, `Put` what a
`StringBuffer` makes of one, with the error flag. `Output` composes them: the allocations of
`set_result` and of an analysis one by one, `end_nodes_` at both ends of the text, and `toString` in
its forms, into the lattice's own buffer or the caller's, and `enumNBestAsString`. A byte is a
symbol, a feature the sequence of its columns. A whole number is written as "#". A real number is what the code
writes for it: the conversion in `dtoa` is commented out, so that it is what its buffer happens to
hold up to the first space (`Leftovers`), and the end of the process when there is none (`Reals`); all
reals of one call find the same. `set_result` throws at a surface longer than `LengthMax` (`EntryTooLong`).
The formats given are those the code can write: none asks for the word of the result in which there is
none (`%H`, `%f` in an eon-format), nor for the left neighbour of BOS.

Each module carries a few definitions marked as faults: variants of an operation with a bug one
could plausibly write. They are used by no specification; putting one in the place of the
operation must break the property named with it in `PROJECT.json`.

## 3. Runs

| run | instance | shows |
|---|---|---|
| `rwmutex_gcc` | 3 readers, 2 writers, fair | exclusion, refinement of RWLock; a waiting writer and a counted reader get in |
| `rwmutex_cxx11` | 2 readers, 1 writer | **violation**: finding 2 |
| `viterbi` | all texts of at most 4 characters of 5 kinds and some with a sixth, 4 texts longer than lookup sees, partial texts of up to 3 fragments, 4 texts with every pair of constraint calls; 3 matrices | optimality, tiling, vector bounds (`TypeOK`), a word at every position, failure and exceptions only where justified, `YieldsLattice`, all morphs in order, constraints kept but by words behind spaces that end at a boundary |
| `nbest` | every lattice of 4 nodes, costs -1, 0, 2 (2835) | order, no repetition, completeness, links, termination |
| `swap_one` | 2 parsing threads, 1 swapping, 3 objects | no parse meets a deleted object, each replaced one is deleted once |
| `swap_double` | 2 swapping threads | **violation**: finding 3 |
| `session` | texts with 1, 3 and no results, two thetas, four request types | results of the right text in order after any calls; no call of a tagger gets results that only an earlier one asked for |
| `session_theta` | the same | **violation**: finding 4 |
| `parser` | 3 workers, up to 2 documents of up to 2 sentences, some refused, throwing or empty | parallel parsing is a loop over the texts; tables and lists give every document its tokens |
| `build` | every set of up to 3 words over 2 bytes of lengths 1 and 3; two words that part at their ninth byte; 12 wrong lines, 18 wrong directories, 10 user dictionaries; 2 runs over 4 sources in any order, dying anywhere, refused any file, with failed writes to up to 2 files | the array finds exactly the words of the lines and keeps its cells; a model that opens reads whole files with ids, classes and entries that fit; the result of a run tells which files are new, and whole unless a write failed |
| `output` | 2 calls that fill the lattice out of 5 texts and 9 results, one with a surface that is too long, any output call after each, 13 sets of options, buffers of 0, 1, 4 and 12 bytes | no memory handed out twice, the sentence survives `set_result`, the default text reads back (if no surface is empty and neither surfaces nor features have a tab or a newline), no null pointer is read once there is a result |
| `output_overflow` | the same | **violation**: finding 1 |

Bounds. The alphabet has a character for each behaviour lookup tells apart: a one-byte space, a
three-byte one, a class that is grouped and always invoked, one with both grouping and lengths
that also belongs to the former, a two-byte one that is never grouped, and one of four bytes, which
is outside UCS-2 and has the class of NUL. Two dictionaries
overlap, with two entries on one surface; `MaxGroupingSize` is 2 or 3, so that runs longer than it
occur, and `a` is in no dictionary, so that the fallback is taken. Four characters suffice for a
word after skipped spaces, a run past the limit, and a space behind it. `CostLimit` stands for
2147483647; it is 1000, and one matrix has an entry of 990, so that some paths reach it and others
do not. `LengthMax` stands for 65535: it is 15 in `viterbi`, so that nothing is cut in most texts (the module
assumes it); four texts are longer, with 13 or 14 spaces in front, so that a character lies at the
end of the window, whole or cut. Four nodes are the least with two ways
that share both ends of a detour; all weights over
three values include ties and negative costs. Three readers and two writers let a reader arrive at
each stage of a hand-over. Three objects let one thread swap twice: an object is put in and taken
out again. In `session`, a text with one result and one with three differ in whether `next` has
more after the best, and `NBEST_MAX` is 3, so that lists are cut, exhausted and refused. In
`parser`, three workers over four texts can be in every relation of behind, at and ahead. In
`build`, words of lengths 1 and 3 over two bytes are prefixes of one another, share prefixes and
branch at each depth; the array starts with 12 cells where the code has 8192, so that it grows;
it grows by at least half where the code has a twentieth, since one growth must make room for all
bytes (the assumption `ArrayConstants` of `DoubleArray`, which 5 % of 8192 satisfies for 256). Two
words of nine bytes fill these cells before their first leaf is written. The matrix is 2 by 3, so that
left and right ids cannot be confused; a file has two parts, one of which a crash may leave missing.
Two runs are the least in which files of different sources meet. `MaxFull` bounds the files with a
failed write at any time, two of the four, so that a short file may lie beside one that another failure
left, and beside whole ones. `CostMax` stands for 32767, `NameMax` for 31, `MaxChar` for 65535. In `output`, arrays
of two nodes and chunks of eight bytes make every list move on, skip a chunk that is too small
and start again after `clear`. Two calls that fill the lattice are the least in which one reuses the
memory of the other; the buffers hold nothing, one byte, part of a text, and all of a short one. `LengthMax` is 2
there, so that one of the results has a surface that is too long; `Leftovers` are an empty text and one with a tab.

Deadlock is unchecked where the model really stops: an analysis that has ended
(`ViterbiLattice`), no fresh objects left to swap in (`ModelSwap`), a call of `tokenize` that has
returned, a lattice that has been filled `MaxCalls` times and died (`Output`).

Fairness. `RWMutex!Fairness` is weak fairness of each thread inside the lock's functions: the spin
loops yield and the operating system schedules threads that can run. No thread has to call the
lock. `NBest!FairSpec` is weak fairness of the body of a call: it is sequential code.
`TextParser!Fairness` is weak fairness of each running worker, and of handing out what is left:
`parallelFor` blocks until all ranges are done.

## 4. Findings

1. `string_buffer.cpp:19`: `reserve` sets the error flag anew on every write. A write into a caller's
   buffer that does not fit, followed by a shorter one that does, leaves the flag clear; `toString`
   returns a text with a hole instead of failing (`output_overflow`). The package itself only uses
   buffers that grow.
2. `thread.h:135`: the C++11 `atomic_int::compare_and_swap` returns whether the exchange was made;
   `write_lock` spins while the result is not zero, as the older classes' return value wants. A
   writer goes on when the word was taken, and spins when it was free (`rwmutex_cxx11`). The build
   uses this class. The package itself never calls `swap`, so no writer runs in practice; the
   class of OSX has the same return value. The Windows class passes exchange and comparand in the
   opposite order.
3. `tagger.cpp:365`: two calls of `swap` at once delete the same object and lose another, although
   `mecab.h:1153` calls the method thread safe (`swap_double`).
4. `tagger.cpp:181`: the theta of a tagger is put on the lattice and reset by `set_sentence` right
   after (`session_theta`).

Met on the way and not stated as a run, first three that contradict what the repository says:

- A lookup sees 65535 bytes (`tokenizer.cpp:251`). Where spaces fill them, the word behind is made of the byte
  at the end of this window, and its `rlength`, 65536, is cut to 0 (`tokenizer.cpp:231`). It is filed where it
  was looked up, no later position is reached, and the analysis ends well without the rest of the text.
  `mecab.h:154` calls `rlength` the length "including white space before the morph." The model does the same:
  with `LengthMax` spaces in front of a text, `TokensTile`, `BestIsOptimal` and `TypeOK` fail,
  so the run has no such text and the theorems are about `ShortTexts`.
- `clear` leaves the N-best agenda as it is, and `next` looks at the request type only (`tagger.cpp:733`).
  After `clear`, a new sentence, or a failed analysis, it hands out results of an earlier text, made of nodes
  that have been freed; `mecab.h:828` says that `clear` clears all internal lattice data, `mecab.h:937` that
  `next` returns false if no more results are available. The steps are in `LatticeSession` (`Junk`);
  `NoResultUnasked` speaks only of calls that did not ask for N-best results, and `ServesSentence` and
  `ListsFirstN` of what follows an analysis that succeeded.
- The writers of the binary files never look at their streams after a write (`dictionary.cpp:490`,
  `char_property.cpp:254`, `connector.cpp:101`). On a full disk a run returns TRUE with files that are short;
  `build_dict.R:17` says that TRUE is returned if the dictionary is successfully built. The steps are in
  `DictIndex` (`WriteFails`): `ResultOfRun` allows a short file under TRUE if a write to it failed, and
  `OpenedFilesComplete` shows that it does not open.
- Analysis: max-grouping-size counts the characters after the first, so a group may have one more. A
  fragment that ends with a space lets a word start at the boundary behind it and run over the next
  one, and swallow a fragment with a feature (`tokenizer.cpp:262`: the prefix search gets length 0,
  which it takes for the rest of the string); `ConstraintsKept` says that this is the only way
  to miss a constraint. Behind the text, what stops the walk over spaces is that the class of NUL
  is none of theirs (`NulIsNoSpace`); a char.def in which it is would let the walk go on.
- Sessions: `set_lattice_level` only ever adds request types; analysing a lattice twice without
  `set_sentence` piles the nodes up; taggers keep the request type and theta they copied
  when the model is swapped; `swap` deletes the dictionary that the nodes of parsed lattices point
  into.
- R: documents that share an id each get the rows of all of them from `tokenize()`, and
  `tokenize(mode = "wakati")` of a character vector fails if an element has no tokens or names repeat,
  unless there is but one name, which `set_names` repeats.
- Builds: the ids of unk.dic are compared with the matrix when it is compiled and never again, so
  a rebuild that fails after it, or an edited matrix, can leave a model that opens with ids outside
  its matrix; `WordIdsInMatrix` speaks of the dictionaries that `Viterbi::open` compares. With matrix.def
  gone and an old matrix.bin left, a run returns TRUE although matrix.bin is rewritten from the
  default and may no longer fit. A user dictionary with a line that needs ids but no cost opens
  the rewriter alone; the next line without a cost then stops the run. An overlong line ends
  the reading of its file silently.
- Output: a first surface that is empty takes the place of BOS in `end_nodes_[0]`; `toString(node)`
  writes nothing in the built-in styles; `eos_node()` is null after `set_result`; `%f[a,b,c]` drops the
  separator behind a column that is `*`. `dtoa` (`utils.h:47`) has its conversion commented out, so that
  marginal probabilities are written as what its buffer held, and where that has no space the code reads
  and writes behind it. `enumNBestAsString` on a lattice without results writes its closing line.

## 5. Proofs

`RWMutexProofs` (any finite `Readers`, `Writers`):

- `TypeCorrect`: `Spec => []TypeOK`.
- `GccLockCorrect`: with `Backend = "gcc"`, `Spec => [](MutualExclusion /\ WordsAccount)`.
  Exclusion is not inductive: it says nothing of the words the guards look at. The invariant adds
  `WordsAccount`: since `l_` is twice the counted readers plus the writers inside, an exchange that
  reads 0 finds nobody, and a reader that finds the flag clear finds no writer. The counting
  steps cite the cardinality theorems of `FiniteSetTheorems`.
- `GccLockImplementsRWLock`: each action is one of RWLock's or a stutter, by the same invariant.

`NBestProofs` (any lattices that satisfy `IsLattice`, of any size):

- `TypeCorrect`.
- `ResultsOrdered`: `Spec => []CostsNonDecreasing`. The invariant adds `Estimates` (every element
  but the root has `fx` = cost of its node + `gx`; the root is alone) and `AgendaBehind` (nothing
  in the queue is cheaper than any result). `ChildFacts` gives the monotonicity from `IsLattice`:
  the cost of a node is at most that of a left node plus the path.
- `ResultsDistinct`: `Spec => []NoDuplicates`. No path in the agenda or among the results is a
  prefix of another, so an expansion never meets one that exists.
- `ResultsComplete`: when the agenda is empty, every way from EOS to BOS is a result. The invariant
  `Covered` says that every way that is no result yet has a prefix in the agenda.
- `AllResultsFound`: `Spec => []AllFound` adds the costs. The cost of a way is the sum of its parts
  (a fold over the path), so an element that has reached BOS has the sum as its `gx`; the first
  result is cheapest because every way has a
  prefix in the agenda or a result (`Covered`), whose estimate is at most its cost (`EstimateHolds`).
- `LinksRead`: `Spec => []LinksReadResult`. After a result, its path is the chain of links:
  ids descend along a path, so no node is on it twice and none is relinked twice by one result.

`ModelSwapProofs` (any parsing and swapping threads, any objects):

- `TypeCorrect`, with the lock's state as a function of the places of the threads.
- `ParsesLive`: `Spec => []AnalysesLive`, for any number of swaps at once. The invariant says that a
  parse inside the lock uses the current object, and that the objects put in next are not deleted;
  deletion comes after the unlock, when no reader can hold the old object.
- `SoleSwapperDeletesOnce`: `DeletedOnce` with one swapping thread; `Accounted` ties every object that
  is neither fresh nor current to one deletion, done or owed by the thread.

`TextParserProofs` (any workers, texts, outcomes, grain size, division of the work):

- `TypeCorrect`, `WorkersApart` (`PlacesApart`), `WarningsRight` (`EachWarnedOnce`), and
  `ParserImplementsTextMap`: `Spec => ImplementsTextMap`. The inductive invariant is `Apart` (each
  place is in at most one range or with one worker), `Held` (a worker behind `set_sentence` holds
  its own text and its outcome) and `Slots` (a place that is left is empty, any other has its text's
  result). `StepsDealWithOne` reduces every step to one that changes nothing or deals with one place.

`LatticeSessionProofs` (any texts with any number of ways, any thetas, any types among which is
"nbest"):

- `TypeCorrect`, `ServesInOrder` (`ServesSentence`), `ListsCorrect` (`ListsFirstN`), `UnaskedNotServed`
  (`NoResultUnasked`). None of these is inductive: they speak of answers, while what they
  rest on happens calls earlier. The invariant adds `AgendaServes` (while N-best results of an analysis
  that succeeded may be asked for and the lattice is not stacked, the agenda's nodes are allocated,
  it was set for the sentence, and as many results came out as the caller got) and `SameTypes`
  (inside a tagger the lattice is asked for what the last call asked for).

`OutputProofs` (any sizes of arrays and chunks, any requests; of the inputs only that texts are texts,
that an analysis links BOS, words that are not empty and EOS, that `BUF_SIZE` leaves room
for more than an empty text, and that formats are sequences of texts and macros, without `%H` and `%f`
where there is no word: `InputsAssumption`, `ConfsAssumption`):

- `AllocatorCorrect`: `MemorySpec => [](NoCellTwice /\ InsideChunks)`. The invariant says that every
  text and node lies behind the ones before it and in front of the cursor; that `alloc` stops at
  a chunk at all is the well-foundedness of the naturals (`Smallest`).
- `OutputUsesAllocator`: each step of `Output` is a call of the allocator or leaves it alone, so that
  `LatticeMemoryApart` follows: `Spec => []NoCellTwice` for a lattice.
- `SentenceStays`: `Spec => []SentenceKept`. Why the copy of a sentence survives the free in
  `set_sentence` is arithmetic: `set_result` copies its whole text first, so that there is a chunk (`Big`)
  with `Len(result) + 2` cells in front of the copy of the sentence (`InFront`); the second copy of the
  sentence, or the copies of the features, begin again in front of that room, and together take no
  more than the lines they were read from (`EntriesFit`, `SpelledFits`, from what `Split` leaves of a text).
  The invariant `SInv` follows this through the stages of the job: the cursor stands no further than
  the end of the lines whose entries have been filed (`SafeAt`).
- `ResultsDoNotDie`: `Spec => []DiesWithoutResult`. `DInv` says that EOS is linked only when BOS, or an
  entry in its place, is filed at the first position in front of it, and that only BOS is as long as there
  are results to give (`BosFiled`: every word of an analysis ends behind the first position).
- `TypeCorrect`: `Spec => []TypeOK`. `WInv` keeps in mind that the formats are formats and the sentence
  a text; then whatever a style writes is a sequence of texts (`WriteSays`, node by node and element by
  element), and a buffer that doubles while it is too small ends above what is needed (`DoubledFits`), so
  that text and 0 fit (`IntoOwn`). Of `end_nodes` only the first entry is said to lie in the path, which is
  all that `bos_node()` reads: `enumNBestAsString` links a later result, and where that has fewer nodes
  than the first one the other entries lie behind its end.
- `ResultsReadBack`: `Spec => []ReadsBack`. Where the lines of a text end is listed in order
  (`AllLinesLie`), splitting at a symbol returns the pieces between those places (`SplitAt`), so that
  the lines are those written (`LinesSplit`) and their two columns the surface and the feature
  (`ColumnsBack`, `EntriesBack`, `LatticeBack`). That the text was written from the path it is compared
  with is `RInv`: while an answer of `toString` is unread no call fills the lattice, and where the first
  position holds a node other than BOS, that node has no surface (`EntryIsEmpty`).

`DictIndexProofs` (any sources, options and bounds; of the sources only that words are sequences of
bytes and that the sizes in a matrix.def are numbers, which they are as `unsigned short`:
`SourcesAssumption`, `PackAssumption`; and of the array what `ArrayConstants` says of its growth, section 3):

- `OpenedComplete`: `Spec => []OpenedFilesComplete`. The invariant `FilesOK` says that a file with its
  magic number is whole, and that a file in the middle of being written is the head of the plan.
- `ResultsTold`: `Spec => []ResultOfRun`. TRUE means that every file was opened and written by this run,
  and whole unless a write to it failed; FALSE leaves those in front of the failure new. The outcome says something
  of files written many steps before, so the invariant adds `Progress`: a run stands at some k of the four
  files of a directory,
  the first k of them written by this run, the next perhaps open, those behind it of an earlier run or
  none; or it writes the user dictionary alone. That a run has one of these two plans (`Plans`)
  is the longest part: the command lines of the two R functions are read option by option
  (`SystemArgsRead`, `UserArgsRead`), and the dicrc sets nothing that the call has set (`LoadKeeps`).
- `IdsFitMatrix`: `Spec => []WordIdsInMatrix`. The files of a model may come from different runs over
  different sources. `WordsInv` says that the entries of a job fit the sizes it began with (`JobAt`), that
  a dictionary written keeps entries and sizes together and a matrix has a cell for every pair below
  its own (`ContentsOK`); opening compares the sizes, and `CellInside` is the arithmetic of the cell. That
  the sorted dictionary has all entries of the job and no other (`SortedFrom`) rests on the order of
  words being strict and total (`Below`) and on counting (`Places`): finite sets ordered so have an element
  with i - 1 below it for each i.
- `TypeCorrect`: `Spec => []TypeOK`, and `PlacesKept`: `Spec => CellsKept`. `TypeInv` adds `ArrayOK`: the array is
  one stretch of cells, and every frame of the recursion has as children ranges of the keys, and those
  that wait for a call have a child left (`StackOK`). The cells are kept because a place is taken only
  when all its cells are free, growing copies them, and what is written behind a call of `insert`
  is a base and never a check. That growing never makes the array shorter is `GrownLarger`: the
  factor is at least `GrowPercent`, however many keys are left, once a leaf is written.
- `LookupCorrect`: `Spec => []LookupFinds`, and `FindsCorrect`, the same for every text of bytes instead of the
  texts TLC tries. The invariant `TrieInv` names the node each base was given to: while `insert` runs
  (`Placing`), a cell has a base as its check exactly when it is that of a child of the base's node
  (`ChecksRight`), and every child has its value or its own base in its cell or is one a call
  on the stack has still to do (`Pending`); when it has ended none is (`IsPlaced`), and behind the last base there
  is a cell for every code. Each step of `insert` keeps this: a probe that finds its place (`PlacesNode`), a leaf, a
  call, a return. A walk is at the node of all keys that begin with the bytes read, or at 0 when there is
  none (`Reaches`, by the least length at which it would not be; that the walk exists is
  `BasesWalk`). Hence the search returns the keys the text begins with (`Searched`). `KeysAt` keeps
  keys and values those of the lines; the entries of a word stand behind each other in the sorted dictionary, in
  the order of their lines (`RunOfWord`), a value unpacks to this run (`Unpacked`, which needs fewer than
  `PackWidth` lines), and a token says where its feature is (`FeaturesKept`, an invariant of the job).

`ViterbiProofs` (any texts, dictionaries, classes, constraints and matrices that satisfy the
assumptions named above). Every theorem has two hypotheses: `ShortTexts`, that no length and no window is cut
(`TextFits`; in the code texts of at most 65532 bytes), and `NulIsNoSpace`, that a walk over spaces stops at
the end of the text (`SpacesFacts`). Written `Spec => []P` below for
`NulIsNoSpace /\ ShortTexts => (Spec => []P)`:

- `Invariance`: `Spec => []IInv`, the invariant all others use. `Shape` types the vectors; `Built` says
  what the scan has made so far: `BosFirst` and `EosLast` place the two sentinels; `Filed`, that a node
  is filed where it ends; `WordsJoined`, that every word begins where nodes end, was offered there,
  has a path from each of them, and the cheapest as its cost and predecessor; `AllTaken`, that every
  word offered at a position behind the scan was taken, `EosJoined` the same of EOS. `FailedAt` and
  `DiedAt` say why an analysis ended early. It is inductive because a step only files nodes
  at or in front of the scan, and never changes one it has filed (`PathsStay`).
- `LatticesYielded`: `Spec => []YieldsLattice`; with `NBestProofs` it follows that the results of any
  analysed text are ordered, complete and distinct.
- `NeverCutOff`: `Spec => []NoDeadEnd`, from the facts about what `Lookup` offers at any position.
- `BestPathsOptimal`: `Spec => []BestIsOptimal`. `AreChains` follows the segmentations one word at a time;
  every chain of words has a node at its end that costs no more (`Reached`), by `AllTaken` and
  the minimum in `connect`; the best path, spelled out, is itself a segmentation (`IsSpelled`).
- `FailuresJustified`: `Spec => []FailureJustified`, from the same lower bound.
- `MorphsListed`: `Spec => []AllMorphsOrdered`. The invariant `Listed` says that every node but BOS
  stands once in the list of the position it begins at; the result is these lists one behind the other.
- `ConstraintsHeld`: `Spec => []ConstraintsKept`. The lattice of a call stays as `Start` made it (`Prepared`),
  so the argument is about `InitPartial`, `Lookup` and the best path. The constraints are `Bounded`
  (the text ends at a strong boundary, and nothing is said of the spare entries); those of a partial
  parse are `Fragmented` (each feature stands at a strong boundary, with positions inside a token up to the
  next, and only there is such a position behind a boundary). At a place
  in such a lattice every word offered `Suits`: it begins behind the spaces, and unless these fill the
  fragment it ends by the fragment's end and is a valid node. This is followed through all of
  `Lookup` (`LookupSuits`), and every token of the best path is such an offer (`TokensOffered`).
- `ThrowsJustified`: `Spec => []ThrowsOnlyBeforeMorpheme`. If any word was pushed lookup does not throw; the
  last resort's walk (`BoundaryWithin`) stops inside the fragment at a position a token may end at, where
  its unknown word is valid unless a feature is demanded, and then the feature itself makes the node.
- `SentenceTiled`: `Spec => []TokensTile`. A token begins where the one before ended, as its `prev` is filed
  there; that only spaces lie in front of its surface is that seeking again, up to the surface, stops
  at the same place (`SeekAgain`). What longer texts may do is in section 4.
- `TypeCorrect`: `Spec => []TypeOK`. In front of a fragment's end a word ends by it. Where
  spaces fill the fragment, the walks of lookup start behind the end, at which alone they would stop,
  and `Narrow` follows them: every step is over a space, which is in the text and has at most three
  bytes, so that it gets no further than two behind the text; where lookup starts is at most the three
  bytes of the last space behind it. What is filed behind the text ends where it is filed (`BehindEnd`).

Recursive functions over the text (walks, folds) are reasoned about without an induction theorem:
`UpTo` takes the least number outside a set, `Iteration` builds the sequence of values that the steps
give, and `StaysIn` keeps it in a set. The first two are proved in `OutputProofs` once more, where
`FlattenLong`, `OrderAscends` and `SplitFacts` say what the folds over texts return.

Only model-checked: liveness (`SomeWriterEnters`, `CountedReaderEnters`, `CallsReturn`, `Returns`),
which the prover does not reach; all that is said of texts longer than `ShortTexts`;
`TablesUsable` of `DictIndex`, whose types are sums of powers of two; and
`TablesFaithful` of `TokenTable`, whose tables are built by recursion over sequences.

## 6. Not modelled

- Marginal probabilities (`forwardbackward`): floating point. `buildAlternative`: called by nobody.
- Options a package call never gives: `-a` and `-p` of the dictionary compiler
  (`assignUserDictionaryCosts`, the costs of a whole user dictionary), context-id files that are
  written, the encoder that trains a model, `%w` templates, a `node-format` in the dicrc of a build.
- Conversions of character sets (that a word fails to convert is an input of `Lexicon`); escapes in
  formats, and the digits of numbers; quoting in CSV; encodings other than UTF-8, which are compiled out.
- `posDebug.cpp`, `libmecab.cpp` (wrappers), the generated bindings, help texts.
- `pack`, `collapse_tokens`, `mute_tokens`, `prettify` and `bind_*` in R: calls of other packages over data
  frames.
- One category named twice on a line of char.def, more homographs or prefixes than the widths of
  their fields: a run has room for all. Build directories that are named by an empty text.

## 7. Plan

Done: 1. `RWLock`, `RWMutex` with proofs; 2. `Tokenizer`, `ViterbiLattice` with proofs; 3. `LatticeGraph`,
`NBest` with proofs; 4. `ModelSwap` with proofs; 5. `LatticeSession` with proofs; 6. `TextMap`,
`TextParser` with proofs, `TokenTable`; 7. `DoubleArray`, `Lexicon` and `DictIndex` with their tables, and
the proofs about whole files, the result of a run, the ids of the words, the cells of the array and what is
found in it;
8. `FreeLists`, `Writer`, `Output`, with proofs about the memory, the sentence that lies in it, what
`toString` reads and writes, and what `set_result` reads back.

Next:

9. `pack`, `collapse_tokens` and `mute_tokens` as further operators of `TokenTable`.
