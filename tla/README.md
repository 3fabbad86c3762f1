# SpecificJSON in TLA+

SpecificJSON is a Ruby script that writes a C++ header and source with parsers
and writers for JSON of an expected form, out of a description in YAML and a
set of *pieces*, C++ fragments that are imported into the script. This
directory models the program: the pieces, which are the code that runs in the
user's program, the script's own algorithms, and the block queue of the
profiling program. The models are checked with TLC on small instances, and
what matters most of the parsers, of the program that uses them and of the queue is
proved with TLAPS for every value of the constants.

Line numbers are those of the repository's files; `PROJECT.json` maps each
definition that models code to its lines.

## 1. The system

### Components

| Component | Source | State | Operations | Modules |
|---|---|---|---|---|
| ValueParser, ParserPool | `pieces/ValueParser.*`, `ParserPool.hpp` | `finished` of each parser; the pool's one `buffer`, a parser and a Value per scalar type | `skipWhitespace`, `setFinished` | PoolParsers |
| ParseObject | `pieces/ParseObject.*` | `state`, `activating`, `active`, the tuple of values with their Given marks | `Parse`, `Swap`, `SwapOnly` | ObjectParser |
| ParseArray | `pieces/ParseArrayContainer.hpp` 7-100 | `out`, `began`, `expect_number` | `Parse`, `Swap` | ArrayParser |
| ParseContainerArray | the same, 101-197 | as ParseArray, with a parser of its own for the items and the size of the first | `Parse`, `Swap` | ContainerArrayParser, NestedArrays |
| Integer parsers | `pieces/ParseInteger.hpp`, `read_*Int*.cpp` | `buffer`, `finished` | `Parse` | IntegerParser |
| Float, Double parsers | `pieces/read_Float.cpp`, `read_Double.cpp` | the same | `Parse` | FloatParser, ScalarPool |
| Bool parser | `pieces/read_Bool.cpp` | the same | `Parse` | BoolParser, ScalarPool |
| String parser | `pieces/read_String.cpp` | `state`, `hex_digits`, `count` besides | `Parse` | StringParser, StringReader, StringRoundTrip, StringProofs |
| String writer | `pieces/write_String.hpp` | `Begin` and `curr` of one call | `Write` | StringWriter, StringRoundTrip, StringProofs |
| Number, array, pointer writers | `pieces/write_*` | a buffer that grows, each range's `Begin` | `Write` | ArrayWriter, NestedArrays |
| Exceptions | `pieces/Exception.*` | the message | | none: that one is thrown is in the parsers' models |
| Generator | `build` | `needed`, `reqs`, the specification | check, collect, arrange, write functions | PieceOrder, Generator |
| Import, export, embedding | `build`, `build.yaml` | `$PIECES`, `$FILECONTENTS`; `name2store`, the directory | `--import`, `--build`, `--export` | PieceExport, Script |
| BlockQueue | `profile/BlockQueue.*` | the list, `available`, `ended`, mutex and condition variable | `Add`, `Remove`, `End`, `Ended`, `Empty` | BlockQueue, BlockChannel |
| readparse, FileDescriptorInput | `profile/readparse.cpp`, `FileDescriptorInput.cpp` | the block being filled; the descriptor and `eof` | `main`, `read_input`, `parse_input`, `Read` | ReadParse; with threads in BlockQueue |
| inputgen, tests, CMake, Rake, doctest | | | | none |

### How they interact

The parsers are called with a chunk, `Begin` and `End`, and return a pointer
to where they stopped, or `nullptr` when the chunk ended first; the next call
goes on with the next chunk. A `ParseObject` calls the pool's String parser for
its keys and, for the field a key names, a parser of the pool or a `ParseArray`,
which calls another; a `ParseContainerArray` has a `ParseArray` of its own for its
items. All parsers of a pool share its `buffer`, and all fields
of one scalar type, the keys included, share one parser and one `Value`; what
was read is swapped out of the `Value` when the parser is finished. `read_input`
fills blocks and puts them in a `BlockQueue`, from which `parse_input` takes
them. `readparse` runs one after the other, but the queue, with its mutex,
condition variable and recycled blocks, is written for threads that read and
parse at once, and it is modelled as they would use it. The script
takes for a specification the pieces its formats name, all that those require,
and puts them out in an order in which C++ can use them.

### What is hard

* A chunk may end between any two characters, and each parser keeps, in flags
  and in the shared buffer, where it was. The state machine of `ParseObject` is
  a `switch` with fall-through that is entered in the middle.
* The shared buffer and Values: what one parser leaves there is part of the
  next token, whoever reads it.
* A number ends at the first character that is not part of it. If the chunk
  ends first, whether the number ended is only known in the next one.
* Strings: escapes and four-digit characters that are cut; the encoding of the
  result; and whether what `Write` writes is what `Parse` reads.
* A `ParseContainerArray` is resumed in two loops at once, and each knows of the
  parser below it no more than its `Finished()`.
* Floats: an exponent may begin the next chunk, and `strtof` takes hexadecimal,
  INF and NAN.
* Integers: range checks after a conversion in another width, and a library
  function that accepts more than JSON does.
* The queue: consumers that sleep, are woken by others' notifications, by
  nobody, or find the block they were woken for gone; `ended`, which is
  written and read without the mutex; blocks that go round between threads.
* `readparse`: what of a file is read by one `read` is chance, the file may end or
  fail anywhere, and parsing goes on with what there is.
* The script: names for exported files that clash; the closure of the requirements, a comparison function for
  `sort!` whose result need not be an order, and separators between fields of
  which some may be missing.

Exceptions leave a parser and its pool as they were. The repository's callers,
its tests among them, do not use either again; the models' callers `Drop`
both. Everything else of this list is a hazard in `PROJECT.json`, at its line,
with the properties that would fail if it went wrong.

### What correct means

* **Parsers**: what a finished parser holds is what the text it was given says,
  however it was cut and whatever was read before with the same pool
  (`OutIsWhatWasRead`, `ValueIsText`, `ValueIsWord`, `OutIsText`); only a text
  that is no beginning of a right one is refused (`RefusesOnlyNon...`); a call
  comes to an end (`CallReturns`).
* **Pool**: at most one parser is part-way through a value, and the buffer is
  empty unless one is (`BufferOwned`, `BufferIsUnfinishedValue`).
* **Nested calls**: between two calls just the parsers on the way down to where the
  chunk ended are unfinished (`ItemResumes`, `StopsWhereStateSays`).
* **Writers**: what is written is read as the value that was written
  (`ReadsWhatWasWritten`).
* **readparse**: the blocks are the file, all of it if no `read` failed
  (`BlocksAreTheFile`), what comes of a file
  does not depend on how it was cut (`FileDecides`), and the program ends
  (`ProgramEnds`), which it does not without a file.
* **Queue**: chunks come out once, complete and in order (`DeliversInOrder`),
  all in the end (`EveryChunkTaken`); a block has one user (`OneOwner`); nobody
  sleeps while there is a block to take (`NoSleeperForgotten`); the end is told
  when nothing is left (`EndedMeansAllTaken`) and reaches everybody, which it
  does not.
* **Generator**: all that is needed is put out (`NothingMissing`), after what it
  needs (`DefinedBeforeUse`), and the functions it makes separate the fields
  with commas (`CommasBetweenFields`). An exported set of pieces can be imported
  again (`ExportIsImportable`).

## 2. The modules

### Parsers of a pool: PoolParsers, ArrayParser, ObjectParser

`PoolParsers` has the pool and its scalar parsers as seen from the container
parsers: one String parser, one integer parser, their Values and the buffer.
A string is its characters here and a number its digits, since escapes, signs
and ranges do not depend on who calls; they are in modules of their own, below.

A chunk is not a variable. `look` is the character at `Begin`: `Unread` until
the code looks, then a character or `EndOfChunk`. Because the feed is chosen
only when the code looks, every way to cut every text occurs, also chunks of
one character, and chunks that end in whitespace, between tokens or in them.
Empty chunks occur between two others and as the first of an object, not as the first
of an array or a string, whose `Parse` reads `*Begin` before it is compared: a hazard,
as nothing in the repository passes one there. To numbers and Bools the tests do, and
so do their models, below.

Calls nest: `ParseObject::Parse` calls `ParseArray::Parse`, which calls a
scalar parser. The stack is known from its innermost frame, `frame`, so each
action of a callee has a parameter `back`, the frame it returns to, and `ret`
is what it returned there: a pointer or `nullptr`. `frame = "failed"` is an
exception on its way to the caller.

`ArrayParser` adds the loop of `ParseArray`. `ObjectParser` adds `ParseObject`: the
states of its `switch` are the values of `state`, an action is a round of a loop
or a case, and a fall-through is a step that leaves `look` as it is. `Key`,
`Kind` and `Required` are the fields; one at most is an array, which is the
`array` of `ArrayParser`. `ScanningKeyValue::given`, which nothing reads, and
the text of messages are left out. Whitespace before `{` is refused by the code,
and in the model.

`text` is a history of the characters taken since the last `Swap`, whitespace
left out, except that `Gap` marks whitespace, or a NUL, after a digit: there it
makes a difference. `pairs` is another, the fields that were kept since then
with their values, which `out` no longer has when a key comes twice.
`ArrayTexts` and `ObjectTexts` hold what the properties refer to: the text of
values, of arrays of them and of lists of pairs, what such a list means, and
the grammar as sets: all texts of all objects within `MaxPairs` and `MaxItems`
and their beginnings. They are not an automaton and share nothing with the
parsers. The bounds limit what may be refused (`RefusesOnlyNonObjects`,
`FileDecides`) and nothing else. That `{"a":1,}` is accepted (`ParseObject.hpp` 273 and 318) is in the
grammar, as the code's choice.

`RecordBuilder` is what `ParseObject` promises without text, chunks or
parsers: a record is filled a field at a time, is complete only with all
required fields, and the next starts empty. `BuildsRecords` is the refinement.

### Arrays of arrays: ContainerArrayParser, ArrayWriter, NestedArrays

`ContainerArrayParser` is `ParseContainerArray` around `ArrayParser`, whose own
`Parse` and `Swap` it calls: `outer` has its `out`, `began`, `expect_item` and
`finished`, `sameSize` is the template's parameter, chosen at the start. Its frames
are those of the array's loop once more, and the same `back` and `ret` tie them
together. A zero character inside a chunk hides the rest of it
(`ParseArrayContainer.hpp:147`), as in the code.

`ArrayWriter` is `Write` of a vector of vectors of numbers
(`write_StdVector.hpp`, `write_ForwardIterator.hpp`, `write_ScalarType.hpp`): `path`
is the stack of ranges and where each one's `Begin` is, `chars` the `Buffer` that
all calls share and the caller keeps, with what `snprintf` puts there and what it
leaves. A number is its digits, so one too long for the buffer, one that just does
not fit and one that is shorter than what is left of the last all occur.

`NestedArrays` is the caller of both: any text, or what was written of a value,
goes to `Parse` in any chunks, and `Swap` or, after an exception, a new pool follows.
The texts are those of `ArrayTexts`, a list of lists; the grammar is a set
again, with the arrays of one size a part of it.

### Scalars: IntegerParser, FloatParser, BoolParser, StringParser

`IntegerParser` is `convert_to_integer` and `parse_integer` on whole chunks, a
sequence of characters each, for a `type` with `min` and `max`. `Strto` is
`strtoimax` or `strtoumax` by its standard: it skips `isspace`, takes a sign
and saturates with `ERANGE`; the negation of an unsigned numeral is modulo
`ULongMax + 1`. The widths are constants, so that the boundaries are within
short numerals.

`FloatParser` is `ParseFloat::Parse`, which `ParseDouble::Parse` repeats, on whole
chunks too. `Strto` is `strtof` by which characters it takes, decimal, hexadecimal,
INF and NAN; the value is the characters it was converted from, since what
matters is which these are. `BoolParser` reads a character at a time, as the
container parsers do, and has every character of the two words. `ScalarPool` puts
both in one pool: each has its own `finished` and Value, and they share `buffer`.
Only a caller whose parser is finished goes on to another, as `ParseObject` and
`ParseArray` do.

Their first chunk may be empty, as in `unittest.cpp` (537, 627, 961). Then the parser is
unfinished and the buffer has nothing, and the next chunk is read by what is for
the rest of a value. Where a value begins in it all is well. If not, a number is taken
from no character at all, so that a lone `,` gives 0 (`ZeroOfNothing`); and `ParseBool`
asks for `front()` of an empty buffer, which may end the program (`crashed`), and
takes an `e` for the end of a word. `emptyFirst` is the history that tells these
cases apart in the properties, which leave out no other.

`StringParser` has the states `Normal`, `Escaped` and `Unicode` with `hexDigits`, and
bytes as numbers, so that the UTF-8 it makes can be decoded and compared.
Surrogates are not combined by the code, and are not in the model: each four-digit
character is encoded by itself. `StringReader` is its reference, JSON's escapes and
UTF-8 decoding, written from what they are and not from the parser: what is said at
each place of a text and how wide it is, and `InOrder`, which reads it from the first.

`StringWriter` is the loop of `Write` with `Begin` and `curr` as indices;
`StringRoundTrip` gives what it wrote, or any text, to `StringParser`, in any chunks.
A value with a control character other than the five that have an escape is
refused by `Write` although `ParseString` reads it from a four-digit escape: the
round trip is from value to text to value, and not the other way.

### Queue: BlockQueue, BlockChannel

One reader, `read_input`, and a set of consumers that call `Remove` with the
block they have used, wait or not, and ask `Ended` when they get none. What a method does with the
mutex held is one step, up to the point where it waits; `Wait` is a step of its
own between the test of `queue` and `ended` and the sleep, which holds the mutex
throughout (`MutexFree`). Consumers wake by `NotifyOne`, by `NotifyAll` and by
nothing (`Spurious`), and look again at a queue that others may have emptied.
`Ended` is two steps, since it reads `ended` without the mutex and then `Empty`
takes it. `End` takes no mutex, and `ended` is a plain `bool`: other threads may
see it before or after the notification, so `StoreEnded` and `NotifyAll` come in
either order. `content` is what each block holds, `available` the block to be
filled next, `filled` and `held` the pointers of the threads. `added` and `taken`
are histories. `new Block()` is a block that nobody refers to; with one block
more than chunks there always is one.

`BlockChannel` is the promise: what is received is a beginning of what was
sent. `DeliversInOrder` is the refinement with `added` and `taken`.

### readparse: ReadParse

`ReadParse` is the program as it is, in one thread: `open`, `read_input` with
`FileDescriptorInput::Read`, then `parse_input` with the `ParseObject` of
`ObjectParser` and `Swap`. A `read` returns any number of characters up to
`BlockSize`, or none, for one of three reasons (`Answer`): nothing yet, as `pselect`
does not wait and a signal may come; the end of the file, only behind its last
character; an error, anywhere. `EndsInput` is what the code makes of them: it ends
for the last two, and tells them apart no more, so that `readError` is a history. The
queue is its list, as nobody else uses it; `BlockQueue` has the threads.
`parse_input` leaves its loop also when the blocks are used up, and swaps what
there is. Descriptor -1 is used like any other; `Abort` is the C library that checks
`FD_SET`. `readparse.cpp` calls `Scan`, the name `Parse` had before; the model calls
`Parse`. `OnTheWay` is all that is between `read` and `values`: what was parsed, the
character in view, the rest of the block, and the blocks in the queue.

### Generator: PieceOrder, Generator, PieceExport, Script

`PieceOrder` has the pure part of the script: `compare_pieces` as the relation
`Earlier`, the closure of the requirements, and `arrange_needed` with its two
sorts. `Generator` is a run of the script for a specification: `Check` (found
good or exit with a message), `Need`, `Close` (a round of the loop over `reqs`),
`Arrange` and `Make`. A format is a sequence of names, a field has a format and
whether it is required and has an accessor and a checker. `needed` and `reqs`
are arrays in the script and sets here: `SortsAnOrder` shows that the sorts have
one outcome, whatever order they are given. `MCGenerator` has the repository's
own 37 pieces with their requirements, by name; they were taken from the
`pieces/*.yaml` and have to be brought up to date with them. The C++ text, and the substitutions in it, are
not modelled.

`PieceExport` is the script without `--input`. A file that is imported gets the key
of an entry of `$FILECONTENTS` that equals it, or a new one; what came with the
script is binary after `decode64`, so in Ruby it equals the same text read anew only
if that is ASCII (`Ascii`). `Build` is `--build` and a run of the new script. `Export`
fills `name2store` and writes the files whose name has one content, `Number` gives a
file of the others its name, `List` writes the pieces. `ImportExported` is
`--clean --import exported.yaml` in the directory, as `test/export.sh` has it. A name
is a sequence, so that a file that is called `a_1.hpp` by its author and the one the
script numbers so are the same name. A piece has one file; header, source and
license are three in a row, which the script does not tell apart either. `Script`
joins both ways to run it.

## 3. What is checked

Every run is exhaustive within its bounds.

| Run | States | Shows |
|---|---|---|
| object_fields | 402 983 | objects with a number (required), a string and an array of strings, keys and values all through one String parser and Value, one after another: `out` is what the text says, later pairs of a key win, nothing is left of an earlier object; refusal at the first character that cannot be right; a call stops where `state` says; the buffer has one user; every call returns; `RecordBuilder` is implemented |
| nested_arrays | 518 009 | arrays of arrays of numbers in every split, of one size or not: nothing lost, repeated, joined or put in another array; only the wrong ones refused; just the parsers on the way down are unfinished between calls; what `Write` wrote is read back; every call returns; the inductive invariant |
| scalar_pool | 475 164 | Floats and Bools in turn, every text of five characters in every split, an empty first chunk too: the value is the whole numeral and no hexadecimal, INF or NAN, only what is none is refused, and nothing of one is left in the buffer for the other |
| integer_types | 23 646 | every split of every text of four characters, an empty first chunk too, for a signed type narrower than `intmax_t` and an unsigned one as wide as `uintmax_t` |
| integer_negation | | finding |
| string_round_trip | 264 680 | every text of seven characters, so `"\uXXXX` and every cut of it, and every value of up to three characters written and read back; every call returns, every round trip ends |
| readparse | 570 292 | four files in blocks of one to three characters, with a read error anywhere and reads that have nothing yet: the values depend on the file alone, no character is lost or moved, the input ends at the end of the file or with an error, the program ends |
| readparse_no_file | | finding |
| block_queue | 107 744 | two consumers, two chunks, three blocks |
| block_queue_end | | finding |
| generator | 1 874 685 | about 200 specifications: every set of two required formats, every combination of parser and writer, up to four optional fields, `full`; and every four files of two names and three contents imported, replaced, built in, exported and imported again |
| generator_writer_only | | finding |

### Why the bounds are enough

* *Objects.* 19 characters are enough for two pairs of which one is an array of two
  items, and for three with numbers and empty arrays; after a number and a string
  the array of a third pair is begun. Three characters in a token are three parts in three chunks.
  One key is the beginning of another, so that the match of keys is not by
  their first letter, and one is empty; the values are like the keys. Two objects
  in a row need no bound: after `Swap` all of the state but the Values' leftovers is
  back, and those are in the state.
* *Arrays of arrays.* Ten characters of a text are enough for two inner arrays of
  different sizes and for one that follows an array that was cut in a number;
  written values are not bounded by it, and have up to three numbers in each of
  two arrays, so that a number fits the buffer, just does and just does not.
* *Floats and Bools.* Five characters are a numeral with an exponent, a sign and a
  separator, or `false`. Each cut of `1e-1` and each wrong character of it is among
  them, and any such text may follow any value.
* *Integers.* The type's limits are -9 and 10, the library's -99, 99 and 199,
  so a numeral of four characters goes past each of them.
* *Strings.* Digits 0, 8 and b reach each of the three lengths of UTF-8.
  Letters stand for themselves whatever they are, and one is enough.
* *Queue.* Two consumers are the least for a stolen wakeup, two chunks for
  one to be queued while another is in use, three blocks for one that is
  recycled. The safety properties are proved for any number of each.
* *readparse.* The files are one that is whole, with a number that is cut, one with
  more behind, one that is wrong and one that ends early; the read error cuts
  each everywhere. Blocks of one to three characters cut every token, and a
  larger one adds no other cut.
* *Generator.* Pieces are the real ones. Two fields are enough for two formats
  to bring in pieces that require each other's; four for a comma after two that
  are missing. Four files are the least for three contents under one name and a
  file that has the name the second would get.

### Fairness

* *Parsers.* `CallReturns` assumes that a running call goes on (`WF` on its
  steps: nothing else stops a call of a function) and that chunks end (`SF` on
  the end of chunk, since whether the code looks at `Begin` comes and goes): a
  chunk is finite. That the loops advance is what is left to show. Nothing is
  assumed of the caller.
* *readparse.* `WF(Reading)`: a `read` of a file returns in the end, although
  `pselect` may have nothing for a while (which changes nothing, and is no step that
  fairness counts); `WF(Parsing)`: the program runs.
* *Round trip.* The same as for parsers, and strong fairness on feeding the next character,
  or chunks could be empty for ever.
* *Queue.* `SF` on the steps of the reader and of each consumer: the mutex
  must be had in the end although it comes and goes, and the scheduler runs every
  thread. There is none on `Fill` and `InputEnds`, as input may never come, nor on
  `Spurious`. It is the fairness of the operating system; the code has no queue
  of waiters of its own.
* *Generator.* `WF`: the script goes on.

Deadlock is checked but where the program ends: the queue when all threads are
done, `readparse`, and the script.

### Findings

1. **The end of the queue may be missed** (block_queue_end). `End`
   (`BlockQueue.cpp:63`) sets `ended` and notifies without the mutex. A thread in
   `Remove(true)` that has tested `ended` (line 21) and does not wait yet misses
   both, and sleeps for good. `BlockQueue.hpp:42` says "These return nullptrs if
   nothing present." With the mutex taken in `End` the run has no
   counterexample.
2. **A negation is returned after whitespace** (integer_negation).
   `convert_to_integer` refuses what begins with `-` for unsigned types ("Avoid
   returning negation of value.", `ParseInteger.hpp:17`), but `strtoumax` skips
   whitespace first. The containers pass over what `isWhitespace` accepts, and
   the vertical tab is not among it: `\v-5` as a UInt64 gives 2^64 - 5. Narrower
   types are saved by the range check.
3. **Without a file `readparse` does not end** (readparse_no_file). The result of
   `open` (`readparse.cpp:50`) is not tested. For descriptor -1
   `FileDescriptorInput::Read` asks `pselect` about no descriptor, gets 0 and not
   `EBADF`, and never sets `eof`; the loop at `readparse.cpp:18` runs for ever.
   `InputChannel.hpp:21` says of `Ended` "Return true if the channel has closed."
4. **Types that are only written stop the script** (generator_writer_only). With
   no piece of the pool among those needed `rindex` gives `nil` (`build:441`), and
   `last + 1` an exception. `README.md:76` says that there will be a template for a
   writer.

Also seen, without a run of their own: a format that names another type that has
a parser passes the check at `build:614`, and its `requires` are then asked of
`nil`; the specifications of the generator run have no such format. The defaults
for accessors and checkers at `build:765` never apply, as `build:584` has put `nil`
there. A namespace that ends in `specjson` makes the substitution at `build:341` go
on for ever.

## 4. What is proved

All proofs are of safety properties, for every value of the constants that
satisfies the named assumptions: `CharAssumption` (letters, digits and marks are
different), `BoundAssumption`, `ItemAssumption`, `FieldAssumption`, `DocumentAssumption`
and `SizeAssumption` of the parsers; `FileAssumption` of `readparse`; `TextAssumption`
of the Floats; `TypesAssumption` of the integers (what they are converted in is as
wide as the type); `AlphabetAssumption` of the strings (characters are bytes);
`ConsumerAssumption` (finitely many threads), `BlockAssumption`
and `ChunkBound` of the queue. Texts, chunks, fields and threads are as many and as
long as one likes.

| Module | Theorems | State |
|---|---|---|
| ObjectParserProofs, of `readparse` | `BlocksReadWhole`, `ValuesOfTheFile`, `RefusesOnlyBadFiles` | `[]BlocksAreTheFile`, `[]ValuesAreTheFile`, `[]RefusesOnlyNonObjects` |
| ObjectParserProofs | `TypeCorrect`, `BufferExclusive`, `StopsInPlace`, `Refinement`, `NothingLost`, `RefusesOnlyBadObjects` | `[]TypeOK`, `[]BufferOwned`, `[]StopsWhereStateSays`, `BuildsRecords`, `[]OutIsWhatWasRead`, `[]RefusesOnlyNonObjects` |
| NestedArraysProofs | `ItemsResume`, `NothingLost`, `RefusesOnlyBadTexts`, `WriteThenParse` | `[]ItemResumes`, `[]OutIsWhatWasRead`, `[]RefusesOnlyNonArrays`, `[]ReadsWhatWasWritten` |
| ScalarPoolProofs | `BufferIsOwned`, `WordsAreRead`, `OnlyNonWordsRefused`, `NumeralsAreRead`, `OnlyNonNumeralsRefused` | `[]BufferIsUnfinishedValue`, `[]ValueIsWord`, `[]RefusesOnlyNonWords`, `[]NumeralIsText`, `[]RefusesOnlyNonNumerals` |
| IntegerParserProofs | `ValuesAreRead`, `OnlyNonIntegersRefused` | `[]ValueIsText`, `[]RefusesOnlyNonIntegers` |
| StringProofs | `ReadsText`, `RefusesNonStrings`, `RoundTrip` | `[]OutIsText`, `[]RefusesOnlyNonStrings`, `[]ReadsWhatWasWritten` |
| BlockQueueProofs | `BlocksHaveOneOwner`, `NoLostBlock`, `EndedIsLast`, `Refinement` | `[]OneOwner`, `[]NoSleeperForgotten`, `[]EndedMeansAllTaken`, `DeliversInOrder` |
| ArrayParserProofs, SequenceLemmas | lemmas | what the layers under both kinds of container keep; sequences of sequences |

Each module also has `Invariance` (or `ControlInvariance`, `MainInvariance`), the
inductive invariant that the others follow from.

**Induction over texts.** That a text is what the values in `out` say is a
statement about sequences of any length, and the invariants need it for one more
character, item or pair at a time only: `FlattenAppend`, `SeparatedAppend`,
`WithoutGapsAppend`, `MeaningAppend`, `MagnitudeAppend`. Where a fact is about whole
sequences, `SeqInduction` takes a set for what is to be shown of them, and rests on the
least length of one that is not in it (`LeastMember`). So nothing recursive is
needed but recursive functions and the library's folds over them. That a recursive
function of the references exists, where its own definition goes forward to the end
of a text, is shown in the same way (`ChainsExist`, `GoingsExist`).

**Containers: control.** `BufferOwned` is not inductive. A call of `ParseArray` inside
a call of `ParseObject` returns to it with a pool parser unfinished, and nothing in
`BufferOwned` says that the next `Parse` resumes just that one. `ControlInv` adds
`PoolInv`, how the frames, flags and the digits of this chunk belong together;
`CallInv`, that the object's `state` and `active` name the parser that is busy, and
that frames of the array run only below a field that is one; and `StageInv`, which
`state` a call begins and ends in. For arrays of arrays it adds `FlagsInv` (an
unfinished parser has one above it that expects it), `FramesInv` (the loop that runs
finds those below it at rest, and what `ret` says of them), `DigitInv` (a digit that was
read belongs to a number that is busy, or over with the next character in view),
and, of the writer, its types and `PathInv`. That `Write` sends only characters of the
value rests on `PrintedIsDigits`: after `snprintf` the first `count` places of the buffer are
the number, however long it was before and whatever was in it. After an exception
only the types are left: that is why a pool may not be used again.

**Containers: what was read.** `OutIsWhatWasRead` speaks of the end only. `ReadInv` says
what the parsers hold before: the text that was read is that of the items or pairs
kept, a comma if one is expected, and what the parser below has, down to the
`buffer` and the digits of this chunk (`ItemRead`, `ArrayRead`, `OuterRead`, `ObjectRead`).
`ArrayOrder` ties the flags to it: `began` and `expect_item` must tell whether a comma
was read, or `[1,` and `[1` would be the same to the next call. For objects `out` is
`Meaning(pairs)`, which is where a repeated key replaces the value it had. The lemmas
go by layer as those of control do: `ScalarReads` and `ArrayReads` say what a step of a
pool parser and of `ParseArray` adds, whichever frame called it; `ScalarUnderObject`,
`ArrayUnderObject` and `ContainerReads` use them.

**Containers: what is refused.** That only a text is refused with which no array or
object begins needs that a text has one reading. Two texts agree if one begins the
other (`Agrees`), and two lists whose texts agree have the same items as far as both go:
`UnitsAgree` for any units none of which begins another, `TokenApart`, `ArrayApart` and
`PairApart` for those there are. So whatever array begins with the text that was read has
the items that are kept (`ListGoesOn`, `ArrayGoesOn`, `NestedGoesOn`, `ObjectGoesOn`), and
what is left to show is that behind them no item, pair or end goes on as the text does
(`ArrayRefuses`, `ValueRefuted`, `KeyRefuted`). This asks more of the states than `ReadInv`:
that each value kept is one of its kind and an item begins only where one may
(`ItemInv`, `ValueInv`), which character is in view where (`LookInv`), and where a call
goes in (`EnterInv`); `EntryInv` and `RefuseInv` are their conjunctions. The exception is a
number in which whitespace came: `1 1` is refused, and without its whitespace it would
be one number (`SplitNumber`). Where a digit is refused the text therefore ends in a
gap (`GapIsLast`, `SplitIsGap`). The theorems about objects assume `KeysApart`: no two
fields have one key, of which `setActivating` would find the first only, and keys are of
characters that stand for themselves, as escapes are left out here; the keys of the
runs are so.

**Arrays, written and read.** `SinkInv` has that the sink is the text of the value as far
as the writer's `path` says, `ReadBackInv` that what was read begins the sink and what is in view
comes next in it. The sink is a right text, so `RefusesOnlyBadTexts` says that it is not
refused; its whole text is read before the parser ends, since no array's text begins
another's; and what was read is the text of `out`, by `NothingLost`, so that `out` is the
value. `WriteThenParse` assumes `ItemKind = "number"`, because the writers modelled write numbers.

**ObjectParser, refinement.** `Refinement`: `RecordBuilder` with `out` and whether `Parse` has
returned. `BuilderStep` maps each action to a step or a stutter; all but the one that
keeps a value, the end and `Swap` leave the record as it was, and that an object that
ends has its required fields needs `StageInv`: the check is made in one `case` only.

**readparse.** `MainInv` adds to `IInv` of the parser that a call that asks for the next
chunk has used up its block (`BlockInv`), so that nothing is dropped when `parse_input`
takes another. `BlocksAreTheFile` compares without blanks, since the parser's history
has none, and holds after an exception too: what was parsed, the character that was
refused and the rest are still the file. That `eof` without an error comes only at the
end of the file is a part of it, as what `Read` makes of no character decides it.
`ValuesOfTheFile` follows from it and from the
parser's `ReadInv`, and `RefusesOnlyBadFiles` is `RefusesOnlyBadObjects` with the blocks as
chunks.

**ScalarPool.** `ParseBool` knows of the chunks before only the buffer. The invariant
says that it is enough: `WordInv` has that what was read is a part of the one word
whose first letter it has (`PartOf`), neither empty nor whole, in every state in which
a later call will ask, but for an empty first chunk (`BegunOf`); `PartGrows` and `PartIsOfOne` are the facts about the words.
`FloatInv` has how the Float's flag goes with its history; between two chunks that is
characters of numerals alone. What `strtof` takes of a text is compared with the
grammar by the places where each part ends, not by recursion: `strtof` stops at a
character no numeral goes on with, wherever the chunk ended, and a decimal numeral
that is followed by one more of its characters is either a longer one or the
beginning of one.

**IntegerParser.** `CallInv` has that between two calls the buffer is all that was given,
and `Begun`: blanks, then digits and signs, or nothing after an empty first chunk. So the first other character in a later
chunk is where every numeral the text may begin with ends (`BegunNumeral`), and the
conversion of the buffer, which must take all of it, decides. `RefusesOnlyNonIntegers`
looks one digit ahead, since a chunk that ends after the sign is kept only if it is the
sign alone. `ValuesAreRead` assumes `BlanksSkipped`: no blank is given to an unsigned type's
parser before its number. That is not for the proof's sake: `integer_negation` is what
happens with the one blank that gets past `isWhitespace`. `Magnitude` is a recursive
function, and `MagnitudeAppend`, `MagnitudeTyped` are what is used of it.

**Strings.** A string's text is cut into units: a plain character, an escape, a
four-digit character. `ReadInv` has that the text is that of some units and of a part of
one that `state` and `hexDigits` know (`Partial`), and `buffer` the bytes of the whole
ones. The references go by places, and `PartByPart` gives what they say of a text
that is cut into parts: `CodePointsOfUnits` for the text, `DecodedOfUnits` for the bytes,
where `Utf8Decodes` inverts `Utf8`; so `ReadsText` compares them unit by unit.
`RefusesNonStrings` rests on `GoesPast`, that what may follow a unit is what may follow
the quote, and on `WrongEnds`. For `RoundTrip` `WriterInv` has that what was sent is the
text of the units of the characters put so far (`EncIsUnit`, `PutWritable`), and `TextInv`
that what was read begins what was sent. A text has one way to be cut
(`UnitsApart`: no unit begins another; `SameUnits`), so the reader's units are the
writer's, and the closing quote is not taken for one of them (`GoTogether`).

**BlockQueue.** `Invariance` is `[]IInv`, with `IInv` the conjunction of the types,
`Places` (what a thread's place implies), `OneOwner`, `InFlight` (the queue holds, last
first, what was added and not taken) and `NoSleeperForgotten`. From it follow
`BlocksHaveOneOwner`, `NoLostBlock`, `EndedIsLast` and `Refinement`. `OneOwner` needs
`Places`, or a consumer could give back a block it does not hold;
`NoSleeperForgotten` needs the mutex: a consumer between its test and its sleep
found the queue empty, and nothing is added meanwhile (`At("check") # {} => queue =
<<>>`); it is that which `End` does not have. `EndedIsLast` needs that the queue is
filled by nobody after the end. For `Refinement` each step of the queue is shown to
be a `Send`, a `Receive` or neither; `InFlight` gives that the block taken holds
the next chunk.

**Only model-checked.**

* Liveness (`CallReturns`, `EveryChunkTaken`, `RoundTripEnds`, `ProgramEnds`, `Ends`), which
  the prover does not reach.
* `FileDecides`. It compares with a list of files of at most `MaxPairs` pairs and leaves
  whitespace out of strings and between digits alike, which is right for the files of
  the run and not for all. What it says without these bounds is `ValuesOfTheFile`,
  `BlocksReadWhole` and `RefusesOnlyBadFiles`.
* The script. Its closure and sorts are over the pieces of one version.

## 5. What is not modelled

* doctest, in `doctest/`, is third-party code that was brought in with `git subtree`.
  It is far the largest part of the source files here, and no part of SpecificJSON.
* The writers of pointers (`write_Pointer.hpp`: `null` or the value) and of Bools, and
  the formats of Floats: `floating_point_format` uses `digits10`, so a Float that is
  written need not be read back as the same, and nothing says that it is.
* The text of exceptions. That one is thrown, and where, is in the parsers' models.
* Of the script: the C++ text and the substitutions in it, the YAML of exported
  pieces, `--list` and `--document`; checks of a piece's fields, which end the run.
* Files with NUL characters, which no JSON has, in `readparse`; the parsers of arrays
  have them.
* Use of a parser after an exception, an empty first chunk for an array or a string,
  and reuse without `Swap`: hazards without a property, as nothing in the repository
  does so.
* Destruction of a queue while threads wait in it (`BlockQueue.cpp:28` says that
  it must not happen).
* `inputgen`, which makes random input, build files and tests. Tests were read for
  what is expected; `test/samename.sh` and `test/export.sh` are what
  `ExportIsImportable` asks of every import.

## 6. Plan

The order followed what matters most: the parsers of a pool with their shared
state, then the queue, the scalars, arrays of arrays, the program that uses them,
and the script. What is left, in order of worth:

1. Theorems of `PieceOrder`: `Earlier` is irreflexive and total.
2. A field whose parser is a `ParseContainerArray` in `ObjectParser`, in place of
   its array.
3. The substitution of the pool's lists into `ParserPool` (`build` 328-391), where
   the indices must be those of the parsers' order.

## 7. Running

    tlc -workers 2 -config BlockQueue.cfg MCBlockQueue
    tlapm ObjectParserProofs.tla

`PROJECT.json` lists each run with its module, configuration and properties, for
each property a change of the code that breaks it, and the findings, hazards and
theorems.
