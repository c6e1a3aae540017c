# libafc in TLA+

This directory models libafc, a C++ library of strings, string buffers, number and date
conversion, logging, streams and URL building, in TLA+. TLC checks the models on small instances;
TLAPS proves the theorems in the `_proofs` modules for every value of the constants. Paths below are
those of `src/src/afc`.

## 1. The system

libafc is a set of components that callers combine; there is no main loop. What can go wrong is in
the order of calls on one object, in storage that passes from one object to another, in calls that
fail half-way, in arithmetic at the limits of a type, and, for the logger, in threads.

| Component | State | Operations | Uses | What makes it correct |
|---|---|---|---|---|
| `FastStringBuffer.hpp` | block, end, capacity | construct, move, swap, reserve, append, resize, clear, c_str, detach, borrow/returnTail | malloc, realloc, `math_utils.h` | storage holds capacity and terminator; one owner per block; a call that throws changes nothing; sizes do not wrap |
| `SimpleString.hpp` | block, size | construct, copy, move, assign, attach, detach, clear, c_str | malloc; takes the block of a FastStringBuffer | one owner per block; copies are independent; terminator within the block |
| `logger.hpp`, `logger.cpp` | the stream's lock; place in the format | logToFile, logToFileFmt and the six names for them | stdio, printers for every type | records are not interleaved; the result tells what was written; the lock is released |
| `stream.h`, `stream.cpp` | handle | open, read, skip, reset, write, close | stdio, zlib | plain and compressed input behave alike; no handle is lost; a write that returns was complete |
| `Tokeniser.hpp` | position, hasNext | next, skip, hasNext | text of the caller | each token once, in order, then refusal |
| `UrlBuilder.hpp` | buffer, query state | construct, query, params, move | FastStringBuffer, `number.h` | the estimate of the size is enough; what was put in can be read back |
| `number.h` | none | printNumber, parseNumber (two), hex, sizes of buffers | | printed numbers fit and are read back; wrong texts are rejected |
| `dateutil.hpp`, `.cpp` | milliseconds, offset, `tm` | parse (four), format, conversions, logging view | `number.h`, logger, mktime, strptime | the instant survives every conversion |
| `json.hpp` | place in the text, ErrorHandler | parseObject, parseArray, parseString, ... | callbacks of the caller | accepts what the grammar allows; stops after an error |
| `crc.hpp`, `crc.cpp` | running CRC | crc64Reversed and its fast variants | `cpu/primitive.h` | all variants compute the same CRC |
| `base64.hpp` | none | encodeBase64, base64Size | | decodes to the input; the size is exact |
| `convertCharset.cpp` | iconv context | four conversions | iconv, FastStringBuffer | every valid text is converted; buffers are large enough |
| `Repository.h` | set of owned values | get, remove, clear | | one object per value; freed once |
| `utils.h` | value and flag; a mutex | Optional, UnlockGuard, equal | | the flag tells whether there is a value; the mutex is locked again |
| `Stopwatch.h` | start, sum, two flags | start, stop, resume, reset, print | clock | the time shown is the time that ran |
| `algo/` | state of the search | ExhaustiveSearch, RandomStartHillClimbing | a SearchSpace of the caller | ends; returns a state of the space; the best of all, or of those in which an attempt ended |
| `math_utils.h`, `compile_time_math.h`, `fast_division.h` | none | divide, mean, log2Ceil, ceilPow2, bit tests | | division by a constant is exact; a mean does not overflow |
| `Exception`, `StackTrace`, `backtrace`, `assertion`, `_demangle` | a message; a static frame buffer | | platform | not modelled: text made by the platform |
| `md5.hpp`, `StringRef.hpp`, `string_util.hpp`, `path_util`, `builtin.hpp`, `platform.h`, `ensure_ascii.hpp`, `libintl.c` | none | | | not modelled: views, macros, one call of a library |

How they interact: a FastStringBuffer gives its block to a SimpleString (`SimpleString::move`), and
both to the caller (`detach`); a UrlBuilder writes into a FastStringBuffer without checks, after a
reservation; a Tokeniser keeps iterators into somebody else's text; dates use the fixed-width
printers of `number.h`; the logger calls printers of the caller while it holds the stream's lock.

The behaviours that are hard to test are listed in `PROJECT.json` under `hazards`, each at its line,
with the properties that cover it or the reason why none does.

## 2. Modules

| Module | Models |
|---|---|
| `Heap` | malloc, realloc and free as the classes use them (external). A request may fail |
| `FastStringBuffer` | the class; every member function is an action |
| `TextBuilder` | what a FastStringBuffer promises: a text that only the operations change |
| `SimpleString` | the class, on the same heap |
| `TextStorage` | strings and buffers together: `SimpleString::move(FastStringBuffer &)` |
| `TextValues` | what a string promises: an independent value |
| `Logger` | threads in logToFile and logToFileFmt, a step for each write to the stream |
| `InputStream` | the interface's contract: position, reads, skips |
| `Streams` | the four stream classes |
| `Texts` | reference reading of delimited and percent-encoded text |
| `TokenList`, `Tokeniser` | the promise, and the class |
| `UrlBuilder` | the class in both query formats |
| `UrlTokens` | builders, and a Tokeniser that reads one of them or another text |
| `Number` | printNumber and parseNumber, a step for each iteration |
| `DateUtil` | a date, time or text passed through the conversions |
| `Json` | the parsers of `json.hpp`, a stack of calls, with the callbacks of a caller |
| `JsonGrammar`, `JsonReading` | reference grammar of the texts the parsers read, and what the parsers promise in terms of it |
| `Crc` | tables and functions of `crc.hpp` and `crc.cpp`, fed piece by piece |
| `Base64` | encodeBase64, a step for each round of its loop |
| `Charset` | the four conversions, iconv, and the byte orders of `cpu/primitive.h` |
| `Arithmetic` | divide, log2Ceil, mean |
| `Search` | both search algorithms, a step for each round of their loops |
| `Repository` | get, remove, clear, and the references of callers |
| `Optional` | objects with and without a value, whose construction or assignment may throw |
| `UnlockGuard` | threads that give up a mutex for a scope |
| `Stopwatch` | the class, on a clock that wraps |
| `Library` | the eleven components from `DateUtil` on, one of them in each behaviour |
| `MC...` | values of the constants for TLC |
| `Counting` | lemmas about least elements, best values, numbers of elements, division and recursive functions |
| `..._proofs` | theorems about the modules they extend; `Library_proofs` those about `Repository`, `Optional`, `UnlockGuard`, `Stopwatch`, `Search`, `Json`, `DateUtil`, `Base64` and `Charset`, `TextStorage_proofs` also those about `FastStringBuffer`, `Arithmetic_proofs` also those about `Crc` |

State variables have the names of the fields they stand for (`m_buf`, `m_hasNext`, `m_queryState`).
A variable that the program does not have is named so where it is declared: `given` (what callers
put in), `meant` (the instant they mean), `value` in `Number` (the number the digits denote), `ended`
in `Search` (the states in which attempts ended). They record what happened and do not guard an action
of the code, except where a constant says that callers leave something out: with `DigitsAfterMin`
FALSE, digits behind those of the least value.

Definitions called `X_Y` are `X` with one plausible mistake: a guard dropped, a field forgotten, an
order swapped. No specification uses them. Each shows that a property notices a mistake: with the
body of `X` replaced by `X_Y`, TLC reports that property violated. `PROJECT.json` lists the pairs
under `mutants` and the source lines of every definition under `map`.

### How code becomes actions

* FastStringBuffer: `buf[b]` holds the fields; pointers into the block are indices of `mem[x]`.
  `reserve` grows the storage (`Regrow`) or fails and changes nothing. `append` writes the characters and moves
  the end. `borrowTail`, `writeTail` and `returnTail` are separate actions, since the caller acts in
  between. `size_t` arithmetic is taken modulo the word (`Wrap`).
* SimpleString: `assign` requests the new block, copies, frees the old one, in one action that may
  fail at the request. Text taken from another string may be its own.
* Logger: `flockfile` waits; then each text, each printer and the newline is a step in which the
  stream may fail. `escape`, `placeholder`, `plainChar` and `endOfFormat` are the branches of the
  loop of `logInternalFmt`. A throwing printer unwinds through `~FileLock`. `drain` is stdio moving
  the buffer to the file.
* Streams: a read or skip takes any count the library allows. `skip` of a GZip stream is one step
  per chunk. Every call of stdio and zlib may fail; what `ftell` returns then is taken for a place
  (`Told`), as the code takes it. zlib gets sizes as `unsigned int` (`Passed`).
* Tokeniser and UrlBuilder: a member function is an action. Part templates are sequences of parts.
  `maxEncodedSize` adds up the parts as the templates recurse.
* Number: `T` is the number of its values, and signed or not; `Wrap` is conversion to `T`; `Expression` is integral promotion: narrow
  types are computed in `int`. Overflow of a wide signed type, which the language leaves open, wraps,
  as it does with g++.
* DateUtil: calendar fields are the count of seconds that a clock showing them has reached, so that
  gmtime_r is the identity and mktime is a choice among at most two instants. mktime ignores the offset
  of the fields (`tm_gmtoff`). Callers fill a DateTime with local fields that one instant has.
* Json: the parsers are templates that call each other and the caller's functors. A frame of `stack`
  is a call that has not returned, with the place where it goes on; a step is what happens between
  two calls. The caller knows the structure of the text (`schema`): `body`, `digits` and `Parser` are
  its functors, written as the tests write theirs. The error handler is invalid after the first error.
* Crc: an octet or a CRC is the set of its one bits, so that `^` is symmetric difference; polynomial,
  tables and widths are the real ones. A call of any function takes the next piece of a stream, from
  an address that decides which octets are aligned.
* Base64: a character is its index in the table.
* Charset: octets of UTF-16LE are computed. Encodings of callers are functions from the characters
  they have to numbers of bytes; iconv converts between two such encodings, or refuses. It writes no
  other character for one that the target has not (transliteration). Every allocation may fail
  (`runsOut`).
* Arithmetic: unsigned has `UnsignedBits` bits and unsigned long long twice as many, as the code
  assumes; the template's constants are operators of the divisor.
* Search: `searchRow` is the inner loop over the first dimension. `rand()` gives any value.
* Repository: `get` takes three steps (copy, insert, or the insertion throws), since `insert` may
  throw between them. Removing a value ends the references to it.
* Optional: `lives` says whether there is an object in the storage; `m_hasValue` is what the code
  believes. A constructor or an assignment of the value may throw.
* Stopwatch: `ran` counts what the caller meant to measure.

## 3. Runs

| Run | Instance | Shows |
|---|---|---|
| `FastStringBuffer_two` | two buffers, two blocks, 4-bit size_t, two-byte characters, accurate mode | texts, ownership and storage through every interleaving of calls on two buffers; refinement of `TextBuilder` |
| `FastStringBuffer_limit` | one buffer, 3-bit size_t, one-byte characters, pow2 mode | growth to the largest capacity and beyond, where every size is near the wrap |
| `Logger` | two threads, one call each, from every kind of call | records, results, lock; every call returns |
| `TextStorage` | one buffer, two strings, two blocks | ownership through moves, attach and detach; strings are values |
| `Streams` | each class, a file of 5 bytes, chunks of 2, counts below, at and above both and above what zlib's type has | contract, handles, complete writes, end of skips |
| `UrlTokens` | two web-form builders and a plain one, texts of up to 20 characters with every special character and two pairs in one call; a tokeniser that reads one of these, or any text of up to four letters and delimiters | reservations, reading back, tokens |
| `UrlTokens_skip` | the same with shorter texts, the last token is skipped | **fails**: an extra token |
| `Number` | int of 10 bits; nine kinds of type and base, signed and unsigned ones of 8 bits among them; texts of up to 6 characters | every number is printed and read back; no text is misread |
| `Number_underflow` | int of 10 bits, base 10, digits after the least value | **fails**: a text below the range is accepted |
| `Library` | one of eleven components in each behaviour. JSON: twelve structures, each text also cut at every place, with one character more, less or changed, four space policies, both kinds of iterators. Dates: a zone of 4 seconds with daylight saving time from -3 to 3, instants -9..9, eight offsets. CRC: streams of 19 and 9 octets from three alignments, on three platforms, in every division into pieces and functions. Base64: up to 5 octets of five kinds. Charset: texts of up to two of six characters, also malformed, three encodings, two byte orders. Arithmetic: 6 bits, divisors 1..16. Search: every function into the values on three spaces. Repository: two values, three places. Optional: three objects. UnlockGuard: three threads. Stopwatch: a clock modulo 3, up to time 7 | reading follows the grammar, conversions lose nothing, fast variants equal their definitions, owners and flags are right, calls return |
| `DateUtil_summer` | the same, all ways to read a summer instant | **fails**: an hour is lost |
| `DateUtil_west` | the same, negative offsets are formatted | **fails**: an assertion |

Why the bounds are enough. A 3- or 4-bit word is the smallest in which the storage sizes, the limit
and the wrap are different numbers; growth reaches the limit in two or three steps. Two blocks
suffice to hold an old and a new one, or one for each of two objects; when both are used, a further
request fails, which the code must survive anyway. Two threads make every interleaving of two
records. Ten bits of int keep the safe limit, the multiplication limit and the range apart for every
base used, and six characters reach past the longest number. Minutes of two seconds and hours of two
minutes keep the three units different from each other's multiples. Seventeen seconds around a summer
of seven contain its start, its end, the missing and the repeated hour. Samples of JSON nest arrays
and objects in each other and reach every state of every parser, and texts with one change reach
every error. A stream of 19 octets has two chunks of eight with octets before and behind at each
alignment; the three platforms make the fast functions available, unavailable and too narrow. Five
octets are one triplet with each remainder. Twenty characters hold the longest list of arguments
("%3d=&u=%3f%25") behind the longest base, and a further parameter; of builders and other texts at most
`MaxInUse`, two, are in use at a time, since no action is about three. Texts of up to four characters are the
empty one, delimiters alone, in front, at the end and side by side, and up to five tokens. The six characters have one to four octets in UTF-8, one
and two units in UTF-16, and stand on both sides of the surrogates (`convertCharset.cpp:239-252`).
Divisors up to a quarter of the range give both forms of `divide` (with a factor above and below
2^N). Two and three dimensions make the odometer carry over one digit and over two. A repository
with one place more than it has values can lose a copy. In three threads one holds the mutex while
two wait. A clock that wraps at 3 wraps twice before 7.

`CHECK_DEADLOCK FALSE` is set in every run: callers may stop at any state, a number is printed and
parsed once, and builders reach the bound on their texts.

### What the failing runs show

* `UrlTokens_skip`: `Tokeniser::skip()` never clears `m_hasNext`.
* `Number_underflow`: behind the digits of the least value `result` is negative, so that the test
  against `safeLimit` lets every further digit pass: "-21474836480" is read as 0.
* `DateUtil_summer`: the overload of parseISODateTime for ranges leaves `tm_isdst` at -1. With
  `TZ=CET-1CEST,M3.5.0,M10.5.0`, "2013-10-16T20:02:26+0300" is read as 16:02:26 UTC instead of
  17:02:26. A DateTime parsed from a summer text is an hour off in `timestamp()` for the opposite
  reason: its `tm_isdst` is 0.
* `DateUtil_west`: hours and minutes of a negative offset stay negative when they are printed.

### Preconditions of the passing runs

Each is a constant, FALSE in the passing runs, that stands for something callers do not do there.

* `ReuseDetached`: using a buffer after `detach()`. It keeps its capacity, so `AppendAssertion`, which
  is proved without it, fails.
* `MoveOntoOwner`: move-assigning onto a string that owns a block, which leaks the block.
* `SkipsLast`, `DigitsAfterMin`, `ReadsSummer`, `FormatsWest`: TRUE in the failing runs.
* `ReadsForeign`: making a Timestamp of a DateTime that was parsed from a text with another offset than
  the system's. `timestamp()` passes the fields to mktime, which ignores their offset
  (`dateutil.hpp:140-148`), so the result is another instant. `KeepsInstant` then fails.
* `OtherAsDigits`: parsing, into a signed type of eight bits, a text with characters that are no digits.
  The 255 that stands for these is -1 in such a type and passes `digit >= base`
  (`number.h:308-309`, `318-319`). `ParsesWhatIsWritten` then fails.
* `CutsSizes`: passing a size that zlib's `unsigned int` does not have to `read` or `write` of the gzip
  classes. zlib gets less than was asked for (`stream.cpp:185`, `247`), and `write` returns nevertheless:
  `WritesAll` and `ImplementsInputStream` then fail.
* `TellFails`: an `ftell` that fails in `FileInputStream::skip`, which does not check it
  (`stream.cpp:121`, `125`). `ImplementsInputStream` then fails.
* `CrcDefects`: calling `crc64ReversedUpdate` on a platform that is not little-endian or aligns too
  little, where an inner `crc` hides the one that is returned (`crc.cpp:753`), and the functions that
  keep the CRC in a `size_t` where this has 32 bits. `CrcIsRemainder` then fails.
* `HighUnits`: `utf16leToString` of U+E000 to U+FFFF, which are characters but are taken for malformed
  surrogates (`convertCharset.cpp:251`). `ConvertsFaithfully` then fails.
* `DivideDefects`, `MeanDefects`: `divide` with divisors whose product wraps or whose shift is -1, such
  as 1 (`fast_division.h:97-102`), and `mean` of signed numbers whose difference overflows
  (`math_utils.h:72`). `AnswersAreExact` then fails.
* `SearchDefects`: exhaustive search of one dimension, where the loop that ends the search is never
  entered (`search_algorithm_impl.icpp:108`), and a climb in a space with a lower bound other than
  zero, which `randomAssignment` subtracts instead of adding. `EveryCallReturns` and `FindsBest` fail.
* `MovesEmpty`: move-assigning from an `Optional` without a value, which reads the value that is not
  there (`utils.h:90`). `FlagTellsValue` then fails.
* `Irregular`: stopping a stopwatch that is stopped, which adds the time since the last start again,
  and resuming one that runs, which drops it. `ShowsTimeRun` then fails.

To see one of these, set the constant to TRUE in the cfg of the module's run.

Two formulas of the modules are checked by no run because they are false of the code:
`AssertionsHold` (`SimpleString`; copy assignment from an empty string fails an assertion) and
`EnsureNotClosed` (`Streams`; after a failed `close()` the freed handle is used again). Listed as
INVARIANT in `TextStorage.cfg` and `Streams.cfg` they yield the counterexamples. Further limits:
strings of two-byte characters lack a byte for the terminator (`CharSize = 2` in `TextStorage.cfg`);
for narrow signed types the base of the run does not divide the range (in base 16 an `int16_t`
accepts "-8001"); negative offsets are read but not formatted in the `Library` run; the size that
`gzread` gets from a skip is the length of the chunk buffer.

### Fairness

Nothing is assumed of callers, of a printer's result, or of stdio and zlib: a call need not be made,
and any call may fail. What is assumed is that the platform's scheduler does not stop a thread inside
a function of the library for ever.

* `Logger`: weak fairness of each step of a thread that is inside a call (`\A t : WF_vars(Step(t))`).
  Weak fairness of taking the lock is enough, since a thread makes at most `MaxCalls` calls: others
  hold the lock finitely often. With endless calls of other threads it would not be, as stdio
  promises no order among those that wait.
* `Streams`: weak fairness of `skipChunk`. A skip of a GZip stream is a loop, which its caller's
  thread carries on; `SkipsEnd` says that the loop ends.

* `Library`: weak fairness of `inCall`, the steps of the parsers, of encodeBase64, of the charset
  conversions and of the searches. Each is a loop or a nest of calls in one thread. For threads that
  share a mutex, weak fairness of each step of a thread that has entered its critical section
  (`guardStep(u)`). Each thread passes the section once, so that others hold the mutex finitely often
  and weak fairness of taking it is enough. That a thread enters at all is not assumed.

The other modules have no liveness property.

## 4. Proofs

`TextStorage_proofs`, buffers alone (any number of buffers and blocks, any word, any size of a
character): the invariant `IInv` is the type invariant, what every object's fields say about its block, and that
blocks have one owner. None of the parts is inductive alone: that a write stays within a block needs
the capacity to describe the block, and that a free leaves other buffers alone needs ownership. From
it follow `StorageFits`, `BlocksOwnedOnce`, `StorageSizes`, `NeverOverflows`, `AppendAssertion` and the
action properties `FailureLeavesAll` and `StorageStays`: the storage of a live buffer is replaced only
by `Regrow`, whose capacity is a larger one, or leaves it for another object. Two hypotheses appear
in the theorems that need them:
`~ReuseDetached`, and `AllocatorBound`: the allocator grants nothing above PTRDIFF_MAX, or characters
have one byte. Without the latter the comment "Never overflows" (`FastStringBuffer.hpp:354`) is false:
for two-byte characters and an allocator that grants more than half the address space, doubling the
capacity wraps. The lemmas about single steps are stated for a set `G` of blocks that belong to others
than buffers (`HeapInv(G)`; `IInv` is `HeapInv(given)`), so that they serve where strings have blocks.
`ImplementsTextBuilderAlways` is the refinement: each action maps to the operation of `TextBuilder` of
the same name or to a stutter. It rests on `IInv`: a block that is written or freed is the one of its
buffer only, so the texts of the others stay, and a block that grew begins with the old characters.

`TextStorage_proofs`, buffers and strings (any number of either): `HeapInv` with the blocks of strings and of
the caller as those of others, and `StrInv`, what the fields of a string say about its block and that
two strings never have the same one. A step of a buffer keeps `StrInv` because it touches only free
blocks, those of buffers and those of the caller. A step of a string either replaces the block of one
string by a fresh one, by one of the caller or by none (`Rebind`), or passes blocks on without
touching the heap (`PassedOn`). Hence `StorageOwnedOnce`, under the hypotheses above and
`~MoveOntoOwner`, and `TerminatorFits` for characters of one byte: with larger ones it is false. With
the same invariant each step maps to one of `TextValues` or to a stutter (`StringsAreValuesAlways`),
and a step that throws changes nothing (`StringsSurviveFailureAlways`).

`Logger_proofs` (any number of threads and calls, any formats, any failures): a thread that has written
part of a record holds the lock, alone, since it began (`LInv`); so records are contiguous. What a call
answers rests on a second invariant, `RInv`, which says of every frame what its call has written and
knows (`Good`). While it parses (`Parsed`), the holes it has passed are as many as the arguments it has
printed, the character before it is no escape, only plain characters stand between `start` and `i`, and
what it wrote is the expansion of the format up to `start`. The expansion is defined without the
parser, by counting: the n-th character kept, the n-th hole. So each branch of the loop comes down to
how a count grows by a step (`EscapeNext`, and `Counting`). At the end of the format the counts are
complete, and `arg` tells whether the format fits (`AtEnd`). Other threads cannot disturb this, since
what they write has other ids (`GoodKeeps`); its own writes continue the record, because the owner's
tokens are the last (`OwnWrite`). Hence `TrueMeansWritten` and `FalseHasACause`.

`Streams_proofs` (any size of file): a handle that is open is known to its object (`SInv`), and each
step of either input class is a step of `InputStream` or leaves its state as it is, under `~TellFails`
and `~CutsSizes`. `WritesAll` is an action property of the two output classes, for every count and any
limits of zlib's types, under `~CutsSizes`: what `gzwrite` accepts is then what was passed to it.

`Number_proofs` (any even number of values of `T` and of `int`, from 256 on, any base from 2 to 36, any text):

* `ParsesWhatIsWritten`: between two digits `result` holds the number the digits denote, in the
  arithmetic of `T` (`HoldsNumber`). The core is `FitsExactly`: the test against `safeLimit`,
  `mulLimit` and `addLimit` lets a digit pass exactly when the longer number is in the range of `T`.
  The hard case is the magnitude of the least value, which has wrapped: twice the least value is 0 in a
  wide type, so the test still works; in a type narrower than `int` nothing wraps and the test lets
  every digit pass. Hence the hypothesis `ChecksFit`: no signed type narrower than `int` has a range
  that the base divides. No power of two is divided by 10; base 16 and `int16_t` violate it. The second
  hypothesis is `~DigitsAfterMin`, the defect that `Number_underflow` shows; the third, `~OtherAsDigits`,
  is about signed types of 256 values only, where -1 stands for characters that are no digits.
* `RoundTrip`, under `ChecksFit` only. While a number is printed, there is a sequence of what was left
  of it after each digit; read backwards it is the sequence of numbers that the digits of the text
  denote up to each place, and parsing follows it (`RoundTripInv`). All but the last are less than the
  number printed, so none is the least value before the text ends.
* `PrintedFits`, under no hypothesis: a digit is in the buffer or still counted in `val`
  (`BufferInv`), and the number of digits does not decrease with the number (`CountDigitsGrows`).
  `countDigits` is a recursive function; that it exists (`RecursionExists` in `Counting`), is unique and
  grows is proved by taking the least counterexample.

`UrlTokens_proofs` (any bases, parts and texts over any set of characters, any number of builders). The
reference reading of `Texts` finds the delimiters of a text by counting; what it says of a text that
grows at its end is proved first (`OrderedAppend`, `StartsAppend`, `MeaningAppend`), then what it says of a whole part,
by a least counterexample over the part's length (`Induction` in `Counting`).

* `EncodedFits`: three characters for each one of an ordinary part, one for each of a raw part, and one
  separator for each part but the first of a query string, which the recursive functions of
  `maxEncodedSize` add up (`Estimate`).
* `HoldsWhatWasGiven` is not inductive: that a part can be added behind a text needs more than that the
  text reads well. `ShapeInv` says what the text of a live object is: the base, "?", and a query in which
  no "?" occurs and whose tokens read as the parameters given; or the base alone; or nothing, in the
  state that stands for it. A part of any kind contains no separator of the builder's (`PartPlain`), so
  its tokens follow those that are there (`Opens`, `ParamsTokens`, `ShapeExtends`). The hypothesis is
  `Readable`: no base contains "?", no raw part "?" and none of `params()` "&" or "=". The code leaves
  this to callers; `MCUrlTokens` asserts it of the values of the run.
* `ImplementsTokenList` and `TokensAreParameters`, under `~SkipsLast`: the iterator stands behind a
  delimiter, and the tokens of the text behind it are the last ones of those of the whole text
  (`ReaderInv`, `ReadsInv`), which was the query of a builder that nobody has touched since
  (`OthersUntouched`). The last is stated for the delimiter "&".
* `RefusesAtTheEnd`, under `~SkipsLast`: the failing run shows the one way to violate it.

`Arithmetic_proofs` (any width of unsigned, any divisors up to a quarter of its range): the laws of
powers of two, which `TwoTo` defines as a recursive function, and what `leadZeroCount` computes (`LeadZeros`); hence
d <= 2^l. Whatever number of halvings `UIntDivReductor` makes, the factor m satisfies
2^(N + sh_post) <= m * d <= 2^(N + sh_post) + 2^sh_post (`FactorFacts`): without halving because m_high is
rounded down by less than d, which 2^l makes up for; with halvings because after the last one m is still
above the rounded m_low. Such a factor is close enough to 2^(N + sh_post) / d for every dividend below 2^N
(`ProductFacts`). The second form of `divide`, for a factor above 2^N, computes the same without the
bit that does not fit. The hypotheses are those of the run: `~DivideDefects`, `~MeanDefects`.

`Arithmetic_proofs`, CRC-64 (streams of any length and content, pieces of any size at any address, any
platform, under `~CrcDefects`): `CrcIsRemainder`, that the CRC is the remainder of the stream's
polynomial. The model is written with recursive functions for the loops, so that a least counterexample
over the number of rounds can be taken (`IterationExists`, `Agree` and `Induction` in `Counting`).

* One step of `tableVal` is linear over `Xor` (`StepLinear`); hence eight of them are
  (`OctetLinear`). Nothing but a shift happens while the lowest bits are zeros, so eight steps are a
  shift and the table's value for the lowest octet (`ByOctetSplits`).
* Table k holds k octets of zeros after an octet (`TablesAre`). A lookup in k tables is thus what k
  octets of zeros make of the lowest k octets (`LookupIs`).
* Octets taken one by one are that many octets of zeros after all of them have been added to
  the CRC (`RunTogether`). This is what the functions for four and eight octets compute, with
  `Together` or octet by octet (`Takes`).
* The division of the definition, a bit at a time with the generator of the comment in `crc.hpp`,
  takes the same steps (`RemainderIs`); that the constant is this generator with its bits reversed is
  `polynomeIs`.
* The invariant is `CrcInv`: the running CRC is the one octet by octet over what was fed so far. Every
  function carries it on (`UpdateYields` and the lemmas before it).

`Library_proofs`:

* `Repository` (any values): `RepositoryHolds` with the types. It speaks of the copy that is not
  inserted yet, without which a second copy of the same value would not be excluded.
* `Optional` (any number of objects): `FlagTellsValue` with the types, under `~MovesEmpty`.
* `UnlockGuard` (any number of threads): `AloneInside` with the places of the threads.
* `Stopwatch` (any range of the clock): the sum of the times that ended, and the start of the one that
  runs, are right modulo the range of the clock, under `~Irregular`.
* `Search` (any number of dimensions and bounds, any values, any `rand()`, under `~SearchDefects`). The
  exhaustive search has seen every state that comes before the present row in the order in which it
  counts, and keeps a best one of these; a carry passes over no state, and the one out of the last
  dimension means that all have been seen. The climb stays in the space, because a neighbour differs in
  one dimension and within its bounds, puts back what it tried, and keeps the best of the states in which
  attempts ended (`ended`). Where one would go by induction over
  dimensions or places, the proof takes the least counterexample (`LeastOf` in `Counting`, from the
  well-foundedness of the natural numbers).
* `Json` (texts and structures of any size and depth): a call that has not returned is at its beginning
  or waits for another; the ones below the top of the stack wait, and after an error the top one
  waits, too (`JsonInv`). A call that waits asks `errorHandler.valid()` before anything else, so
  `StopsAtError` follows. Frames have no type that could be written down, as structures nest; the
  invariant needs only that each has a place where it goes on. Each parser moves the iterator forward
  and never past the end (`Moves`, one lemma for each), a separate fact about `Behind` and `Differs`,
  which search a text; with `JsonInv`, after which only the first error is reported, that gives
  `StaysInText` and `NeverGoesBack` (`PlaceInv`). `JsonAssumption` says that texts are sequences.
* `DateUtil` (any zone, any set of summer instants, any lengths of second, minute and hour in which
  `DigitsSuffice`: +hhmm can show every offset): the fields of a value are those of the instant at its
  offset, and what was lost on the way is less than a second and was lost once. That is the inductive
  strengthening of `KeepsInstant`: two truncations in a row lose no more than one, which a bound on the
  loss does not say. An offset of 100 hours has no two digits to show it. `~FormatsWest` and
  `~ReadsSummer` exclude the two defects that `DateUtil_west` and `DateUtil_summer` show, `~ReadsForeign`
  the one of `timestamp()`.
* `Base64` (octets of any number): while the loop runs, the groups of four characters written so far are
  those of the octets read so far, none of them is =, and the counter is what is left of the octets in
  groups of three (`Base64Inv`). `DecodesToSource` speaks of the end only. The two characters around an
  octet hold its bits (`TripletDecodes`); the tail is a group with zeros in place of the octets that are
  not there, and `Decode` stops before these because the first = does. `Base64Assumption` says what
  characters are: octets are 0..255 and = is no index of the table.
* `Charset` (texts of any length, any characters and encodings, both byte orders, under `~HighUnits`).
  The units of characters are a code in which no word begins another, and so are the bytes that an
  encoding has for its characters; whatever is joined from words of such a code can be taken apart in
  one way only (`Decodes`: of two texts that differ, take the first place where they do). Hence bytes
  stand for one text, which is the one that iconv reads (`TextIs`). Its buffers suffice because every
  character has a byte in the source (`SourceLength`). While utf16leToString runs, the units it has
  passed are those of whole characters that the encoding has, and the result holds their bytes
  (`CharsetInv`); `ConvertsFaithfully` speaks of the end only, which may also be a lack of memory. Where it throws for malformed units, no
  text goes on with these (`UnitsTogether`), unless a unit from U+E000 on is the next: that is the
  defect `~HighUnits` excludes. `CharsetAssumption`: characters are no surrogates, each has at least one
  byte, UTF-8 has all of them in at most six.

`StorageSizes`, `AppendAssertion`, `LockAlways`, `AloneInside`, `TwoDigitsFit`, `StaysInText` and
`NeverGoesBack` are proved and not listed in a passing run. Only model-checked: the liveness properties `CallsReturn`, `SkipsEnd` and
`EveryCallReturns` (fairness and ENABLED are out of the prover's reach); and `AcceptsGrammar` and
`ErrorsLocated` of `JsonReading`, whose grammar is recursive in the structure of a text: RECURSIVE
operators are declared in `JsonGrammar` only, which no module with a theorem reaches.

## 5. Not modelled

* `Exception`, `StackTrace`, `backtrace`, `assertion`, `_demangle`: the frames and names come from
  glibc and the compiler's ABI library, and the code is under `AFC_USE_STACK_TRACE`, with which this
  version does not compile. Without it an Exception is a message.
* `md5.hpp`: one call of OpenSSL. `StringRef.hpp`, `string_util.hpp`, `path_util`: views and expressions
  without state. `builtin.hpp`, `platform.h`, `ensure_ascii.hpp`, `libintl.c`: macros, assertions, a stub.
* Single expressions of `math_utils.h` and `compile_time_math.h` (sameSign, isEven, isPow2, bitCount).
* Formatting of texts other than numbers, dates and URLs; which character stands for a digit; years
  of other than four digits; offsets of 100 hours; the iterators of the debug build; alignment other
  than in `Crc`.

## 6. What could follow

1. `JsonGrammar` without RECURSIVE operators, over the positions of a text instead of its structure, so
   that `AcceptsGrammar` and `ErrorsLocated` can be proved.
2. Years of other than four digits in `DateUtil`.
