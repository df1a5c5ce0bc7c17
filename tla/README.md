# A TLA+ verification of pg_jiebaparser

pg_jiebaparser is a PostgreSQL full-text parser for Chinese. It wraps a variant
of cppjieba whose dictionary lives in shared memory, so that all backends share
one copy. This directory holds TLA+ modules translated from the source, TLC
configurations that model-check them on small instances, and proofs checked by
TLAPS. `PROJECT.json` lists the components, the runs, the lines each definition
stands for, the disagreements found, the hazards and the theorems.

    tlc -workers 2 -config MCJiebaShare_queue.cfg MCJiebaShare
    tlapm JiebaShareProofs.tla

Contents: [1 inventory](#1-inventory) - [2 modules](#2-modules) -
[3 runs](#3-runs) - [4 disagreements](#4-disagreements-with-the-documentation) -
[5 fairness](#5-fairness) - [6 proofs](#6-proofs) -
[7 abstractions](#7-abstractions) - [8 not modelled](#8-not-modelled)

## 1 Inventory

| component | source | state | operations | module |
|---|---|---|---|---|
| construction of the shared dictionary | `jbparserImpl.cpp` 45-237, 318-341, `config.h` | the named mutex, the named segment; per backend `gJiaba`, `gSegment`, `gsVsValue`, the local `gLock` | `init_jieba_share`, `file_md5`, `_loadFromShm`, `_saveToShm`, `parse_init`, `parse_uninit` | JiebaShare |
| extension entry points | `jbparser.c` | `gInited` | `_PG_init`, `init`, `jiebaparser_reset`, lazy init in `jbprs_start`, `jbprs_start_q`, `jbprs_lextype` | JiebaShare, ParserSession |
| parser sessions | `jbparser.c` 92-143, `jbparserImpl.cpp` 241-401 | `ParserState`, the vector of words | `init_parse_state`, `get_word`, `end_parse`, `load_lextype` | ParserSession |
| tags | `jiaba/PosTagger.hpp` | none | `LookupTag`, `SpecialRule` | ParserSession |
| runes and UTF-8 | `jiaba/Unicode.hpp` | none | decoding, words from ranges, `WordRange` | Utf8, Tiling |
| dictionary files and weights | `jiaba/DictTrie.hpp` | units, weights, one-rune user words | `LoadDict`, `LoadUserDict`, `CalculateWeight`, `SetStaticWordWeights` | DictTrie; JiebaShare (who reads when, what is shared) |
| word index | `jiaba/Trie.hpp` | nodes, maps | `CreateTrie`, `InsertNode`, `Find` | Trie |
| dictionary cut | `jiaba/MPSegment.hpp` | dags, cursor | `CalcDP`, `CutByDag` | MPSegment |
| cut by probability | `jiaba/HMMSegment.hpp` | iterators, Viterbi tables | `Cut`, `Viterbi`, `InternalCut`, the ASCII rules | HMMSegment |
| probability tables | `jiaba/HMMModel.hpp` | tables | `LoadModel`, `LoadEmitProb`, `GetEmitProb` | HMMModel |
| cut of a sentence | `jiaba/PreFilter.hpp`, `SegmentBase.hpp`, `MixSegment.hpp`, `QuerySegment.hpp` | separators, cursor, indices, results | `ResetSeparators`, `Next`, the two `Cut`s | SentenceCut |
| full cut | `jiaba/FullSegment.hpp` | none | `Cut` | FullSegment |
| key words | `jiaba/KeywordExtractor.hpp`, `TextRankExtractor.hpp` | offsets, word graph | `Extract` up to the ranks | KeyWords |
| the facade | `jiaba/Jieba.hpp` | its members | construction, `isOK`, forwards | JiebaShare, ParserSession |
| SQL objects, build, data | `jiebaparser.sql`, `CMakeLists.txt`, `dict/`, `VS/` | - | - | not modelled |

**How the parts interact.** A query calls `jbprs_start` in its backend. If the
backend has no parser yet (`gInited`), `init()` builds one: `init_jieba_share`
hashes the two dictionary files into a version string, takes the mutex
`SHM_LOCK_NAME`, maps the segment `SHM_NAME` and looks for a dictionary of that
version. If there is none it removes the segment's name, creates a new segment,
reads the files (`DictTrie`), copies the units over (`_saveToShm`), writes the
version string, shrinks the segment to size and maps it again. In both cases the
backend then builds a private trie (`Trie`) whose units are pointers into the
mapping. `jiebaparser_reset` drops the parser, removes both names and does the
same anew. The text is then decoded to runes, split at separators (`PreFilter`),
cut with the dictionary (`MPSegment`), what remains of single runes is cut by
the hidden Markov model (`HMMSegment`), in query mode the short words inside
long ones are added (`QuerySegment`). The words are kept in a vector of their
own; `jbprs_getlexeme` tags and hands out one per call, and `jbprs_end` deletes
them. Between two of these calls PostgreSQL runs the dictionary templates, which
may run SQL: other sessions of the same backend, and `jiebaparser_reset`.
`FullSegment` is built with every parser but never called; the key words can be
had from a `Jieba` but nothing does.

**Which behaviours are hard.**
Backends share nothing but two kernel objects with *names*, and a name can be
removed while others use the object behind it. Every one of these happens in the
code: the waiter that gives up after six seconds removes the mutex of an owner
that may be alive, and may have got it a moment ago, for the six seconds are those of
the whole wait; a reset removes both names before it owns anything; the
exception handler removes both names after it has released the mutex;
`shrink_to_fit` works on whatever has the name at that moment. The mutex is not
robust: one whose owner died is never released. Files are hashed at one time and
read at another. A failure in the middle leaves by one of two returns or by an
exception. In the cuts, the hard part is index arithmetic: three nested loops
that hand half-open and closed ranges to each other, a loop variable that is set
back, ties and infinities of weights. In a session, it is what changes between
two calls: the parser may be another one or gone, and an error forgets the
`ParserState` but not the vector. In the trie, a pointer into a vector is kept
while the vector grows.

**What makes each component correct.**
*Construction*: a parser is built over a complete dictionary that is no older
than the files its backend hashed; no mapping disappears under a parser; the
mutex is released on every way out; every `init()` ends; `gInited` agrees with
`gJiaba`; backends with the same files share one copy.
*Cuts*: no rune is lost or doubled, whatever dictionary and model say; words of
the dictionary cut are dictionary words; the cut is the best one as the code
weighs it; the Viterbi path is a most probable one; separators stay alone; the
loops end.
*Sessions*: a session uses its own words only, delivers them in order, each once,
with types PostgreSQL knows of; no byte of a text is lost; memory is lost by
errors only.
*Dictionary*: what is found is what is in the files, and of a word in several
lines the last counts; weights order words as their frequencies do.

## 2 Modules

`JiebaShare` is the construction. `lockName` and `shmName` are the *objects* the
names stand for (or `None`), `gLock[b]` and `gSegment[b]` the objects backend `b`
has open; `Locks` and `Segments` forget objects nobody refers to. `pc[b]` is the
place in `init_jieba_share`, named for what comes next; `Critical` are the
places at which the scoped lock is held.

| in the code | in the model |
|---|---|
| `_PG_init`, `jbprs_start*`, `jbprs_lextype` with `!gInited`; `jiebaparser_reset` | `Start`; `Reset`, `ResetRemoveLock`, `ResetRemoveShm` |
| `file_md5` of each file, version check | `HashFile`, `CheckVersion` |
| mutex: open, wait 6 s, take away, wait without limit | `OpenLock`, `AcquireTimed`, `TimeOut`, `StealRemoveLock`, `StealReopenLock`, `AcquireBlocking` |
| `_chkShMem`, rebuild | `MapSegment`, `Verify`, `RemoveStale`, `CreateOnly` |
| `DictTrie::LoadDict`, `LoadUserDict` | `LoadDict`, `LoadUserDict` |
| `_saveToShm` | `SaveConstruct`, `SaveUnits`, `SaveVersion`, `Shrink`, `ReopenShm` |
| `CreateTrie`, `isOK` | `BuildTrie` |
| the exits | `Finish`; `NotOK`, `GiveUp`; `Unwind`, `CatchRemoveLock`, `CatchRemoveShm` |
| PostgreSQL and the administrator | `Disconnect`, `Kill`, `Restart`, `ReplaceFile`, `RemoveFile` |

Seven constants switch circumstances the code does not control:
`SlowBuild` (one owner alone may hold the mutex for six seconds), `LongQueue`
(several owners, one after the other, may do so together), `Shrinks` (more than 1/16
of the segment is free, so it is shrunk), `ShmFull`, `FilesVanish`, `Reconnect`, and `Asserts`, the builds considered (with `assert()`, with `NDEBUG`, or
both). The deadline of `scoped_lock` is one point in time for the whole wait
(`jbparserImpl.cpp` 198), whoever owns the mutex until then. Time itself is not
modelled; what matters of it is: `overtaken` are the backends that have waited through
the end of one owner's time and still wait. With `LongQueue` they may time out
on whoever has the mutex next, however recently it got it (`TimeOut`); a backend that has
not seen anybody's end waits six seconds only if one owner takes as long (`SlowBuild`) or
is dead. Both switches off is the assumption that no wait for living owners reaches
six seconds in all. A theorem that needs one of them off says so in its `ASSUME`;
section 6 lists which.

`ParserSession` is what PostgreSQL calls: `Start`, `GetLexeme`, `End`, `LexType`,
`Reset`. `pst[s]` is a `ParserState`, `heap` the vectors of words that are
allocated, by address. Actions are whole calls, as one backend is one thread; they
interleave between the calls. `init()` is one step (`Load`): how it gets there is
the business of `JiebaShare`. `Error` is an error in the caller: the memory
context of the `ParserState` goes, the vector stays. A text is cut to any tiling of its runes
(`Cuts`), which is what `SentenceCut` shows. Texts are bytes: `Utf8` decodes them as
`DecodeRunesInString` does, and has the standard's encoding to compare with: `Encode`
divides by 64, 4096 and 262144 where the standard shifts by 6, 12 and 18 bits.

`DictTrie` reads the main dictionary line by line (`LoadDict`), turns frequencies
to weights (`CalculateWeight`, `SetStaticWordWeights`), reads the user dictionary
(`LoadUserDict`) and builds the trie (`MakeTrie`, `Insert`). `Trie` has the two
vectors, `InsertNode` rune by rune (`InsertKey`, `EndInsert`) with the pointer
`ptNode` into a buffer that is exchanged when the vector outgrows it, and the two
`Find`s. `Lexicon` is what this promises: words are taken one by one, and each is
found at its last place; `KeepsLexicon` says that `Trie` implements it under
`lex <- Held`, the words its nodes and maps hold. `FullSegment` adds the full cut
and what it and the `Find`s must return.

`Tiling` is the vocabulary of the cuts: `WordRange`, and what it means that a
sequence of ranges cuts a stretch without gap or overlap, with `Concat` (of
sequences) and `Selected` (the elements at given places). `WordCutter` is the
abstract specification of a cut: word after word, from where the last one ended,
and no return before the end.

`MPSegment` has an action per iteration of `CalcDP` (backwards over the dags)
and of `CutByDag` (`CutWord`, `CutRune`). The dictionary is a function from words
to integer weights; `Nexts` and `UnitWeight` are what `Trie::Find` collects
(`FindAgrees` of `FullSegment`). `CutsWords` says that it implements `WordCutter`.

`HMMSegment` has an action per iteration of `Cut` (`SkipRune`, `AsciiWord`,
`CallInternalCut`, `ReturnInternalCut`), of Viterbi (`ViterbiColumn`,
`ReadBack`, `ViterbiEnd`) and of `InternalCut`. `columns` are the tables `weight`
and `path`, `status` grows from its end as the states are read back. It implements
`WordCutter`, too (`CutsWords`). `HMMModel` says which model a file gives, whole or
damaged.

`SentenceCut` composes them: `NextRange` is `PreFilter::Next`, `KeepWord`,
`CutSequence` and `EndMix` the loop of `MixSegment::Cut`, `QueryWord` that of
`QuerySegment::Cut`. Of the two cuts it uses only the promise of `WordCutter`
(`MPCuts` and `HMMCuts`: any tiling), with dictionary words for every word of
several runes in the case of `MPSegment` (`WordsTile` there). `KeyWords` extends it
with what the two extractors make of its result: offsets, words passed over, the
edges of the word graph.

The operators marked `Faulty` are wrong variants of the definition that follows,
each a slip one could make in the code; they are used by no specification, and
each property is violated when one of them takes the right one's place.

`MC*.tla` give the constants values for TLC, `*Proofs.tla` hold the theorems.

## 3 Runs

| run | instance | what it shows |
|---|---|---|
| queue | 3 backends, files as they are, sessions come and go, shrinking; no owner takes six seconds, but waiters behind several may time out | two backends may be inside at once, and yet the variables stay in their domains (`TypeOK`), there is one builder (`BuilderAlone`), one copy is shared (`SharedOnce`), and parsers are complete (`ReadyComplete`); deadlock is checked |
| overlap | 2 backends, slow owners, one reset, one kill, one replaced file, no shrinking | though two constructions overlap, parsers are complete (`ReadyComplete`) and fresh (`ParserFresh`), version strings tell the truth (`TaggedComplete`), published segments are not written (`PublishedImmutable`), no backend crashes (`NoSelfDeath`) |
| shrinking | 2 backends of two postmasters, slow owners, one reset, shrinking, full segments | backends do crash here, yet the mappings under parsers stay (`NoDangling`), and no exit, the exception of a full segment included, leaves the mutex locked (`LockDiscipline`) |
| failures | 2 backends of one postmaster, missing files, builds with and without `assert()`, one reset, waiters that time out behind dead owners or several live ones, fairness | every `init()` ends (`InitTerminates`), `gInited` tells the truth (`FlagMatchesParser`) |
| overtaken | 3 backends, one file replaced, no reset, no slow owner | disagreement, see below |
| singles | 2 backends | disagreement, see below |
| mp_cut | all texts of up to 4 runes over 2 letters, all dictionaries of up to 3 of 7 words with weights -infinity, -5, 1, words of up to 4 runes with `MaxWordLen` 3 | the cut implements `WordCutter` (`CutsWords`), takes dictionary words and single runes (`WordsTile`), is the best one as the code weighs (`Optimal`) |
| mp_unknown | the same with weights -5, -2 | disagreement, see below |
| hmm_cut | all texts of up to 4 runes of 7 kinds (letter, digit, point, other ASCII, two known runes, an unknown one), models from whole, truncated and damaged files and none | the cut implements `WordCutter`, tiles (`WordsTile`), the ASCII rules hold (`AsciiRules`), the path is a most probable one (`MostProbable`) |
| sentence_cut | all sentences of up to 4 runes, two of 5 and one of 8, 5 lexicons, every subset of one-rune user words, every choice of the two cuts, both modes | the result tiles (`MixTiles`), query mode only adds (`QueryCovers`), separators stay alone (`SeparatorsAlone`), words found are kept (`FoundWordsStay`), key words are where their offsets say (`OffsetsRight`), the window of the word graph is not narrowed by words passed over (`WindowRight`), the cut ends |
| sessions | 2 sessions, 3 vectors, texts with runes of 1 to 4 bytes and a truncated one, 2 dictionaries (a known tag, one that is not in the table, none), one reset, one error, files replaced or missing at any time | sessions keep to their own words (`OwnWords`) and deliver them (`InOrder`) with declared types (`TypesDeclared`); decoding is right (`DecodedRight`) and loses nothing (`BytesKept`); only errors lose memory (`LeaksBounded`) |
| dictionary | main and user dictionaries of up to 2 of 6 kinds of lines each, and two of 3 lines; texts of up to 4 runes over 2 letters, words of 4 runes with `MaxWordLen` 3 | `InsertNode`'s pointer is never stale (`PointerFresh`); the trie implements `Lexicon` (`KeepsLexicon`); weights are sound (`WeightsSound`); the `Find`s and the full cut return what is in the files (`FindAgrees`, `FullCovers`) |

**Bounds.** `MaxVersion`, `MaxResets`, `MaxKills` bound the file versions, the
resets and the kills; each is small since one replaced file already separates
hashing from loading, one reset removes names under another backend, and one
kill leaves a locked mutex. There is one identity more than backends for mutexes
and segments, enough for one open object per backend and a named one, so
creation never blocks. Two backends suffice for every overlap of two
constructions; three in `queue` and `overtaken` are one that is done, one
that has the mutex and one that has waited for both. Four runes reach every case of
the cuts: a word before, in and after a stretch, three-rune words inside four, a word longer than the trie's
limit. `MaxErrors` bounds the sessions that end in an error; two sessions and one
more vector are every way to share or to lose one. Two lines per file, of all
kinds, give every order of a word's lines within and across the files; the trie's
vector outgrows its reserve with the one line of four runes.

`CHECK_DEADLOCK FALSE` is set where the system really stops: the cuts end, and
without new sessions (`failures`, `shrinking`) nothing is left to do once every
backend has its parser and the resets are used up; a dictionary is complete, or
its builder has aborted; the violation runs end at their counterexample. In
`queue`, `overlap` and `sessions` deadlock is checked: nobody waits on everybody.

## 4 Disagreements with the documentation

| run | shows |
|---|---|
| overtaken | The deadline of `scoped_lock` (line 198) is for the whole wait: behind two owners that take four seconds each, a waiter removes the mutex of the second though neither was slow. With a file replaced meanwhile both rebuild; `shrink_to_fit` and `open_only` (lines 139, 140) go by name and meet the segment the other is filling, and a parser is built over it. No reset, no kill and no slow process is needed. The README says the synchronisation of loading and rebuilding processes is fully taken care of. |
| singles | A backend that attaches to an existing segment has no one-rune user words, for only `InserUserDictNode` collects them: the same text is cut differently by different backends. |
| mp_unknown | A rune that is no word weighs 0.0, the logarithm of 1; the branch that adds `GetMinWeight()` is never taken. `Optimal` shows that the cut is the best one for *these* weights; the maximum probability cut it is documented to be, it is not. |

What else the models make visible, without a sentence of the documentation that
says otherwise, or within the behaviours of the passing runs:

* A waiter removes the mutex's name after 6 s though the owner lives and is still
  building (`jbparserImpl.cpp` 199-205), or has only just begun to. Two backends are then
  inside. `overlap` shows what survives of it with one slow owner: complete and fresh
  parsers as long as nothing is shrunk; `queue` what survives behind several quick ones:
  one builder and one complete copy until a file changes, also with shrinking.
* Two resets at the same time lead to the same incomplete parsers: each removes the
  mutex by name, both are inside, and `shrink_to_fit` (line 139) cuts what the other is
  filling. `NoDangling` (`shrinking`) holds in spite of it.
* With a dictionary file missing a backend aborts or dereferences null where an
  error message with a hint is prepared (`failures` contains these deaths).
* A tag that is not in the table has type `'x'`, the character, 120: that is the
  type of `ns`; the type of `x` is 136. `TypesDeclared` holds by this accident.
* `SpecialRule` stops after as many ASCII runes as half of the word is long: a
  single letter or digit is `x`, not `eng` or `m`.
* A reset that fails ends all open sessions of its backend as if their texts were
  over (`cutOff` in `InOrder`).
* An error between start and end leaves the words allocated (`LeaksBounded`).
* A text with one bad byte has no words at all (`BytesKept`).
* A damaged or truncated model file is loaded without an error.
* `min_weight_` stays at `MAX_DOUBLE` when weights ascend (`Extremes`); nothing
  that is executed uses it.

## 5 Fairness

`JiebaShare!Fairness` is weak fairness of each backend's `Step` (a process that
can run is scheduled) and of each cluster's `Restart` (the postmaster restarts
its backends after a crash). No fairness is assumed of sessions, resets, kills or
the administrator. `Restart` is needed: the second wait for the mutex has no
limit, and a backend in it whose owner dies waits until the postmaster ends it.
With two postmasters on one machine, whose mutex has the same name, that wait
would not end; `failures` has one postmaster for this reason. `SentenceCut` is a
sequential program: weak fairness of `Next` says that it goes on. No other module
states fairness: of sessions nothing need ever happen.

## 6 Proofs

All theorems are about every value of the constants, under the named assumptions of
the modules only: any number of backends, clusters, kernel objects, sessions,
vectors, files and lines, every set of texts, dictionaries and models of the right
types. What a theorem needs beyond that stands in its `ASSUME`. All are safety
properties.

**Construction** (`JiebaShareProofs`). The invariants build on each other:

| invariant | what it adds | theorems | holds if |
|---|---|---|---|
| `IInv` | `TypeOK` and `Sound(b)`: what backend `b` may rely on at its `pc`: which segment it has mapped, that a segment with a dictionary keeps it while mapped, that there is no parser between dropping the old one and building the new one | `TypeCorrect`, `ParsersKeepTheirSegment` (`NoDangling`), `FlagTellsTruth` (`FlagMatchesParser`) | always |
| `LockInv` | a backend inside owns the mutex it has open; one that waits has a mutex open | `MutexHeldInside` (`LockDiscipline`) | always |
| `FilesInv` | what a backend hashed is no newer than what it has loaded, and that no newer than the files | | `~FilesVanish` |
| `BuildInv` | a segment has one builder at most, what it holds follows from the builder's `pc`, and it does not change any more once it has a version string | `ParsersAreComplete` (`ReadyComplete`), `PublishedStays` (`PublishedImmutable`) | `~Shrinks` |
| `FreshInv` | a version string is no newer than the units next to it, a backend's hash no newer than its parser, and the segment being filled holds what its builder loaded; nobody has faulted | `VersionStringIsTrue` (`TaggedComplete`), `ParsersAreFresh` (`ParserFresh`), `OnlyKillsKill` (`NoSelfDeath`) | `~Shrinks`, `~FilesVanish` |
| `CalmInv` | every open mutex is the one with the name; what a backend inside knows of the named segment at each `pc` (`AtPlace`), and that what it loads is no older than any published segment | `NamedSegmentIsNewest` (`NamedIsNewest`), `ShrinkingIsHarmless` (`ReadyComplete`, `NoSelfDeath`) | `Undisturbed`, `~LongQueue` |
| `FirstInv` | until a file changes: `CalmInv` and nobody is overtaken, or else there is a dictionary (`Settled`) and everybody is content with it (`Served`) | `OneBuilder` (`BuilderAlone`), `OneCopyShared` (`SharedOnce`), `FirstDictionaryIsWhole` (`ReadyComplete`, `NoSelfDeath`) | `Undisturbed` |

`Undisturbed` is `~SlowBuild /\ ~ShmFull /\ ~FilesVanish /\ MaxResets = 0 /\
MaxKills = 0`, with any number of backends, file versions and sessions: the
circumstances of `queue`. `~LongQueue` says that nobody's wait for living owners reaches
six seconds in all; nothing in the code sees to it. The hypotheses are needed: a reset
next to another does to `ReadyComplete` what `overtaken` shows, a file that is missing
kills its builder, and each waiter that gives up puts a second mutex next to the first.
`overtaken` is `ShrinkingIsHarmless` without `~LongQueue`, and its trace needs a file that
changes, as `FirstDictionaryIsWhole` says it must. `NamedIsNewest` is proved and has no
run of its own. The argument of `FirstInv` is that to be overtaken a waiter must have seen somebody release the mutex
(`FirstWaiters`); with nobody reset, killed or faulting, that somebody has left a
dictionary under the name, of the same files; so whoever gets in by force finds it, is
content with it, and writes nothing (`ServedStep`).
The heart of all these proofs is a frame argument: a step of one backend may exchange
the object behind a name but not a mapping of another, and never turns a dictionary
into nothing. There is one lemma per kind of step; that a removed name does not
disturb the owner is the point of `LockRemoved`, that a new mutex is nobody's the
point of `LockOpened`.

**Dictionary cut** (`MPSegmentProofs`). `CutTypeCorrect` and `DictionaryCutTiles`
(`WordsTile`) rest on `PickedFound`: what `CalcDP` picks at a position is one of the
units found there, so ties, infinities and weights do not matter.
`DictionaryCutIsBest` (`Optimal`) is about the weights. `BestInv` adds `BestPicked`
(of the positions done, the weight kept there is that of the pick and what follows
it, and no other pick gives more) and `WeightKept` (words cut plus the best rest are
the best of the whole); that no allowed cut outweighs the picks is an induction over
the positions from the end (`NoneBetter`). Its hypothesis `SumsFit(maxWeight)` says
that sums over a text stay above `MIN_DOUBLE`, and that a weight beyond `maxWeight`
is an infinity that brings every sum below it. Logarithms of shares are above -100,
`MIN_DOUBLE` is -3.14e100: the code's doubles satisfy it, and so does `mp_cut`.

**Cut by probability** (`HMMSegmentProofs`). `ProbabilityTypeCorrect`,
`ProbabilityCutTiles` (`WordsTile`) and `AsciiByRule` (`AsciiRules`) follow the last
state through Viterbi (`ViterbiInv`: it is E or S when it is read back; the path -1
of the first rune is never taken for a state) into InternalCut (`InternalInv`: after
a state that ends a word nothing is open), which is why nothing is left over when the
loop ends. `Collected` (what is between the iterators is not ASCII) carries the ASCII
rules. `ViterbiIsBest` (`MostProbable`) adds `TraceInv`: each column holds for each
state the weight of a best path to it, of which `path` is the last step, and the
states read back are the end of such a path. Its hypothesis `Logarithms` says that the
numbers of a model are not positive: otherwise a sum that started below `MIN_DOUBLE`
could rise above it, which the code's comparison would miss. The models of the run
satisfy it.

`DictionaryCutImplements` and `ProbabilityCutImplements`: each step of either cut is a
`CutWord` or `Return` of `WordCutter` or a stutter (`CutsWords`). For `MPSegment` the
front is the index `i`; for `HMMSegment` it is where the words end, inside InternalCut
another variable than outside, and the theorem rests on `InternalInv`.

**Sentence cut** (`SentenceCutProofs`), of whatever the two cuts make of a stretch.
`SentenceTypeCorrect`, `SentenceTiles` (`MixTiles`), `SeparatorsStayAlone`
(`SeparatorsAlone`) and `FoundWordsAreKept` (`FoundWordsStay`) have one inductive
invariant: the words of a range tile it (`RangeTiled`), what MixSegment has pushed tiles the
text up to where it is (`MixTiled`), separators are alone, words found are there.
`QueryLosesNothing` (`QueryCovers`) adds `Covered`: at every step of QuerySegment's
loop the words inside no other tile what it has passed.

**Sessions** (`ParserSessionProofs`). `SessionsOwnTheirWords` (`OwnWords`) needs
`FlagTrue` (`gInited` exactly if there is a parser), without which `init_parse_state`
could leave `wordVct` as it was, and that every `ParserState` has its three members.
`SInv` adds what each session has delivered of its words (`Delivered`), and gives
`SessionTypeCorrect` (`TypeOK`), `WordsComeInOrder` (`InOrder`) and `TypesAreDeclared`
(`TypesDeclared`); `LeakInv` counts, for `OnlyErrorsLeak` (`LeaksBounded`). Two
theorems are about bytes. `NoByteIsLost` (`BytesKept`): the runes of a text lie end to
end (`DecodeRunesTile`), so do the bytes of a cut's words (`WordsKeepBytes`).
`DecodingIsRight` (`DecodedRight`): decoding the bytes of a code point gives the code
point back, in each of the four lengths (`EncodeRight`), and so rune by rune for a
text of any length (`DecodeEncoded`).

**Key words** (`KeyWordsProofs`). Both theorems stand on `SentenceTiles`.
`OffsetsAreRight` (`OffsetsRight`): the bytes of the sentence's beginnings give those of
each stretch of it (`BytesAlong`), so the sizes of words that tile it add up to where
the next one begins (`OffsetAt`), and to the sentence at the end. `WindowIsRight`
(`WindowRight`): `Selected` puts a word that is kept at its rank, the number of those
kept so far (`RankRight`); the places between two that are passed over are as many as
the ranks fall behind (`RankOrder`), which is what `skip` adds to the window
(`WindowByRank`); so the pairs of places joined and the pairs near each other in what
remains correspond one to one (`JoinedNear`). `KeyWordAssumption`: a rune has a width.

**Dictionary** (`DictTrieProofs`), of any files: lines of any number of columns, words
that do not decode, words that come again, frequencies of any size.

| invariant | what it adds | theorem |
|---|---|---|
| `IInv` | `Linked`: nodes lead to maps that are there and maps to nodes that are there, so the pointer InsertNode takes next is within the vector it was taken from | `PointerStaysFresh` (`PointerFresh`) |
| `WeightInv` | stage by stage what the units are: the lines of the main dictionary first, with their frequencies (`Loaded`), then with weights that are not positive (`Weighed`), then between the extremes and around the mean (`Measured`); user words come behind them | `WeightsAreSound` (`WeightsSound`) |
| `TreeInv` | there is a `path` from each node to the runes that lead to it (`Tree`): no two nodes have the same, a node's children come after it, no two nodes share a map; and `ptNode` is where the runes of the current word inserted so far lead (`AtKey`) | `TrieKeepsLexicon` (`KeepsLexicon`) |
| `LastInv` | of the words taken each is there once, at its last place | `LastLineCounts` (`LastWins` of `Lexicon`) |
| both | `Find` walks along a path (`AlongRight`), and finds a value exactly at the words of the files (`FoundKnown`, `FindDagsRight`) | `TrieAgrees` (`FindAgrees`) |
| `CutInv` | what the full cut's loop has pushed at each position: the words from the positions passed, the runes no word reaches, and in `maxIdx` how far the words reach | `FullCutCovers` (`FullCovers`) |

`TreeInv` says "there is a path" instead of computing one: the nodes are numbered in the
order they are made, and a new node extends the function by one value (`NewPath`,
`GrowTree`). TLC cannot enumerate such functions; what it checks of `TreeInv` is what
follows from it, `KeepsLexicon` and `FindAgrees`. `Held`, the state of `Lexicon` that the
nodes and maps stand for, is a recursion from a node to its children: `BeneathRight`
proves, from the last node to the first, that it holds the rest of every path with a
value, and `HeldRight` that at the root these are the `Entries` of the paths. From there
every step of the dictionary is one of `Lexicon` or leaves it alone (`StepLexicon`):
InsertKey adds nodes without a value, EndInsert sets the value of one. The constants
need only have their types (`DictAssumption`, `TextAssumption`): the comparisons with
`MAX_DOUBLE` and `MIN_DOUBLE` may come out either way.

**Recursion.** The library's induction theorems cannot be used here, as no prover
instantiates their operator. `TilingProofs` has induction as a fact about sets instead
(`Induction`: a set of naturals with 0 and all successors is `Nat`, from the pigeonhole
principle), and from it that a recursion over `0..N` has one solution (`CourseExists`,
`CourseSame`). What a recursive function of the modules computes is then a lemma like
`TilingsDef`, `ConcatDef` or `DecodeRunesDef`. This module also holds what the others
share about tilings and parts of sequences, and the common case of a recursion in which
each value follows from the one before it (`StepsExist`). `Selected` picks elements by
their places, so that what it keeps, and in which order, can be reasoned about
(`SelectedMembers`, `SelectedAll`, `SelectedOrder`).

**Model-checked only**: liveness (`InitTerminates`, `Terminates`), outside the reach of
the prover, as is `ENABLED`. Every invariant and every other action or temporal property
of the passing runs is proved.

## 7 Abstractions

* A dictionary file is the number of its version, 0 if it cannot be read, and its
  MD5 is that number; files are replaced atomically and never by an older one.
  That `file_md5` skips line ends and gives up above 50 MB is not modelled.
* Boost.Interprocess is external: `named_recursive_mutex` is owned by a process
  and not robust; creating and mapping a segment is atomic; `find_no_lock` sees
  an object as soon as it is constructed; `create_only` throws if the name exists;
  `shrink_to_fit` cuts a segment with free space and does nothing harmful to one
  that is already cut, which is why a segment with a version string, cut by its
  builder or full, is left as it is.
* Time is not modelled, nor for how long a wait goes on: see `overtaken` in section 2.
* The mutex inside the segment, which `check_sanity`, `construct` and the allocator take,
  is not modelled: every use of it is a step of its own and comes to an end. In the code
  a builder that is killed while it allocates leaves it locked, and the next backend
  that maps the segment blocks in `check_sanity` (`jbparserImpl.cpp` 182) with the named
  mutex held. `InitTerminates` is about the named mutex only.
* A reader or builder that meets a segment cut under it, or one that is being
  filled, may fault, fail or get through: all outcomes are in the model.
* The HMM model file is read by every backend for itself and has no version.
* `_PG_fini` never runs, PostgreSQL does not unload libraries.
* Logarithms of probabilities are integers, -infinity an integer below
  `MIN_DOUBLE`; `Plus` keeps multiples of `MIN_DOUBLE`, as doubles of that size do.
* In `DictTrie` the logarithm of a share is the difference of frequency and sum: it
  has the sign and the order of the logarithm, which is all that is used. That weights
  are narrowed to `float` (`Trie.hpp` 33) is left out: above about 2^24 frequencies that
  differ by little may have the same weight in the code.
* The key words are those of sentences that decode; another has no words, and `Extract`
  returns.
* A new address for a vector is any free one; `palloc` leaves any address in
  `wordVct`, so a use of it before it is set would be a use of another's.
* The backend's calls are atomic in `ParserSession`: it is one thread, and no SQL
  runs inside of them.
* A line of the model file is what splitting it gives; a dictionary line is its
  columns. A tag is a name of up to four characters, as `strncpy` leaves it.
* Letters and digits are classes of runes; the cuts work on sequences of runes, and
  `ParserSession` with `Utf8` relates those to bytes.

## 8 Not modelled

* The ranks of key words (`WordGraph::rank`, idf tables, the sort of the first
  `topN`): iterated divisions of doubles without control or state worth checking.
  Nothing of the extension reaches them.
* What `Jieba` forwards to its segments and nobody calls (`CutAll` apart from what
  `FullSegment` is, `CutHMM`, `CutSmall`, `Tag`), and the overloads that repackage
  words as strings.
* Line ends and sizes in `file_md5`; the text of errors and the log; the paths.
* SQL objects, the build, the dictionaries' contents, the Visual Studio project.
