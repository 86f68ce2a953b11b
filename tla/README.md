# A TLA+ model of cpp-rag

cpp-rag is a command line program and a C++ library for retrieval-augmented
generation over local files: it cuts documents into chunks, embeds them with a
llama.cpp model, stores chunks and vectors in one memory-mapped file, searches
that file, and lets a second model answer from what it found.  This directory
holds TLA+ modules of its components, TLC configurations that model-check them,
and TLAPS proofs of their main invariants.  Paths below are relative to the
repository (`src/mmap_index.cpp`) or to this directory (`IndexStore.tla`).

    tlc -config IndexStoreAtomic.cfg MCIndexStore.tla     # check one run
    tlapm IndexStoreProofs.tla                            # check one proof module

`PROJECT.json` lists components, runs, mutants, findings, hazards and theorems,
and maps every definition to the lines it models.

## The system

| Component | Code | State | Operations | Module |
|---|---|---|---|---|
| Index store | `src/mmap_index.cpp` | two names, INDEX and INDEX.tmp; the files behind them; per handle a descriptor, a mapping, its size | `write`, constructor with `validate`, reads, `close`, moves | `AtomicIndex`, `IndexStore`, `IndexFile`, `IndexHandle` |
| Chunker | `src/chunker.cpp` | loop offset, chunks so far | `chunk_text`, `chunk_text_multi_scale` | `Chunker` |
| Vector search | `src/vector_search.cpp` | a bounded heap per scale, the results | `search` | `VectorSearch` |
| Backend guard | `src/llama_backend.hpp` | process-wide mutex and count, llama.cpp's global backend | guard constructor and destructor | `LlamaModels` |
| Generator | `src/llama_generator.cpp` | model, context and its memory of positions; per call sampler, batch, text | construction, `generate`, destruction | `LlamaModels`, `Generator` |
| Embedder | `src/llama_embedder.cpp` | model, context and its memory; per call one batch | construction, `embed`, `embed_all`, destruction | `LlamaModels`, `Embedder` |
| Prompt builder | `src/prompt_builder.cpp` | the string being assembled | `build_rag_prompt`, `build_chat_prompt` | `PromptBuilder` |
| `ask` | `src/main.cpp` | the models that are loaded, the chunks found and kept | `run_ask` | `Ask` |
| `index`, `query` | `src/main.cpp` | arguments, the items so far | `run_index`, `run_query` | `IndexQuery` |
| Retrieval evaluation | `eval/eval.cpp` | a cache directory that runs may share; counters | `main`, `run_command`, `parse_chunks` | `Evaluation` |
| `generate`, `parse` | `src/main.cpp` | none that outlives a call | `run_generate`, `parse` | not modelled |
| Document loader | `src/document_loader.cpp`, `src/pdf_loader_*` | none | `load_document_text` | not modelled: I/O |
| Scripts, tests, build | `demo.sh`, `eval/*.py`, `tests/`, `CMakeLists.txt` | none that matters | | not modelled |

How they interact.  Within a process everything is a plain call on one thread:
`index` loads and chunks each input, embeds the chunks, and calls
`MmapIndex::write` once with all of them; `query` and `ask` open the index,
embed the query, and call `search`, which reads the mapping; `ask` then builds
the prompt, measures it with the generator's tokenizer, and generates.  Two
things are shared beyond a call: the **index file**, by processes that know
nothing of each other and may be killed anywhere, and **llama.cpp's backend**,
by all embedders and generators of a process, from any thread.  Those two are
where interleaving is hard.  The rest is hard for other reasons: unsigned
arithmetic at its limits (chunker, prompt builder, context window), loops that
must make progress, a bounded heap that must lose nothing, state left over from
the last call, and exceptions half-way through.

What makes each component correct:

- *Index store*: INDEX never names a torn file; a reader gets the old index or
  the new one and keeps it; a damaged file is never accepted; nothing that is
  read leaves the mapping, whatever the file holds; what was written is read
  back; every descriptor and every mapping has one owner.
- *Chunker*: bounded chunks, cut between code points, covering the text; an
  overlap that keeps short passages whole; a loop that ends.
- *Vector search*: the heaps of the scales lose no result that belongs to the
  answer; quotas hold; ranks are exact.
- *Backend and models*: the backend is initialised exactly while someone needs
  it; no path through a constructor leaks.
- *Generator*: positions stay in the context window, the caller never sees a
  stop sequence, and little else is cut off.
- *Prompt builder*: what is written is what was budgeted; quoted text has no
  marker in it.
- *Embedder*: a text's embedding comes from that text alone; the batch is large
  enough and always freed.
- *index and query*: the index is replaced by all chunks of all inputs or not at
  all.
- *ask*: one model in memory at a time; the longest prefix of the context that
  fits; the command ends.
- *Evaluation*: a report counts every case once and passes over no failed
  command, even if another evaluation replaces the index or removes the cache;
  its numbers are those of the results' texts and of the answers where nothing
  else is printed that could match, and no better than those where a command was
  killed, a text looks like a header, or the index is another evaluation's.

## The modules

### AtomicIndex and IndexStore

`AtomicIndex` is the promise of the repository's README: one index is current,
a command replaces it whole or leaves it alone, a reader keeps what it opened.

`IndexStore` is the code.  Its writers go through `MmapIndex::write` one system
call per action (`Create`, `Write`, `Seal`, `CloseTmp`, `Rename`, `RemoveOld`,
`RenameAgain`, `Discard`), its readers through the constructor (`OpenIndex`,
`MapIndex`, `Validate`) and `CloseIndex`.  `dir` is the two names, `file` the
contents of all files.  A file has a header slot and payload slots; a slot is
what one `write` put there: the draft header, the sealed header, a piece of one
index's payload, or a hole.  Because payload slots carry the index they belong
to, a mixture of two commands' output can be told from a whole file.  Two
abstractions matter:

- FNV-1a is taken to be free of collisions, so `Accepts` compares the payload
  itself.  The structural checks of `validate` reject nothing the digest
  would let through among the files that can arise here; their byte arithmetic
  is the subject of `IndexFile`.
- The stream's buffer is written through at every `Write`.  A kill between
  two writes therefore leaves every prefix of the file.

Faults are a constant, so a run or a theorem says which ones it allows: a kill,
a failing write, rename or remove, and a loss of power that leaves an arbitrary
part of each file that was not written back (`Remains`), of INDEX and of
INDEX.tmp independently, since the code never calls `fsync`, while the rename
survives.

The refinement (`ImplementsAtomicIndex`) maps `current` to the index in the file
that INDEX names, `pending` to each writer's job, and `view` to the index in the
file a reader holds; the commit point is the rename.

### IndexFile and IndexHandle

`IndexFile` is the arithmetic of a file, in words that wrap: the layout that
`write` computes (`LayoutHeader`, `LayoutRecord`) and where the stream really is
when it emits each piece (`Emitted`), the checks of `validate` in their order,
and the bytes that `validate` and the accessors read.  The sizes of the
structures and of the word are constants.  A file is what the reader makes of
its bytes: a header, a record at each place where one is expected, and whether
the digest matches.  `write` copies an item's byte range and scale into its record
without a check, and an item without a scale gets the size of its text narrowed to
32 bits (`ScaleBytes`, `Narrow`), while `validate` refuses a backward range and a
scale of 0; `Describable` says which items pass.

`IndexHandle` is the life of `MmapIndex` objects in one process: the constructor
(`Open`, `MapFails`, `Map`, `Accept`, `Refuse`), default construction, move
construction and assignment, `close` and the destructor.  Descriptors are
numbers that the kernel gives out again, lowest first, and other code of the
process takes and closes them too: a number that is closed twice is then
somebody else's.  `munmap` with a wrong size unmaps nothing, so a forgotten size
shows as a leak.

### Chunker

The two nested loops of `chunk_text_multi_scale`; one `Cut` is one round of the
inner loop.  A byte is white space, a continuation byte, or any other byte: all
that the code looks at.  `choose_end`, `advance_to_codepoint` and the clamped
overlap are operators.  The set `chunks` stands for the vector, whose order is
(scale, begin).

### VectorSearch

One action per fate of an item: `Skip` (not finite), `Push`, `Replace`, `Drop`;
`Return` drains, sorts, ranks and cuts.  Scores are inputs.  The top of a
`std::priority_queue` among equal scores is unspecified, so `Tops` is a set and
`Replace` picks any of it.

### LlamaModels

Objects of two classes, each with a thread of its own, go through the guard's
constructor (lock, initialise, count), the body of their `Impl` constructor
with every failing path, their destructor, and the guard's destructor.  The
critical sections are two steps each, so that the mutex is what makes them
atomic and not the model.

### Generator

A sequence of calls of `generate` on one object.  Pieces of text are sequences
of characters, because stop sequences that several tokens make up are the point;
the sampled token is any of `Pieces`.  `said` is a history variable: all that
the model said in this call, to compare the response with.  `cells` is the
context's memory, which outlives the call.  `held` is what the call has allocated:
the sampler first, then the response is reserved, which may throw, and the batch;
only then does the `try` block begin that frees both.  The check of the prompt
against the context window is in words of `SizeMax` as the largest value (`SizeT`),
since its subtraction is unsigned.

### PromptBuilder

`fit_chunks` one chunk at a time (`FitChunk`, `ChunkTooLarge`), then the sizes
that are reserved, then the chunks one by one as they are written.  Texts are
sequences over `<`, `|`, `>` and one ordinary character; `std::size_t` has
`SizeMax` as its largest value, so that the subtraction in `fit_chunks` wraps
where the code's does and `add_size` throws where the code's does.  `SizeT`
declares that word, for `Ask` and `Generator` too; `Sums` adds up a list of
numbers, for `Evaluation` too.

### Embedder and IndexQuery

`Embedder` is `embed` and `embed_all`: all texts are tokenized and checked
first, one batch is allocated for the longest, and each text is written over the
front of that batch and decoded into the context's memory, which is cleared
before.  The pooled vector is a function of what the memory holds when it is
read; the model therefore lets those tokens stand for it.  Both the batch and
the memory keep what earlier texts left there, so that a forgotten clear or a
wrong `n_tokens` gives a text somebody else's embedding.

`IndexQuery` composes it with `run_index` and `run_query`: a command's flags,
loading, one call of `embed_all` per input, the items so far, and one write at
the end, with an exception possible at every call that may throw.
`MmapIndex::write` is one step there; `IndexStore` has its parts.

### Evaluation

`eval.cpp`'s `main` for several processes with one cache directory: build the
index, run `query` and perhaps `ask` for each case, split the printed output at
the lines that look like a result's header, count, report, and remove the cache.
The index in the directory is that of the evaluation that built it last, whose
`--scales` may differ (`cache.index`), so a case has results and an answer for
each.  A command fails (`Fail`), or it is killed (`KilledIndex`, `KilledQuery`,
`KilledAsk`): `run_command` takes `WEXITSTATUS` of any status, which is 0 for a
signal if the shell has replaced itself by the command, so a killed command passes
for one that succeeded with any beginning of its output (`CutsOf`).  `eval[e].cut`
is a history variable, that this has happened to a query or an ask.

Output is a sequence of lines, in which a line of a chunk's text may look like a
header.  stderr is merged into it.  If a case is `quiet`, its diagnostics have
neither "score=" nor the expected substring, and they land between lines; else a
diagnostic may be any line and may land inside of one (`Disturbed`), and whether
the output of `ask`, the context's ids included, has the substring is any
(`Matches`).  The code adds up reciprocal ranks as doubles; the model counts them
in units of 1/`Unit`, rounded down, and adds up the same way on both sides of its
properties.

### Ask

`run_ask` from its flags to its exit status; `Fail` is an exception at any call
that may throw.  The prompt with the first k chunks has `tokens[k]` tokens, any
table being possible: with a merging tokenizer a longer text may have fewer.

## The runs

| Run | Question | Bounds |
|---|---|---|
| `IndexStoreAtomic` | Is INDEX replaced atomically, with kills and full disks? | 1 writer, 2 readers, 2 indexes of 1 and 2 payload slots, 4 files |
| `IndexStorePower` | Can a damaged file be accepted, or a mapping change, with every fault? | 1 writer, 1 reader, 3 files |
| `IndexStoreTwoWriters` | Does atomicity survive two writers? *No* | 2 writers, no faults |
| `IndexHandle` | Does any file make a read leave the mapping? Is what was written read back? Who owns descriptors and mappings? | 5-bit words; 2-bit half words; headers and records with fields at, next to and beyond the sections' boundaries; lists of 1 or 2 items, some with backward ranges or texts whose size is narrowed to 0; 2 objects, 3 descriptors, 2 addresses |
| `Chunker` | Are chunks bounded, whole and complete, are passages of the overlap's length kept whole, does the loop end? | all texts up to 6 bytes, max_bytes and overlap 0..4, two lists of 2 scales |
| `VectorSearch` | Are the best items returned, with exact ranks? | all indexes of 1..4 items, 2 scales, 3 scores and a NaN, top_k 0..4, quota 0..2 |
| `LlamaModels` | Is the backend there when needed, and are models freed? | 1 embedder, 2 generators |
| `IndexQuery` | Are embeddings their texts' own, is the batch safe, is the index all or nothing? | 6 texts of 0..3 tokens, a batch of 2, documents of up to 2 chunks, up to 2 inputs, any of which may be unreadable |
| `Generator` | Are positions, stop sequences and allocations right, call after call? | context 6, batch 2, prompts and budgets below, at and above the context, 3-bit sizes, tokens of up to 2 characters, 2 stop sequences |
| `PromptBuilder` | Is the budget kept and are markers broken up? | texts up to 2 characters in lists of 2, one text of 4, lists of 3; 5-bit sizes |
| `Ask` | One model at a time, the longest context that fits, an end? | 3 chunks, prompts of 0..5 tokens, contexts 2 and 4, 3-bit sizes |
| `Evaluation` | Are the reported numbers right although two evaluations share a cache, and no better than they should be when commands are killed? | 2 evaluators (symmetric), 2 sets of scales, 2 cases, one of which may lack a key or be noisy, up to 2 results of a header and a line, three sets of options |

Why the bounds are enough to be of use.  The index runs have more files than
names and readers, so a writer can meet an old file that a reader still holds,
a leftover INDEX.tmp and a fresh one at the same time; two payload slots give a
torn payload, and two indexes of different lengths give a stale tail.  Six bytes
hold two code points of three bytes with a window that cuts either, and windows
on both sides of every width; overlaps of up to half a window leave passages on
both sides of every cut.  Four items in two scales fill a heap, replace in
it and drop from it, in both modes.  The generator's context of six lets a call
run to its last position after another call has failed.  The prompt sizes reach
the budget exactly, one below and one above it, and the limit of the word.  In
the words of `IndexHandle` the product of a count and a size wraps at 32, well
within the counts that a header can hold; its files have each field on both
sides of the boundary that `validate` compares it with.  Two objects are enough
to move between, three descriptors leave one for somebody else.  A text of three
tokens is too long for the batch, texts of one and two leave a tail in it.

Where TLC found no error in a small instance, the theorems below carry every
safety property to every instance.  Type invariants are proved rather than run
(those of `IndexQuery` and `Evaluation` are parts of their inductive
invariants).
Every property of a passing run is also checked to fail for a mutated definition
(`mutants` in `PROJECT.json`; the definitions with a comment "Mutant of"), so
that no property holds whatever the code does.

### Fairness

Liveness is checked twice.  `Chunker` assumes `WF_vars(Next)`: the chunker is a
sequential loop without I/O, and a thread that is scheduled takes its next step.
`Ask` assumes `WF_vars(Proceed)`: the command's thread goes on when it can;
failures are possible and never forced.  The other modules claim no liveness:
commands may be killed, a thread may keep its model or its handle for ever, and
a command that an evaluation runs may hang.

### Deadlock

TLC checks for deadlock in every run.  The sequential modules, and `IndexQuery`
and `Evaluation`, end in a state with an explicit stuttering action (`Stopped`,
`Left`); in `IndexHandle` and `LlamaModels` something can always happen.

## Where the code and what is said of it disagree

One disagreement has a run that shows it.  **Two writers tear the index**
(`IndexStoreTwoWriters`): the name INDEX.tmp is the same for both, and one
truncates what the other is about to install.  Readers are safe from wrong
answers (`validate` rejects the file) but not from refusal, and the previous
index is gone.  The README promises the previous index or the new one.

The others were met while modelling and appear as conditions of what is checked:

- *A failing rename loses the index.*  The fallback in `write` removes INDEX
  before it renames again; until that succeeds, and for ever if it does not, a
  reader finds nothing.  `IndexNeverVanishes` and the refinement are checked and
  proved without "renameError".
- *A narrow window loses text.*  With max_bytes below the width of a code point
  the cut goes through it and the rest is skipped, while the README says that
  chunks are never lost.  `NothingIsLost` and `CutsOnCodePoints` require that
  max_bytes can hold a code point (`CodePointsFit`).
- *Ties do not go to the lower index.*  The final sort breaks ties by index, but
  the heap has already dropped an item by score alone, and which one is up to
  the library.  `BestAreReturned` therefore compares scores only.
- *A budget below the header's size is no budget.*  The subtraction in
  `fit_chunks` wraps, and the comment above it says that it cannot.
  `BudgetIsKept` speaks of budgets that have room for the header; `ask` itself
  passes no budget.
- *The trim also cuts finished answers.*  `trim_partial_stop` is described as
  being for answers that stop on the token budget, and runs after all of them:
  an answer that the model ends with `<` loses that character.
  `OnlyMarkersAreDropped` allows it for every outcome.
- *An answer without evidence.*  `ask` refuses to answer when nothing is found,
  but trimming may drop every chunk afterwards.  `ContextIsKept` then says that
  not even the best chunk alone would have fitted.
- *An overlap of 0.*  The README and the usage text ask for
  `0 < overlap < bytes` in `--scales`; `parse_scales` accepts 0, and so do
  `ScalesValid` and the chunker.
- *An index that nobody can open.*  `write` installs what `validate` refuses: an
  item whose byte range is backward, or whose text's size is narrowed to 0.
  `WrittenIsReadBack` says that these are the only such items.
- *A sampler that is lost.*  The `try` block of `generate` begins after
  `response.reserve`, which may throw and then leaks the sampler.
  `OnlyReserveLeaks` says that nothing else does.
- *Text that looks like a header.*  The evaluation splits results at lines that
  begin with `score=`, and gives up on all of them if the first `score=` is
  inside a line.  `MetricsAreRight` has its exact numbers for texts without such
  lines (`IsPlain`); `NeverFlatters` holds for all.
- *A header that has the substring.*  `eval/README.md` says that the substring is
  looked for in the chunk's text; the code looks for it in the header too, where a
  source's name may have it.  Ranks are therefore counted by the texts (`Rank`), and
  both properties speak of headers that lack it (`IsBare`).
- *What is on stderr.*  `eval/README.md` says that the generated answer is matched;
  the code matches all that `ask` prints, the ids of the context and the line that
  it refuses to answer included, and splits and matches the diagnostics of `query`
  as well.  Both properties speak of quiet cases; of the others only the counts of
  cases are certain.
- *A killed command.*  See `KilledQuery` above: an evaluation that reports may have
  numbers of outputs that were cut off.  `MetricsAreRight` has its exact numbers for
  evaluations to which that did not happen; `NeverFlatters` holds for all.

## What is proved

| Module | Theorem | Assumes |
|---|---|---|
| `IndexStoreProofs` | `TypeCorrect` | |
| | `AcceptedIndexIsWhole`, `MappedIsFrozen` | one writer |
| | `PathIsNeverTorn`, `ReaderIsNeverRefused` | one writer, no loss of power |
| | `IndexStays`, `StoreIsAtomic` (refinement of `AtomicIndex`) | one writer, no loss of power, no failing rename |
| `ChunkerProofs` | `TypeCorrect`, `ChunksAreBounded`, `ChunksAreUtf8`, `TextIsKept`, `LoopAdvances`, `PassagesKept` | |
| `RetrievalProofs` (search) | `TypeCorrect`, `HeapsLead`, `BestReturned`, `ExactRanks` | |
| `RetrievalProofs` (evaluation) | `MetricsRight`, `ReportsNeverFlatter` | |
| `LlamaProofs` (models) | `ModelsTypeCorrect`, `BackendIsThere`, `BackendIsCounted`, `ModelsAreFreed` | |
| `LlamaProofs` (generator) | `TypeCorrect`, `RoomForTokens`, `ResponsesAreClean`, `LittleIsDropped`, `LeaksAreKnown` | |
| `AskProofs` (ask) | `TypeCorrect`, `OneModel`, `PromptFitsContext`, `LongestPrefix` | |
| `AskProofs` (prompt) | `PromptTypeCorrect`, `BudgetKept`, `Reserved`, `NothingDropped`, `NoMarkers`, `Readable` | |
| `IndexHandleProofs` | `TypeCorrect`, `EverythingOwned`, `ReadsInside`, `ReadBack` | |
| `IndexQueryProofs` | `OwnEmbeddings`, `SafeBatch`, `AllOrNothing` | |

Facts that several of them need are in `RecursionTheorems`, and no theorem of the
table is there.

All hold for every value of the constants that meets the module's `ASSUME`.  The
assumptions in the table are hypotheses of the theorems, and they are needed:
without one writer `PathNeverTorn` fails (`IndexStoreTwoWriters`), without
reliable renames `IndexNeverVanishes` does.  Of the constants' assumptions one is
more than a type: the lists that `ReadBack` speaks of have sizes that add up to
less than a word (`Fits` in `IndexHandle`), as those of a list that is in memory do.

The arguments:

- **Index store.**  The properties are about INDEX and readers, the steps about
  INDEX.tmp, so neither is inductive alone.  The first layer, `Private`, says
  that the file the writer has open is the one INDEX.tmp names and that neither
  INDEX nor a reader holds that file.  It survives every fault, since a name
  moves from INDEX.tmp to INDEX only when the writer has closed the file.  With
  it no step but a loss of power changes a file that a reader holds, which is
  `MappedFileIsFrozen`, and `validate`'s answer stays true, which is
  `AcceptedIsWhole`.  The second layer, `Stored`, adds how much of its index the
  writer's file holds at each program counter (`WriterStored`): a prefix while
  it writes, the whole of it from `Seal` on unless the stream has failed.  So
  the rename installs a whole file.  For the refinement each action is mapped to
  one abstract step or a stutter: the rename commits, `Discard` and a kill
  abort.
- **Chunker.**  The lemmas state what `advance_to_codepoint` and `choose_end`
  return for every text (a boundary; an end after the beginning, within
  max_bytes, on a boundary if the window holds a code point).  The invariant
  adds that all bytes before `begin` are covered, that what is cut ends at or
  after `begin`, and that `begin` is a boundary.  For `PassagesKept` it says of each
  code point before `begin` that its passages are whole already: a point before the
  next start either had its turn, or lies so far before the end of the chunk that the
  overlap does not reach it, and then the chunk has its passages.  That an end leaves
  more room than the overlap is what `Roomy` is for.
- **Vector search.**  While the scan runs, the invariant is `HeapsHoldLeaders`
  for the scanned prefix and every scale, plus the sizes of the heaps; the
  lemmas count a heap before and after a replacement.  At the end of the scan
  the number of items that come before an item (`Before`) is strictly monotone
  along `better_result`, so it numbers what was found without gaps: by the
  pigeonhole principle the cut keeps at most top_k, and if it drops anything,
  the items before the first one that is dropped are top_k of those that are
  kept.  An item that a heap dropped is then compared with its heap, which is
  either returned whole or has itself an item that was cut.  A rank is exact
  because every item of the scale with a higher score is in the heap.
- **Models.**  `Exclusive` says that at most the holder of the mutex is inside a
  critical section, `Counted` relates the count to the guards that are live at
  each step of it, `Holders` says at which stages an object has a model and a
  context.
- **ask.**  The invariant says that every longer prefix has been found not to
  fit, and that under `ResponseFits` the unsigned subtraction is the real one.
- **Prompt.**  `PromptInv` says what each stage knows: the arguments are those of
  the call (`Asked`), `used` is the size of the section with the chunks fitted so
  far and within the budget if the budget has room for the header (`Budgeted`),
  what is quoted is the escaped text of each chunk written (`Quoting`), and after
  the fitting the next chunk is too large (`DroppedForBudget`).  That the section
  is as large as reserved is the sum of its chunks' sizes, one step of the sum per
  chunk.  Of `append_escaped` the lemmas say, for a text of any length, that no
  two neighbours of what it writes are a marker, and that without the inserted
  spaces it is the text.
- **Handles.**  The invariant adds to `EverythingIsOwned` what an object holds at
  each stage of its constructor and that its size is the file's, so that an open
  object is one whose file passed `validate`.  That no accepted file lets a read
  leave the mapping is then arithmetic: each of `validate`'s divisions bounds a
  product, the bounded product does not wrap, and so the sums that `validate`
  computes with wrapping are the real ones, section after section.  That what is
  written is read back follows the other way round: where the sizes add up to less
  than a word, `write`'s sums do not wrap, its file passes each of `validate`'s
  checks except perhaps the last one of a record, which it passes exactly if the
  item is `Describable`, and the place that the stream has reached when it emits a
  string, which is a sum over all the strings before, is the offset in the
  string's record.
- **Generator.**  The invariant is the properties and what each stage says of the
  other variables: while a call samples, the response is all that the model said
  and has no stop sequence, and the position is at most the prompt's length
  before; what is held is what the stage has allocated.  `FitsIsRoom` says that
  the guarded unsigned subtraction is the real one.  The lemmas state what
  finding, cutting and trimming do to any text: a prefix has no stop sequence that
  the whole does not have, the first one is cut with what follows it, and the trim
  takes a strict prefix of one.
- **Embedder.**  The texts of a call have passed the check before the batch is
  allocated, and the batch is as large as the longest; filling it writes the
  text over the front, so what `n_tokens` counts is that text whatever else the
  arrays hold.
- **index.**  The items so far are those of the inputs embedded so far, in order:
  each input appends the chunks of one document, with the embeddings that the
  invariant of the embedder gives them, and the only write comes after the last.
- **Evaluation.**  `RankIsKept` is about one printed result list: the headers stand
  in it in order, and between two of them nothing has the substring but lines of
  the first one's result.  So a piece of the split output that has it begins at or
  after the header of a result that has it; the pieces up to that one are at least
  as many as the results up to the first such result, and exactly as many if no
  other line looks like a header.  A rank is therefore never better than the real
  one, and is the real one for plain texts.  Cutting the list off anywhere takes
  hits away and leaves the pieces before them, so a rank in what a killed command
  has printed is no better either.  `EvalInv` then says that the counters of an
  evaluation that has not failed are what its cases so far give, or no more than
  that (`Within`), the case that is being asked included, and that an index is one
  of the scales in use; no action of another evaluation touches the counters.

Recursive definitions.  The library's induction theorems take an operator as a
parameter, which the provers cannot instantiate.  `RecursionTheorems` gets
induction from the least element of a set of numbers instead (`Induction`: a set
that has 0 and with each number the next one is `Nat`), and from it that a
function which is computed from one position of a list to the next exists and is
unique (`StepsExist`, `StepsAgree`).  The sums of sizes, the places in the file,
and the flattening of a list of lists are such functions: the definitions are
recursive functions or the folds of the community modules, and the lemmas
(`TotalAdds`, `CursorSteps`, `FlattenAppends`, `FlattenPlaces`) say what one more
element adds.

### Only model-checked

Liveness: that the chunker's loop ends (`Terminates`) and that `ask` does
(`Ends`).  The prover has neither fairness nor ENABLED.  Of the first, the
theorem `LoopAdvances` has the part that could go wrong: every round moves
`begin` forward.

## Not modelled

- What floating-point arithmetic computes, what a tokenizer and a model return,
  what PDFKit extracts: inputs of the models.
- The document loader: it reads a whole file and keeps nothing.  A document that
  cannot be read is an input of `IndexQuery`.
- `run_generate`, one call of `generate` without a state of its own, and `parse`,
  which turns flags into a structure; the commands' models start from that
  structure.  `stoull` also takes `-1`, which becomes the largest word; the
  options are therefore any word where a model does arithmetic with them.
- The evaluation's JSON reader, a parser whose result is an input, a substring
  that spans lines, and the parts of its index command: two of them at once are the
  two writers of `IndexStore`.
- `build_chat_prompt`, a fixed concatenation.
- The embedder's conversion of `--embed-ctx` to 32 bits, which only changes the
  context size that is asked for: the models take the size that is granted.
- Failing memory allocations, but for the response of `generate`, the one that
  leaks, and where an action for an exception stands for them as well.
- Scripts, tests and build files.

## Plan

The order was: the index store first, as the one place where processes and
crashes meet; then the chunker, the search and the shared backend; then the
generator, the prompt and `ask`, which composes them; then the bytes of the
index and its handles, the embedder under `index` and `query`, and the
evaluation.
All safety properties that the runs check are theorems.  What could follow: the
handles' `ReadBack` joined with the writers of `IndexStore`, so that one theorem
goes from the items of a command to what another process reads; and the arithmetic
of `std::uint32_t` in the chunker's limits.
