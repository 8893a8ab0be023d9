# RayoMD: TLA+ models, model checking and proofs

RayoMD is a C++17 program that converts Markdown to PDF: a command line, a batch mode, a server on
standard input and a library. This directory holds TLA+ models of the parts of it where threads,
processes, files and failures meet, TLC configurations that check small instances of them, and
theorems that TLAPS checks for every value of the constants. They also cover sequential parts
where one mistake in a long sequence of steps is what matters: the layout of pages with footnotes, the
incremental builds of an editor's session, notes that embed one another, and a session of requests.
`src/...` below is a path of the repository; line numbers are those of the commit the models were written from.

```
tlc -workers 2 -config ImageEncoderShared.cfg MCImageEncoder   # model checking: see "Runs"
tlapm ImageEncoderProofs.tla                                   # proofs: see "Theorems"
```

## 1. The system

### Components

| Component | Source | State it keeps | Operations |
|---|---|---|---|
| image encoder | `core/image_encoder.*` | segments of an image's planes, claims, buffers, published bytes, sleeping and running helpers | `Append`, `EncodeReady`, `Abandon`, `Finish`, destructor; helper threads in `State::Work` |
| batch jobs | `common/batch_report.cpp` `RunJobs` | two counters, a barrier, the largest size | one call; its threads |
| batch export | `cli/main_cli.cpp` `ExecuteBatchJobs`, `common/batch_report.cpp` `Report` | documents' results, the report's buffer, file and failure | convert, record, flush, close, exit code |
| batch output | `OutputUpToDate`, `File::WriteAll` | one PDF file, its time; the input and its time | check, read, build, write in place |
| batch collect | `CollectMarkdown`, `RunStdinBatchExport` | lists of inputs and outputs | one thread builds them |
| serve | `cli/serve_request.*`, `RunServeJson`, `RunServeExport` | a line reader's block and line; one request's buffers, used again for the next | read a line, parse it, answer it |
| file atomic | `WriteNewFileAtomicPortable` | a temporary file | create, write, link to a new name |
| image cache | `core/image_cache.*` | a directory shared by processes | load, store (temporary file and rename), trim |
| note cache | `core/vault.*` | notes' texts and name indexes, under a mutex | check, keep, evict |
| diagram cache | `core/diagram_cache.*` | drawn diagrams, converted SVG files, byte counts | find, keep, empty |
| build session | `core/build_session.*`, `core/session_parse.*` | the kept texts and their versions, the last parse's record and blocks, the layout's tape | build, undo, go on from the last parse, replay |
| page notes | `core/page_notes.*` | the account of notes, what waits at the foot of the page | measure, reserve a line's or a row's notes, paint, settle |
| page layout | `core/tiny_pdf.cpp` (the block loop, tables, page breaks) | where the page stands, its margin and bottom, the content, the source map | paint a block, break a page |
| embeds | `core/embeds.*` | the entries, the chain of notes being read, what was looked up and read, the limits | find, load, include, splice |
| book | `core/book.*` | linked notes found so far; chapters parsed by threads | follow links, parse |
| Markdown parser | `core/markdown_parser*`, `inline_markdown*`, `dialect*`, `html*`, `highlight*` | blocks of one document | parse |
| PDF writer | `core/tiny_pdf.cpp`, `tagged`, `pdfa`, `contents`, `theme`, `long_page`, `print_colors` | pages and objects of one document | lay out, write |
| PDF source | `core/rayomd_pdf_source.*` | none | embed, inspect, recover |
| math and drawings | `core/math_*`, `mermaid*`, `svg*` | none | parse, lay out |
| codecs and fonts | `core/flate*`, `inflate*`, `png_filter*`, `cff*`, `word_bounds*` | none between calls | compress, expand, subset |
| platform | `common/path*`, `file_io*`, `thread_object*`, `text_utils*`, `cli/terminate.cpp`, ... | none | system calls |
| Windows CLI | `win32/*` | as the portable one | as the portable one |

### How they interact

The command line turns its arguments into one document, a book, a batch or a server. A batch calls
`RunJobs`, whose threads each take a job's index from a shared counter and convert the document:
read the file, parse, lay out, write the PDF, record a line of the report. A conversion may meet
images: `BuildDecodedPngImage` then gives the rows of a decoded PNG to an image encoder. The
encoder asks the process's `HelperPool` for threads; several conversions may do so at once, so a
helper may come late or never. Conversions share the image cache (a directory, also shared with
other processes), the note cache and the diagram cache (maps under a mutex). A build session keeps
the state of one editor window from build to build, and falls back to the same parser and writer.

No C++ exception is used: a failed allocation or system call is a returned value, and a thread that
cannot be created ends the process (`cli/terminate.cpp`).

### What is hard

* **Threads on shared memory.** The image encoder uses atomics, one mutex and two kinds of waiting:
  helpers wait for bytes, the decoder waits for a free buffer and, when it ends, for the helpers to
  leave. A lost wake-up stops a conversion; a buffer freed too early gives a PDF with another
  segment's bytes, with no crash.
* **Barrier and limits.** The memory limit of a batch depends on all threads having measured their
  share of the inputs before the first job.
* **Partial failure.** An output buffer that cannot be allocated, a report on a full disk, a PDF
  half written.
* **Stops and reruns.** A batch may be killed at any point and run again with `--skip-unchanged`.
  Whether a document is skipped depends on what the stopped run left in the file and its time.
* **Files under other processes.** The image cache and the recovered source.
* **Staleness.** The note, SVG and session caches stand for files and texts that change. A file's time
  is that of a coarse clock, so a note written twice within a tick shows one time; a session names the
  text it parsed by a number only and never compares its bytes again.
* **Notes in notes.** Notes embed one another under several names and paths of one file, while files go
  away; a cycle must end, a note embedded twice must appear twice, and every limit is a difference of
  unsigned numbers.
* **Bytes in pieces.** A pipe gives a request's line in any pieces, and its buffers are used again.
* **Circular demands.** A footnote stands on the page of its reference, but the room it takes may move
  the line of the reference to the next page; a table row that moves takes its header row with it.

`PROJECT.json` lists each hazard at its line with the property that would show it going wrong, or
the reason why none does.

### What makes each component correct

| Component | Properties |
|---|---|
| image encoder | one thread compresses a segment, from its own bytes; the decoder never writes into a buffer that is someone else's; a decoder without a buffer can always get one; streams only of whole planes; nothing touches a destroyed encoder; no wake-up is lost and every call returns |
| batch jobs | each job once; the memory limits; the call returns |
| batch export | one line for each document while the report's file works; exit code 0 only when everything was done and reported |
| batch output | what is reported as converted is whole; what is skipped is whole and current; a batch run again ends with the right PDF |
| serve | each request has the answer it would have alone, in order, whatever the lengths of lines and blocks; no answer waits for more input; exit code 0 only when all were answered |
| file atomic | never overwrites, never leaves half a file under the final name |
| image cache | a lookup opens whole entries only and hits with its own version's; a crash at any point leaves a usable directory; no failure leaves a file; its size stays bounded |
| note cache | a text given out is the whole file's at that moment; a kept name index names the notes there are; the map, the slots and the byte count tell the same |
| diagram cache | the same for drawings; the byte count is the sum of the entries |
| build session | an incremental build is the fresh build of the text; a failed build changes nothing |
| page notes | each note set once, whole, on the page of its reference or after the text; text and notes never overlap |
| page layout | every document ends; no row or line lost or doubled; the source map says where each block is; a heading is not the last thing on a page |
| embeds | the descent ends and keeps its limits; no note inside itself; every embed that belongs there is there, in the order of reading, and its blocks are in its place |
| book | termination; limits; order |

## 2. Modules

Every definition is translated from the code; `PROJECT.json` ("map") gives its lines. A step of a
model is one atomic access, one critical section or one system call.

### `ImageEncoder` (with `ImagePlan`, `PlaneStreams`, `MCImageEncoder`)

One encoder and its helpers. The constructor splits each plane into segments; `ImagePlan` computes
that plan (sizes, starts, order of arrival) from `ImageSegmentSize` and the constructor, and the MC
module asserts that the segments it writes out are that plan's. `ImageEncoder` takes any segments
that tile the planes.

| State | Code |
|---|---|
| `ready[p]` | `State::ready`, the atomic count of published bytes; `Abandoned` is `kAbandoned` |
| `position`, `wakeStart` | the decoder's own counters |
| `claimed[s]`, `claimedCount` | `Segment::claimed`, `State::claimedCount` |
| `input[s]`, `spare`, `made` | `Segment::input`, `State::spare`, buffers made or carved |
| `out[p]`, `failed` | whether the plane's output was allocated; `State::failed` |
| `mutex`, `waiting` | `State::mutex` and the threads in `changed.wait` |
| `sleepers`, `running`, `queue` | `State::sleepers`, the pool's count of helpers inside, and places left in the pool's queue |
| `pc`, `index`, `packed` | each thread's place, the segment it looks at or holds, the units it has compressed |
| `whole` | segments whose compressed bytes are complete (`written # 0`) |
| `holds[b]` | history: whose bytes a buffer holds |

Actions: `Take` and `Leave` are `HelperPool::Run`. `WorkLoop`, `ClaimTake`/`ClaimSkip`/`ClaimNone`,
`CountClaim`, `Encode`, `DeflateBlock`, `DeflateStop`, `Release`, `Lock`, `CheckYes`/`CheckNext`/
`CheckNo`, `Woken` and `Wake` are the steps of `State::Work`, `Claim`, `Encode` with
`DeflateImageSegmentImpl`, and `CanClaim` under the mutex. The decoder's `Write`, `AcquireSpare`,
`AcquireNew`, `AcquireFails`, `AcquireEncode`, `AwaitBuffer`, `Fill`, `Publish`, `Advance`,
`WriteDone`, `Abandon`, `Finish`, `GiveUp`, `Destroy`, `Cancel`, `LeaveHelpers` and `Streams` are
`ImagePlanesEncoder`'s members and their use in `BuildDecodedPngImage`. Any number of units may be
written at a time, and a helper in the pool may come at any time or never.

Bytes are counted in units: the checked instances have segments of one and two units and a first
block of one. A helper that compresses a segment that is not yet whole waits inside the compressor
until the next block's bytes are published (`DeflateBlock`), or stops without output when the plane is
abandoned (`DeflateStop`).

`PlaneStreams` is what `image_encoder.h` promises, without threads, buffers and locks: planes
written in order or dropped; each segment compressed at most once and only when all of it is
written; streams of whole planes only; nothing after the encoder is gone. `KeepsPromise` says that
`ImageEncoder` implements it, with `written <- position`, `compressed <- whole` and so on. Its proofs are in
`ImageEncoderProofs`.

Atomics are modelled sequentially consistent. The code uses the default order for the accesses
that the sleeping protocol depends on (`ready`'s store and `sleepers`' load in `Advance`, and their
counterparts in `Work`) and weaker orders elsewhere. Spurious wake-ups are not modelled: every
wait of the code has a predicate that is tested again.

### `RunJobs` (with `JobPool`)

The threads of a batch. `sizing` and `next` are the two shared counters, `arrived`, `largest` and
`active` are guarded by the mutex, `mine` is a thread's own maximum. `Start`, `TakeSize`, `Measure`,
`Arrive`, `Woken`, `TakeJob`, `Run`, `Join` follow the code in order. `runs` is a history variable:
how often each job was run. `JobPool` is the abstract specification: a set of jobs to do, at most
`Limit` being done, and a return when none is left. `RunJobs` is checked inside `BatchExport`, whose
behaviours are its behaviours (`UsesRunJobs`).

### `BatchExport` (with `MCBatchExport`)

`ExecuteBatchJobs` around `RunJobs`: `BatchExport` extends `RunJobs` and splits the thread's `Run`
into `Convert`, where the document gets its exit code, and `Record`, where its line is added to the
report and the job ends. A document may have a result before the batch (an output that another
document writes too). The report buffers lines (`Write`), flushes them when the buffer is full or a
second has passed since the last write (`FlushLocked`), and a flush may fail after part of its
lines. `Close` and `Exit` end the batch. `Tick` lets time pass only while every thread that could
go on converts a document, so a delay is never the model's own idleness.

### `BatchOutput` (with `MCBatchOutput`)

One document, run after run with `--skip-unchanged`. `OutputStatus`, `InputStatus`, `CheckEnd` are
`OutputUpToDate`; `Read` and `Build` the conversion; `Open`, `Write`, `Truncate` are `File::WriteAll` on
POSIX systems, which opens without `O_TRUNC`, overwrites, and cuts a longer file at the end. The PDF
is a sequence of units, each labelled with the version of the input it was made from. Around it,
`Stop` kills the run at any point, `WriteFails` and `Fail` are failures of its calls, `Edit` saves a new
version of the input, `Tick` is the clock of file times.

### `ImageCache` (with `ImageStore`, `MCImageCache`)

The directory of re-encoded images. `dir` maps each name to what its file holds: the image and the
program version whose streams they are, how many units of them, its time, and (history) the thread
that made it. A thread goes from `Load` through `OpenEntry` and `Read` to a hit (`Touch` sets the
entry's time, by name) or a miss (`CountStore`, `Create`, `Write`, `Close`, `Rename`), and every
`TrimEach`th store trims (`TrimBegin`, a `StatEntry` or `StatTemp` for each name in any order, `RemoveOld`,
`Listed`, `Evict`, `TrimEnd`). Processes are launched, exit and are killed at any step; a process
started again has the same number and counts its stores from zero, so temporary names are used
again. Two processes that live at the same time have different numbers. (Containers that share the
directory may have equal ones; then an entry may be seen half written, and only the checks in its
header and its Adler-32 keep it from a PDF.)

A thread that reads has the entry as it was when it was opened. That is sound because an entry is
whole when it is opened (`OpensWhole`, checked at that moment) and nobody writes to a whole file. The
checksum is abstracted to the wholeness that it tests. A failed call and the removal that follows are
one step. Trim's listing gives the names that were there when it began; POSIX leaves open whether
later ones are given.

`ImageStore` is the abstract specification: per image the streams of at most one version, kept and
dropped as a whole; a lookup hits only with what it met, of the asker's version. `IsAStore` maps an
entry that is not whole to a value that `ImageStore` has no step to.

Two trims at once may each remove what the other counted on, as each subtracts only its own
removals: the directory may then fall below the 3/4 that the comment on `Trim` names. It is a cache, so
no property forbids it; `DirectoryBounded` says that the limit itself is kept.

### `NoteCache` (with `KeptNotes`, `MCNoteCache`)

The vault on Linux: builds in several threads find notes by path or by name and read them; the process
keeps their texts and the last name indexes under one mutex. `KeptNotes` has the operators of that
state, each one critical section: `Keep` (a note is kept whole, settled and within limits; `Written`,
`Within` evict the least recently used), `Looked`, `KeepIndex`, `DropIndex`, `LastIndex`.

| State | Code |
|---|---|
| `kept` | `TheKept`: the map, the slots, the byte count, the clock of uses, the indexes |
| `vault[t]` | a build's `Vault`: the text of its last hit, the file a find left open, its name index |
| `call[t]` | the call a thread is in, with what it has read so far |
| `entry`, `file`, `folder`, `now` | the files: the inode of each path, an inode's text and times, the folders, the clock |

`Find`, `FindByName`, `Read` begin a call; `Look`, `Stat`, `Open`, `Fstat`, `ReadUnit`, `KeepNote` are its
system calls and critical sections (`Vault::Cached`, `Open`, `ReadOpen`, `Keep`); `LookIndex`, `SameFolder`,
`OtherFolder`, `TakeIndex`, `BeginWalk`, `WalkRoot`, `ListRoot`, `WalkSub`, `ListSub` are `KeptIndex` and `Walk`.
Between any two of them the world may go on: a tick of the clock, a unit of a file overwritten, cut off or
appended, its time set back (a tool that keeps times), a file replaced by another one (with an old time
or a new one), deleted, the folder moved away with its notes or an empty one made in its place. Inodes
are used again once nothing names them.

A text has two units or so; reading takes one unit at a time, so a text put together of two versions
is possible. Times are in ticks. `SettleTime + 1 >= TickLen` is the weakest assumption on the settle
time under which a later write shows as another time, and the instance is at that boundary. The listing
of one folder is one step. Indexes that hold the same are one (the code compares pointers: two equal
indexes in the list do not change what is found). Left out: links, the limit of entries of a walk, kept
roots and image paths, the path without `openat2`, Windows.

A vault that has a hit for a path gives that text to `Read` although a later `Find` of the same path saw
the file changed and opened it (`core/vault.cpp:726`). One build then goes on with the text it found
first; no document or comment says otherwise, and `HitIsCurrent` is about the moment the hit is made.

### `PageFlow` (with `PageNotes`, `PageSteps`, `MCPageFlow`)

The layout of a document on pages whose footnotes stand at their foot. `PageNotes` is the class of that
name: an account of the notes as a record and one operator for each operation (`Refer`, `Walk`, `Settle`,
`AddLine`, `Collect`, `Fit`, `Place`, `SettleRest`). `PageSteps` is what each block's paint function asks of
the page, as the sequence of its steps: room it ensures, lines it draws with the room and the notes each
brings, spaces, margins moved and put back, page breaks. `PageFlow` runs them.

| State | Code |
|---|---|
| `r.y`, `r.bottom`, `r.margin` | the renderer's `y`, the page's bottom (the notes' room above the margin), the margin |
| `r.notes` | `PageNotes` |
| `r.starts`, `r.textEnds` | where each page's content begins, and where its text ends and its notes begin |
| `r.drawn` | the content, as the things drawn, each with its page and height |
| `table` | the locals of `RenderTable` and `RenderMathTable`: the row, the header's height, the row to go on with, the lines already drawn of a tall row |
| `open`, `mapped` | `NoteSourceBlock`'s start and the source map |

Actions: `Measure` (notes are laid out once to know their heights; a layout may be cut short), `BeginBlock`,
`PageBreakBlock`, `Step`, `EndBlock` (the block loop), `TableBegin`, `HeaderRow`, `BodyRow`, `RowMoves`,
`TallRow`, `MathSlice`, `PlainSlice`, `TableEnd` (the two table loops), `EndText`, `Finish` (the notes after the
text). `Reserve` is the heart: a line's notes are collected against an empty page, the page is broken if
line and notes do not fit, and then as many notes are placed as fit under the line.

Heights are whole numbers of five points, rounded, with a page of 33 (eleven lines of text). One thread
runs it all: what is explored are documents. The properties state the exceptions the code has; each was
seen on the program too. A heading that is wrapped, has a note of its own, or heads a run of headings taller than a
page may be the last thing on its page; a bullet's marker is drawn before its item's first line finds its
page. An image scaled to a full page leaves a blank page before it when it stands at the top of an empty
one; a row cut into slices that begins with tall formulas may leave its notes on the page before (`RowAfter`). Left out: line
breaking, the Unicode renderer, pages whose height grows, tags, cancellation.

### `BuildSession` (with `SessionText`, `SessionParse`, `SessionBlocks`, `SessionReuse`, `SessionLayout`, `SessionBuilds`, `MCBuildSession`)

An editor's session: documents built one after another, each from what the one before left.

| Module | State and operations | Code |
|---|---|---|
| `SessionText` | `markdown`, `winAnsi` (kept texts with a version, a base and the text before the last change), `winAnsiOf`, `versions`; `BeginText`, `ChooseFonts` with `TranscodeChange`/`TranscodeWhole`, `CommitText`, `UndoText`, `ClearText`, `ReadText` | `KeptText`, `SessionText` |
| `SessionParse` | no state: lines, their classes, the definitions and the block loop with its passes (`ParseWhole`) | `markdown_parser_level.inc` |
| `SessionBlocks` | no state: the blocks a session keeps, with what a parse took out of them (`Old`, `Kept`), committed (`CommitBlocks`) or put back (`UndoBlocks`); what a parse owes the session (`ParsedFrom`) | `SessionBlocks`, `CommitParse`, `UndoParse` |
| `SessionReuse` | the change between two texts, lines and classes moved (`ShiftLines`), where the loop may go on (`ResumeLine`) and be left (`DocumentPass`), blocks put in place (`ParseInSession`) | `build_session.cpp`, `session_parse.cpp` |
| `SessionLayout` | the tape of the last layout and its replay where both builds stand at the same height | `SessionLayout`, `SessionAccess::Render` |
| `SessionBuilds` | `stage`, `options`, `renderer`, `tries`, `store`, `notes`, `tape`, `recording`; the steps of a build but for the texts and what the parse reuses: `BeginLayout`, `ChooseRenderer`, `ParseBlocks`, `LayOut`, `CommitLayout`, `NextRenderer`, `FinishBuild`, `UndoBuild`, `ClearBuilds` | `BuildSession::Build`, `SessionLayout` |
| `BuildSession` | the above with `SessionText`, and `record`, `pending`, `views`; `BeginBuild`, `Choose`, `Parse`, `LayOutBuild`, `Commit`, `NextFont`, `Finish`, `Fail`, `Clear` | `BuildSession::Build` and `BuildPdf`'s calls on the session |

Any build may fail or be cancelled after any of its steps (`Fail`), and the next one starts from what is put
back. `views` is a history variable: what the records remember of a text by its version, with the text it
was. `SessionText` and `SessionBuilds` are specifications of their own (`TextSpec`, `BuildsSpec`), in which any text is built and
any parse takes place that can be put back (`ParsedFrom`): what the proofs are about. A session behaves as both (`PartsSpec`). The
standard fonts for ASCII and in WinAnsiEncoding are two renderers (`TextFonts`), as in the code: a document that changes from one to
the other is laid out whole.
The properties compare with definitions that keep nothing: `ParseWhole` for the blocks and the next
record, `LayOutWhole` for the tape and the source map.

A text is a sequence of symbols: words, line feeds and what makes lines depend on each other (fences,
item markers, `$$`, setext underlines, `<div>`, comments, footnote and link definitions and references,
`[TOC]`, indentation), a character with a WinAnsi code, one without, a reference only a Unicode font
shows, and a wiki link that Obsidian's dialect rewrites. Left out: images (never replayed), numbered
headings and page breaks in the layout, options under which nothing is kept, glyph sets, padded table
cells, the output written in place of the last one, embeds and books in a session, lossy standard fonts, a
third font, front matter, quotes and tables (lines of a paragraph).

### `Embeds` (with `EmbeddedText`, `MCEmbeds`)

The notes a document of Obsidian's dialect embeds: `Resolver::Expand` goes down, depth first, through the
embeds of the document and of each note that it brings in.

| State | Code |
|---|---|
| `vault` | the document and the notes with their sections, files and folders, and what a name finds (`core/vault.*`) |
| `entries` | `EmbedSet::entries`: text and embeds; `place` is a history variable |
| `stack` | the calls of `Expand` with each one's entry and next line; their notes are `chain` |
| `known`, `loaded` | the lookups and the notes read so far |
| `bytes`, `read`, `scanned`, `lookups` | what each limit is subtracted from, as a `size_t` (`Size`) |
| `step`, `stopped`, `cancel` | where the innermost loop is, `stopped`, `options.cancel` |
| `refused` | history: embeds left out for a limit or a file that went away |

`LookUp` is `Find`, which looks each name up once for each folder; `NoNote`, `Found`, `TooDeep`, `Stop`,
`Cancelled`, `Load`, `Unread`, `TooLarge` and `Include` are the branches of one turn of the loop, `Return`
its end. Between any two of them the build may be cancelled, and a lookup or a read may find the file gone.
A line is one unit of size and of a kind: text, a footnote's definition (whose label becomes longer), a
rule, a blank line or an embed. `EmbeddedText` cuts each entry into blocks and splices them at the embeds'
lines (`Blank`, `AppendEntry`, `SpliceEmbeds`); its properties compare the result with the document as a
reader would put it together, which knows nothing of stacks and lookups. Left out: the folders of images,
the text for the choice of fonts.

A text may grow after `Expand` compared it with the bytes left (a footnote's label, a line before a
rule): `bytes` may then pass its limit, and what is left of the limit wraps around, so no later embed is
limited (`core/embeds.cpp:576`; `embeds.h:49` says that an embed past a limit stays a link). The
program shows it too. What `LimitsKept` says of the bytes is for texts that did not grow; its other limits always hold.

### `Serve` (with `MCServe`)

A session of `--serve --json`. The client sends bytes in any pieces (`Send`), may close its end (`Close`)
or stop reading (`Leave`). `Read` is the `read(2)` of `ReadStandardInput`, `Take` and `TakeMore` what
`LineReader::Next` does with a buffer up to a line break, `ReadEnds` the end of the input. `Parse` is
`ParseRequest` on the line, field by field, with the request's buffers used again; `LineTooLong`, `Skip`,
`Quit` and `Answer` are the branches of `RunServeJson`.

| State | Code |
|---|---|
| `input`, `sent`, `closed`, `gone` | the pipe and the client |
| `taken`, `at` | `LineReader::end_` and `begin_`, as places in the input |
| `line`, `any`, `tooLong` | the line so far, whether there is one, whether it is past the limit |
| `request` | the id and args of the request's buffers |
| `answers` | the lines written and flushed |

A byte stands for itself where lines are made of it and for a whole field where a request is. What JSON
strings and numbers hold, the conversion and its result are left out, and so is plain `--serve`, whose lines
`getline` reads. A key given twice ends the reading of a request: its answer carries the id only if that came before.

## 3. Runs

| Run | Instance | Shows |
|---|---|---|
| `encoder_shared` | two planes in three and two segments written side by side, one helper, four buffers for five segments; malloc of buffers may fail | types, `BuffersKept` (each buffer has one owner, and threads compress their own segment's bytes), `DecoderServed` (it writes into its segment's buffer, and can always get one) |
| `encoder_live` | one plane in two segments, two helpers, the plane's output allocation may fail, fairness | `OneThreadEach`, `NotUsedAfterFree`; that the encoder implements `PlaneStreams`; `Ends` (each call returns, helpers go home); `HelperWakes` (no lost wake-up) |
| `encoder_no_output` | one plane in four segments, one helper, three buffers; the plane's output may fail | violation of `BufferComes` (finding 1) |
| `batch_export` | three threads, a large input so that two of them go on, a report or none, a disk that may fail, a document that may have failed before, fairness | `MemoryBound`, `OneLineEach`, `ZeroMeansAll`, that the threads are a `JobPool`, which does each job once, and `Exits` (the command ends) |
| `batch_output` | PDFs of 2, 3 and 1 units, two stops or failures, a clock of four | `OkIsWhole`, `SkippedIsSound`, `GoesOn` |
| `image_cache` | two processes of different versions, two images, one entry of two units, a limit of two, one store and one trim in each life of a process, one failure or kill | `OpensWhole`, `TempsAccounted`, `DirectoryBounded`, `IsAStore` |
| `note_cache` | two threads, a note in the root that tools edit and one in a folder, three inodes, two changes, two ticks, three calls; builds that find by name or by path | `NotesAccounted`, `HitIsCurrent`, `IndexIsCurrent` |
| `page_notes` | every document of one to three blocks of eighteen kinds, three sets of notes | `LayoutEnds`, `NotesPlaced` (each note once, whole, with its reference), `FootClear`, `RowsWhole`, `SourceMapTrue`, `HeadingLeads` |
| `page_notes_table` | a table whose row fits a page with its note but not with its header too | violation of `HeaderHasItsRow` (finding 2) |
| `build_session` | builds without number of three hundred documents under three sets of options, each build ending anywhere | `VersionNamesText`, `SameAsWhole`, `LayoutAsFresh`, and that the session's texts behave as `TextSpec`, its blocks and layouts as `BuildsSpec` (`PartsSpec`) |
| `embeds` | four documents with notes `a`, `b` and `c` in two folders and a hard link to `a`, 96 vaults; four embeds, three deep, eight units | `LimitsKept`, `NoCycle`, `FirstInOrder` (the embeds that belong, in the order of reading), `InPlace` (their blocks where the embeds were), `Ends` |
| `serve` | sessions of two and three lines of eighteen kinds, a limit of five bytes, blocks of three | `OwnAnswers` (each line's answer is the one it has alone; 0 says that all were answered), `Prompt` (no answer waits for more input) |

### Why the bounds are enough

*Encoder.* The limit of buffers is planes + helpers + 1. With two planes and one helper that is four
for five segments, so the decoder meets the limit, must compress or wait, and buffers are used
again. Two planes are what makes two partly written segments exist at once. Two helpers are what
makes two sleepers, a claim that races another helper's and a wake that reaches both; one plane is
enough for that. Segments of two units with a first block of one have a moment when they can be
claimed and are not whole. The two segments of `encoder_live` are fewer than its buffers, so `Ends`
does not see finding 1 there: it speaks of the waits for helpers, of sleepers and of a failed output that ends well.
`DecoderServed` in `encoder_shared` is what excludes a wait for buffers, where no output fails.

*Batch.* Three threads are the least with one that leaves for each limit (two, one). Three lines
with a buffer of two give a flush in the middle and one at the close. Three versions whose PDF grows
and then shrinks give an overwritten longer file, an extended shorter one, and an edit during a run;
two stops allow a stop during the run that repairs the first.

*Image cache.* Two processes are a reader and a writer, two writers of one entry, or two trims. All
entries together are three units and the limit is two, so trims evict, and an entry of two units can be
half written. One store in a life, and lives without number, use the same temporary name again and
again; one kill or failure leaves a file under it. A clock of one tick and an hour of none make a
writer slow enough to be taken for a killed one.

*Note cache.* Three calls are a read that keeps a note, one that finds it kept, and one of the other
thread between them; two changes are a write while the note is read and one after it, within a tick of
one another or not. Texts of two units, a cost of three each and a limit of five make the second note evict
the first. The constraint stops after the last call, when nothing more can be seen. The view tells the
uses of slots apart by their order only, as the code does, and drops what no step to come reads. Finding by
name and by path are chosen at the start, for one instance covers both and neither changes the other.

*Page notes.* Pages of eleven lines and blocks of up to nine lines put a page break at every step of every
block; a note of thirteen lines fills a page, one of twenty does not fit one. Of the three notes two are
referred to by the text and one only by a note, so clusters, cycles and notes named twice occur; the
code's depth of a cluster (`ClusterDepth`, eight) is more than three notes reach, so what is past it is not checked. Three
blocks are one that fills a page in part, one that breaks it and one that follows. No document of these needs more than
`MaxPages` pages, which `LayoutEnds` checks. The notes of this run stay out of the zone of finding 2,
which its own run shows; the first row of one table meets the exception of `NotesPlaced`.

*Build session.* A document has three pieces with blank lines between them; an edit changes one piece to
or from a plain one, so any document is reached from any other, the change lies before, in or after
what each piece makes (a fence opened, a definition added, a `<div>` left open), and the blocks after it move. Options
change for documents whose first and third piece are plain. A page of four lines breaks inside most
documents. The view `Ranked` replaces versions by their order and drops what no version names: the code
compares versions for equality only and gives out larger ones each time. So the runs of builds are not
bounded.

*Embeds.* Two notes and a second path of one of them make every short cycle: a note in itself, two in each
other, one in itself under another name, the document in a note. A name that means another note in each folder
makes an answer of one folder wrong in the other. Four embeds and eight units of bytes are fewer than the
vaults ask for, so each limit is met, at the top and inside a note; three deep is a chain of all the notes, whose
last one's embeds are too deep.

*Serve.* A limit of five and blocks of three put the limit, its `\r` and the end of a block at every distance from
one another; lines at, one past and far past the limit are followed by a line that must still be answered, by a line
without a break at the end, by one that quits. A second request that gives no id and no args follows one that
gives both.

`MaxStops`, `MaxTime`, `MaxFaults`, `MaxStores`, `MaxElapsed`, `MaxNow`, `MaxChanges` and `MaxCalls` bound the stops and failures, the
file clocks, a process's stores, the report's clock, and the changes and calls of the note cache. Nothing
else bounds a counter: `next` and `sizing` grow by at most one a thread past the last job. TLC meets the limit of
active threads for a large input only; the one for a huge input is `MemoryBounded`'s, for every size.

### Fairness

`BusySpec` (encoder): a thread inside the encoder goes on while it can, and the decoder goes on with
the call it is in. Nothing obliges a pool thread to come (`Take` is not fair), nor the decoder to
write another row, finish or give up: so `HelperWakes` and `Ends` do not rest on a helper's help, or on
more bytes. Operating systems run every runnable thread; mutexes are modelled by guards that are
open whenever the mutex is free, and no property needs a fair mutex.

`FairExportSpec` (batch export): each thread that has something to do goes on, and the calling thread opens
the report, joins, closes and exits. Nothing is assumed of the order in which threads run.

`AgainSpec` (batch output): the batch is run again after a stop and each run takes its steps. That is
what `--skip-unchanged` is for; it is the user's part, not the program's. `WF` on the job as a whole is
enough as its steps follow one another.

`FairSpec` (embeds): the one thread goes on with the descent. Nobody has to cancel it, so `Ends` does not rest
on that.

`FairSpec` (serve): the program goes on while it can. The client is obliged to nothing: it may stop in the middle of
a line, keep the pipe open for ever, or read no more. A `read` is open when the pipe has anything, and `Prompt` would
fail if it waited for a full buffer.

### Findings

1. **A decoder may wait for ever for a buffer** (`core/image_encoder.cpp:138`). When a plane's output
   allocation fails, `Encode` skips compression but still releases the segment's buffer, and with a helper
   the segment may be claimed at its first block, before the decoder has written all of it. The decoder's next
   write gives the segment a buffer again, and nothing releases that one, for the segment is claimed. Once as many
   segments as there are buffers went this way, `AcquireBuffer` waits with none spare and none in use: the decoder
   and, after it, the helpers sleep, and the build does not return. The comment at line 84 says that a decoder with
   no free buffer "sleeps until one is freed", and `Finish` should have returned false. Run
   `encoder_no_output`. With the release between a write's `Reserve` and its `Commit`, `Segment::input` is null
   when `Advance` copies the next segment's history from it: `DecoderServed` fails when `OutFails` is `{0}` in
   the instance of `encoder_shared`. With no output that fails, it holds (`encoder_shared`,
   `AlwaysServed`), also with failing segment buffers.
2. **A table's header row is repeated on page after page without end** (`core/tiny_pdf.cpp:6534`).
   `RenderMathTable` decides whether the header and the row that moved fit a page together without the room
   of the row's notes. A row that fits a page with its notes, but not with the header too, moves on; the
   header is drawn again, the row does not fit under it, and so on. The comment at line 6447 says the
   header is repeated "unless it and the row that moved do not fit a page together". Run `page_notes_table`; the
   program, given a table row with a footnote of 36 paragraphs and `--footnotes=page`, does not return.

Four more remarks, seen while modelling; no run is about them.

* A line of the report may wait longer than a second (`common/batch_report.cpp:147`): `batch_report.h:37` says
  "written at least once a second", but the clock is read only when the next line comes.
* A mixed PDF is skipped (`common/file_io.cpp:261`): `batch_report.h:71` says that only complete PDFs are skipped,
  as one cut short lacks its `%%EOF`. A PDF overwritten in place and broken off keeps the old one's end and has a new
  time. `SkippedIsSound` names this exception (`mixed`) and shows that, with edits that race a run, it is the only one.
* A row taller than a page may leave its notes on the page before it (`core/tiny_pdf.cpp:6471`): line 6470 says that they
  "go to the foot of the page the row starts on", but the room kept with them is a plain line's. When the row's first line
  is taller (a formula) and does not fit there, the page ends with the notes and the row starts on the next. `NotesPlaced` names
  this exception (`RowAfter`, `RowToCome`), which a row of `MCPageFlow` meets, and shows that it is the only one there: the notes
  are on the page just before the row.
* The bytes of embeds are not limited any more once a text that grew passed the limit: see `Embeds`.

## 4. Theorems

Each component's proofs are in a module of their own that extends its module and TLAPS. `CountingLemmas` holds what
several of them count with: a least number, induction made by hand, the k-th of some numbers and sums over finite sets.
`SessionProofs` is about three modules that have no state in common: a session of `--serve`, the texts of a build session, and its
blocks and layouts.

| Theorem | States, for every value of the constants |
|---|---|
| `ImageEncoderProofs!TypeCorrect` | `Spec => []TypeOK` |
| `ImageEncoderProofs!SegmentsDivided` | `Spec => []OneThreadEach` |
| `ImageEncoderProofs!LeftAlone` | `Spec => []NotUsedAfterFree`: the end of an encoder |
| `ImageEncoderProofs!BuffersOwned` | `Spec => []OneOwnerEach`: who owns a segment buffer |
| `ImageEncoderProofs!BytesOwned` | `Spec => []OwnBytes`: what a thread compresses |
| `ImageEncoderProofs!BuffersHeld` | `Spec => []BuffersKept`, from the two |
| `ImageEncoderProofs!DecoderWrites` | `OutFails = {}` implies `Spec => []DecoderHasBuffer`; with a failed output it is false (finding 1) |
| `ImageEncoderProofs!WholeStreams` | `Spec => []StreamsWhole`: what `Finish` returns |
| `ImageEncoderProofs!PromiseKept` | `Spec => KeepsPromise`: the refinement of `PlaneStreams` |
| `ImageEncoderProofs!NeverWithout` | `OutFails = {}` implies `Spec => []AlwaysABuffer`: the limit of buffers is large enough; with a failed output it is not (finding 1) |
| `ImageEncoderProofs!AlwaysServed` | `OutFails = {}` implies `Spec => []DecoderServed`, from `DecoderWrites` and `NeverWithout` |
| `BatchExportProofs!JobsOnce` | `Spec => []EachOnce` |
| `BatchExportProofs!MemoryBounded` | `Spec => []MemoryBound` |
| `BatchExportProofs!PoolOfThreads` | `Spec => IsAPool`: the refinement of `JobPool` |
| `BatchExportProofs!UsesRunJobs` | a batch export's behaviours are `RunJobs`'s |
| `BatchExportProofs!DocumentsOnce`, `ExportMemoryBounded` | `EachOnce` and `MemoryBound` of a batch export, from the above |
| `BatchExportProofs!LinesComplete` | `ExportSpec => []OneLineEach`: the report, for any flushes and any order of the threads |
| `BatchExportProofs!ZeroIsAll` | `ExportSpec => []ZeroMeansAll`: what exit code 0 promises, wherever the disk fails |
| `BatchOutputProofs!TypeCorrect` | `Spec => []TypeOK` |
| `BatchOutputProofs!WrittenWhole` | `Spec => []OkIsWhole` |
| `BatchOutputProofs!SkipsAreSound` | `Spec => []SkippedIsSound`: what a document is that a run skips |
| `ImageCacheProofs!WholeOpened` | `Spec => []OpensWhole`: what a lookup opens, in any number of processes |
| `ImageCacheProofs!TempsOwned` | `Spec => []TempsAccounted`: whose a temporary file is |
| `ImageCacheProofs!DirectoryIsStore` | `Spec => IsAStore`: the refinement of `ImageStore` |
| `ImageCacheProofs!LimitKept` | `Spec => []DirectoryBounded`: what trims leave that count at the same time |
| `NoteCacheProofs!NotesAreAccounted` | `Spec => []NotesAccounted`: the map, the slots and the bytes of the kept notes |
| `NoteCacheProofs!HitsAreCurrent` | `Spec => HitIsCurrent`: a note's text given out without reading the file |
| `NoteCacheProofs!IndexesAreCurrent` | `Spec => IndexIsCurrent`: a name index used again |
| `NoteCacheProofs!NoteCacheInvariant` | `Spec => []NInv`: the invariant behind the three |
| `SessionProofs!EachItsOwnAnswer` | `Spec => []OwnAnswers` of `Serve`: each line's answer, for any input, any blocks and any limit |
| `SessionProofs!VersionsName` | `TextSpec => []VersionNamesText`: a session's texts, for any documents and any sequence of builds |
| `SessionProofs!LayoutsAsFresh` | `BuildsSpec => []LayoutAsFresh`: a layout that takes from the last build's tape is the layout of its blocks alone |
| `EmbedsProofs!EntriesInPlace`, `WorkIsBounded`, `BytesLimited`, `LimitsHold` | `Spec => []EntriesStay`, `[]WorkBounded`, `[]BytesKept`, and the three together (`[]LimitsKept`), for any notes and limits |
| `EmbedsProofs!ChainHasNoCycle` | `Spec => []NoCycle`: what ends the descent |
| `EmbedsProofs!FirstAreBroughtIn` | `Spec => []FirstInOrder`: which embeds are in the document, and in which order |
| `EmbedsProofs!ReadsInPlace` | `Spec => []InPlace`: every block of every entry once, in the order of reading, at the line of the document that brought it in |
| `EmbedsProofs!TypeCorrect` | `Spec => []TypeOK` |

The assumptions are the named `ASSUME`s of the modules: finite sets of helpers and planes, segments
that tile the planes without overlap, at least one job and no more threads than jobs, PDFs of at
least one unit; for the notes, a settle time that covers a tick of the file system's clock, limits that one note fits,
an inode for every note of a tree at its start (`NotesHaveFiles`), and a `None` that is none of the values it stands
beside (`NoneIsNothing`); for a request, that no field is both an id and args, or either and another (`FieldsAssumption`). TLC evaluates them on every run.

### The inductive invariants

*Encoder.* `TypeOK` is not inductive: `sleepers` and `running` are decremented, `made` is incremented,
`index` moves past the last segment. The invariant adds what ties the counters to the threads' places
(`running` is the number of helpers outside the pool, `sleepers` that of the helpers between their
announcement and the end of their wait, both with cardinalities of sets of threads), who may hold
the mutex, and the decoder's target within its plane. `OneThreadEach` adds that a thread that
compresses holds a claimed segment: a step that claims needs `~claimed`, so it cannot take another
thread's.

*Encoder, buffers and streams.* The rest of `ImageEncoderProofs` adds, one on the other: `Locked` (only the thread that reads
under the mutex owns it; the queue stays empty from `Cancel` on, and no helper is inside once `running` was seen 0),
which gives `NotUsedAfterFree`; `PlanesRight` (a plane not dropped is published up to what is written, or one write
behind); `ClaimsRight` (a claimed segment is reached or its plane dropped, and is done with or held by a thread; a
segment is whole only when all of it was written); `BuffersRight` (made buffers, `holds` and which segments have one: a
reached and unclaimed one always, a held and reached one until its release, the one being filled).
Together they are `IInv`. For `Finish`, `CountsRight` says that the segments claimed are those
counted and those of threads between the exchange and the count, so a full count means every segment is claimed, and
when `running` is 0 no thread holds one: all are done with. The refinement of `PlaneStreams` then needs one step of it for
each of the decoder's and one or none for each of a thread's; a thread's steps are first sorted into seven kinds
(`Does`), by what they do to its segment. `NeverWithout` adds `UseRight`: where no output failed, a decoder that
seeks a buffer writes a segment that no thread has taken; what it scanned cannot be taken whole; a buffer is spare or some
segment's; and a segment that is claimed and has one is in a thread's hands. A decoder that found nothing to compress
then sees at most one buffer in use for each helper and one for each plane written in part, fewer than the limit.

*RunJobs.* The heart is what a counter says: the jobs below `next` were each taken by exactly one
thread, so `runs[j]` is 1 or the one thread that has index `j` runs it. For the memory limits, the
threads that have arrived have seen the sizes of all indices below `sizing` between them: when the
last arrives, `largest` is the largest size, `active` is its limit, and only threads below `active` go
on to take jobs. The refinement mapping reads the pool from `next`, the indices of running threads
and `returned`.

*BatchOutput.* Up to `written` the file holds the units of `seen`, the file is at least as long as
`oldLength` says, and is never longer than the larger of both; truncation then leaves exactly the PDF.
For `SkippedIsSound` a second invariant stands on the first (`SInv`). The PDF is a prefix of one version's PDF,
unless a write is under way or was broken off over an older PDF (`OneVersion`). A run that goes on past its check
found the PDF outdated, older than the input or without an end, and it stays so until the run writes, whatever is
edited (`FoundOutdated`). Unless an edit raced the run, it converts the present version (`ReadCurrent`). So a PDF
that is not outdated is the whole PDF of the present version (`CurrentOrOutdated`).

*BatchExport.* The file and after it the buffer hold one line for each document whose thread has recorded it
(`Reported`): a flush moves lines from one to the other and changes neither their number nor their order, and a
document's result changes only while its thread runs it, before its line exists. `ZeroMeansAll` joins this to
`EachOnce` and to what the command has seen when it exits (`AtEnd`). That the threads do not take a document
twice is `RunJobs`'s invariant, which holds here by `UsesRunJobs`.

*ImageCache.* A store's number was counted and no other store of its process has it (`Numbered`), so a temporary
name is one thread's; what is under it is nothing or what the thread has written so far, and whole and of its image
before the rename (`Written`). What has an entry's name is whole and of its image (`Entries`), and so is what a
lookup opened. A killed process's temporary files are nobody's; one started again with its number may meet them,
and its store then fails. The refinement maps an entry to its version, and adds that a change of an entry's time or
maker leaves the version (`KeptMeta`). Steps that only leave a file or take one away share a lemma (`QuietStep`), as
do those that change the thread's own file (`OwnStep`).

For `DirectoryBounded` a second invariant stands on the first (`BInv`). `Tallied`: what a trim counted is no less than
what it listed, all in all, so a trim that ends has brought what it still lists to the limit, whatever others
removed before it. `Tended`: unless a trim was killed, the entries that were there before the last trim began are
within the limit, or a trim is under way that has each of them still before it or on its list with its present size. The
trim that began last is one at first, as `fresh` is then empty; when it ends, what it
lists is within the limit and an entry it does not list is gone or younger than it.

*NoteCache.* `NotesAccounted` is inductive once the types of the slots are added (`Shaped`, `Mapped`). The two action
properties rest on `NInv`. A note that is kept, one a thread has read but not kept yet, and a descriptor that is open say
of a file what was true at a stat, and the time noted lies before the one the file system writes now (`Past`), as a
stat is only noted once the settle time is over. So a change that comes later is stamped differently, and a
file that still has the times noted still has the text (`SameLater`); a file replaced, deleted or set back has another inode or
another change time. The same for folders and the names in them. A step of the tools is then `Later`: it
takes no noted thing back, and one lemma carries all of `NInv` over it.

*Sums.* The directory's units and the notes' bytes are sums over sets that steps change, by the community
modules' `MapThenSumSet`, a recursive function that takes an element after another in an order of its own choice. `CountingLemmas`
shows that the order is of no matter. Its induction on the number of elements is
made by hand, as a least counterexample (`LeastNatural`, from the well-foundedness of the naturals), since
the library's induction theorems cannot be used.

*SessionText.* Four parts. `TextsTyped`: the texts are documents and the versions numbers. `Ordered`: every
version in use was given out, and a text's base is older than its version, so a new version is nobody's.
`Restorable`: while a build is under way, what `Undo` will put back is what the records may still name: the
base of a text this build changed is its version before the build, and the version its WinAnsi text was
of is kept with it. `VersionNamesText` is the property. `TextSpec` lets any records be kept and any document
be built; that `BuildSession` does no more than that is in `PartsSpec`, a property of its run.

*SessionBuilds.* `BuildsInv` says that the tape a session keeps is the layout, from nothing, of the blocks that `UndoParse`
would put back (`IsLast`), and that the store can be put back (`WellFormed`). A failed build then leaves a tape that is
still that of the blocks it leaves, and a parse leaves the last build's blocks where `Old` finds them (`BackIs`: what `Undo` puts
together and what `Old` reads are the same blocks). What remains is one build: a layout with runs from the tape of
other blocks is the layout of its blocks alone.

A block depends on where it begins, and of what follows it only on the headings right after (`KeepSame`). Begun at the same
height of another page, it draws the same, so many pages further on (`RunMoved`). A run (`RunIs`) is of blocks that are each the last build's
so many further on, and ends where no heading of it reads past its end: with another block, or with both documents. So
`Replay` of a run appends to the tape what its blocks would have drawn one by one, and leaves the renderer where
they would have (`TakenIs`, `ReplayIs`); the source map has the lines of this build, the ones a splice moved included. `Render` is a recursive
function of its steps, each of one block or a run. `RenderEnds` shows that steps that go from one state of the layout
block by block to a later one end with the same tape, for any choice of runs, from which `LayoutSame` follows, and `LayoutsAsFresh`.

Two things are assumed of a parse, in `ParseAny`, which the run checks of the modelled one: the numbers of a
splice fit its blocks, and putting it back gives the last build's. The height of a page is any number of lines.

*Serve.* `OwnAnswers` compares what a session has said with what all its lines, cut at the line breaks, ask for. `Reading`
says where the program is in them: there is a place, after a line break or at the start, from which on no break was read;
the line in hand is the input from there, or more than the limit is (`Holds`); and what was answered is what the whole lines
before that place ask for, none of which ends the session (`AnsweredTo`). `HasLine` is the same with the line complete.
It is inductive because `LinesOf` of one line more is `LinesOf` with one more at its end, whether a break ends it
(`LinesToBreak`) or the input does (`LinesPastBreak`), and stays the start of the lines of a longer text (`LinesBefore`).
That the answer to a line is the line's own rests on `ParseIs`: the parser goes on from nothing, and after the first k fields
what it holds is what they say (`Means`), an id and args only as far as it could read. The parser and the answers
are folds, recursive functions over sets of places; `FoldExists` and `FoldType` give what each step of one is, again
by a least counterexample. A line too long is refused by its length alone, with a `\r` before the
break or without (`StrippedIs`).

*Embeds.* A note's path is compared with the chain when its name is looked up, its file only once the note is
open, and between the two the loop leaves and comes back. `Seen` carries the first comparison, with the depth and the number of entries,
from `Found` to `Include`; `SameFile` is then the second. `WorkBounded` and `BytesKept` need that a difference
of a limit and what was counted is no less than zero, so that its `size_t` is the difference itself
(`SameSize`); `BytesKept` holds from step to step because a text that grew stays among the entries.

`FirstInOrder` compares a descent with the set of places that belong, which is a recursion over the depth. The order of
reading is a total order of the places (`EarlierTransitive`, `OneIsEarlier`); between the embed at a line and the next
line are the places at and inside that embed, and no others (`Between`). `OrderInv` says where the descent is in that
order (`Walk`): every text on the chain is one of its level (`Chained`), what was brought in or refused is before the next
place the innermost call looks at (`Ahead`), and what belongs and is before it was brought in (`Complete`). A step then moves
that place: past an embed that does not belong (`WentOn`), into one that does (`BroughtIn`), or back behind all that is inside
a text (`CameBack`). An embed refused for a limit only takes away places that are still ahead (`LevelKeeps`). When the
descent stops early, what is missing is later than all that is there (`LaterThanPlaced`). What a lookup found is what the
name names or nothing (`KnownRight`). The levels themselves are a recursive function, which by an
induction made by hand (`TablesExist`, `DownTo`) satisfies its equations down to `MaxDepth`.

`InPlace` rests on the shape of what the descent leaves (`TreeInv`): each entry after the document was brought in once, by an
earlier one, whose embeds are in the order of their lines (`Tree`), and each call is past the embeds it made (`Past`). So the
splices, a recursive function of the entries, exist from the last entry backwards (`SplicesExist`). What an entry becomes is a
`Run`: blocks of the texts at or inside its place, in the order of reading, each at a line of the entry's text. Two runs of one
text make a run when the lines of the second are later (`RunJoin`), and an embed's run, moved to the embed's line, is one of the
text around (`RunMoved`). `Merged` is the loop of `SpliceEmbeds` after some of the embeds: a run up to the last one's line, with
all they brought and the own blocks before it (`MergedNext`). At the end nothing is missing (`SpliceIsAssembled`), and what an entry holds
the document holds (`AllHeld`). That no block of an entry starts at the line of an embed (`Blank` made it a comment) is what
keeps the two apart.

### What only TLC checks

Liveness (both `Ends`, `HelperWakes`, `Exits`, `GoesOn`, `Prompt`), which is beyond the prover. `PageNotes`, `PageSteps`,
`SessionParse` and `SessionReuse` have recursive operators over documents and walks of notes, and what such a definition
computes for every input cannot be proved here: so the six properties of `page_notes`, `SameAsWhole`
and the refinement of `TextSpec` and `BuildsSpec` (`PartsSpec`) stay with TLC. Those of `page_notes` are not true of every value of the
constants either: a line that no page holds takes a page without end, or leaves an empty one where the source map says its block
starts. They hold for
the heights and pages of the run; a theorem would have to say first what a block may ask of a page, which is what
its steps (`PageSteps`, recursive) compute.

## 5. Plan

1. **Encoder** (modelled; every safety property of its passing runs and its refinement proved).
2. **Batch** (modelled; every safety property of its passing runs proved).
3. **Image cache** (modelled; every property of its run proved).
4. **Note cache** (modelled on Linux; every property of its run proved).
5. **Build session** and **pages** (modelled in part; the session's texts and layouts proved). Next to model: images and
   page breaks in a session's layout, the PDF written in place of the last one.

6. **Embeds** (modelled; every safety property of its run proved).
7. **Serve** (modelled for `--json`; the answers proved, `Prompt` is liveness). Next to model: a book's walk over links, whose limit of bytes is looked at
   before the file is known.

## 6. What is not modelled

* Inline Markdown, dialects, highlighting, fonts, codecs, formulas and drawings: sequential functions of
  strings, bytes and numbers whose correctness is in the detail of the data. The repository tests them with
  golden files and fuzzers. Of the Markdown parser the document level is modelled, of the PDF writer the
  layout of blocks and what it does with the image encoder and cache.
* The diagram cache: maps emptied as a whole, whose stamps are compared as the note cache's are. A converted
  SVG's stamp has no settle time; `common/file_io.h:84` states that as a limit.
* Books: one thread collects the linked notes over the vault, and the chapters are taken from a counter as
  `RunJobs` takes documents.
* The server's JSON strings and numbers, and plain `--serve`, whose lines `getline` reads.
* `--recover-source`: the name is made by `link(2)`, which alone decides between two programs.
* The Windows command line: it calls the same `RunJobs` and `Report`; `WriteAll`'s Windows branch
  (truncate first) differs and is not modelled.
* The contents of a PDF: a document's version stands for its bytes.
* Weak memory, spurious wake-ups, failure to create a thread (see above).
* Scripts, tests, packaging and vendored code.
