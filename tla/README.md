# gols-bash: specifications, model checking and proofs

gols-bash is a language server for Bash that an editor starts and talks to over
stdin and stdout (LSP, JSON-RPC). This directory holds TLA+ models of the parts
of it that are hard to test: what several goroutines, the client and the disk do
to its index, how the process ends, what its search over sourced files finds,
where in a text its answers are, and what a rename edits when files are stale.
TLC checks them on small instances, TLAPS proves the main results for every
instance.

## 1. Inventory

| Part | Code | State | Operations | What makes it correct |
|---|---|---|---|---|
| Document store | `internal/server/documents.go` | text, version, tree and parse error of each open document, under `mu` | `Open`, `Update`, `Save`, `Close`, `Get`, `All` | tree and parse error are those of the text |
| Index | `internal/analyser/index.go` | one syntax tree per URI, under `mu` | `AddOrReplace`, `Remove`, `Get`, the `Reachable*`/`All*` queries | an open document is indexed as its buffer, a closed file as the disk |
| Workspace sync | `internal/server/workspace.go`, `analyser/scanner.go` | `workspaceMu`, the roots | open/update/save/close, `indexWorkspacePath`, `refreshWorkspaceFile`, `removeWorkspaceFile`, the walk | document store and index change together, and the index converges to the disk |
| Source graph | `reachableURIs`, `sourceNeighbours`, `sourcedURIs` in `index.go` | `seen`, `queue` | breadth-first search over `source` commands | finds the undirected component of the file, all of it and nothing else |
| Lifecycle | `Run`, `handle`, `signalExit` in `server.go`, `initialize.go` | `shutdown`, `abnormalExit`, `exit`, `runCtx`, the background `WaitGroup` | initialize, initialized, shutdown, exit, signals, disconnect | `Run` returns, with the right result, and leaves nothing running |
| Connection | `vendor/go.lsp.dev/jsonrpc2` | pending calls, first error, done channel | read loop, reply, call, fail, close | delivers in order, ends once |
| Diagnostics | `diagnostics.go`, `code_action.go` | `codeActions`, the ShellCheck runner and its `disabled` flag | lint and publish on open, change and configuration change; clear on close | what the client shows and the fixes it is offered belong to its text |
| Settings | `configuration.go` | `settings` under `settingsMu` | `parseSettings`, `applySettings` | a change touches what it mentions only |
| Positions | `internal/util/lsp`, `positions.go` | none | offset <-> position in UTF-8 and UTF-16 | the two directions are inverse on valid positions |
| Formatting | `formatting.go`, `editorconfig.go` | none | choice of the indent, merge of `.editorconfig` files | nearest file and last section win |
| Queries | `definition.go`, `references.go`, `rename.go`, `hover.go`, `highlight.go`, `symbols.go`, `completion.go` | none | read documents and index | their answers agree with each other, and with the texts unless a file is stale or broken |
| Declarations, usages | `analyser/declarations.go`, `usages.go` | none | walks of a syntax tree | the two walks call the same places declarations |
| Command line, logger, tables | `main.go`, `newLogger`, `internal/data` | none | flags, log file, constant tables | - |

**Who runs concurrently.** The JSON-RPC read loop runs one handler at a time, to
its end. `initialized` starts two goroutines: the scan of the workspace roots and
the registration of the client's file watcher, which waits for an answer that the
read loop delivers. `Run` waits in the main goroutine for a signal, the exit
channel or the end of the connection. The client, its watcher and every program
that writes to the disk are concurrent with all of them.

**What they share.** `workspaceMu` makes each change of document store and index
one critical section, for the handler and for the scan. Queries read the index
under the index's own lock only, and look for the text of a hit afterwards.
The disk is read by the scan, by `didClose`, by watched events and by queries, and
locked by nobody. Contexts, the stream's `Close` and the exit channel connect the
read loop with `Run`.

**What is hard.** A scan that read a file before an edit and writes the index
after it; a file that changes between two looks at it; changes nobody reports;
`exit`, a signal, a disconnect and a failing reply racing to decide what `Run`
returns; a registration that outlives its client; a search on a graph whose edges
depend on the disk. `PROJECT.json` lists these hazards line by line, with the
properties that would catch them.

## 2. Modules

```
IndexContract  <--implements--  Workspace  <--EXTENDS--  MCWorkspace       (3 .cfg)
      ^                             ^------EXTENDS-----  WorkspaceProofs
      |--- INSTANCE --- Queries  <--EXTENDS--  MCQueries, QueriesProofs   (1 .cfg)
Lifecycle      <--EXTENDS--  LifecycleProofs                              (2 .cfg)
SourceGraph    <--EXTENDS--  SourceGraphProofs                            (1 .cfg)
Diagnostics    <--EXTENDS--  DiagnosticsProofs                            (1 .cfg)
Positions      <--EXTENDS--  PositionsProofs                              (3 .cfg)
Formatting     <--EXTENDS--  MCFormatting, FormattingProofs               (1 .cfg)
Recursion      <--EXTENDS--  PositionsProofs, FormattingProofs
```

The modules that need no definitions for their constants are their own MC module:
their `.cfg` gives plain values.

### IndexContract
What a query may rely on, without locks or goroutines: `Edit`, `Close`, `Drop` and
`Sync` are one step each. An open buffer is indexed as of its last edit; the disk is
only ever read into the entry of a file that is not open, and with the text it holds
at that moment.

### Workspace
| State | Code |
|---|---|
| `docs`, `index`, `mu`, `scanEnabled` | `DocumentStore.docs`, `Index.entries`, `workspaceMu`, `settings.WorkspaceScanEnabled` |
| `hpc`, `huri`, `htree` | the read loop's goroutine inside a handler: its place, its URI, the tree it has |
| `scan`, `dirs`, `todo` | `scanWorkspaces` and the walk: directories not listed, files not visited |
| `spc`, `sfile`, `stree` | the scan's goroutine inside `indexWorkspacePath` |
| `disk`, `watching`, `events`, `writes` | the machine, the client's watcher and what it has reported |
| `missed` | history: files that changed while nobody watched and were not read since |

Each lock operation and each system call is a step. `didOpen`, `didChange` and
`didSave` are `OpenDocument`/`UpdateDocument`/`SaveDocument` and `IndexWrite`;
`didClose` is `CloseDocument` and then `CheckShellPath`, `ReadWorkspaceFile`,
`IndexWrite`, as for a changed file (`HandleDidChangeWatchedFiles`). A query is two
steps, `ReachableUsages` (the index, under its own lock) and `Reply` (the text,
without any). The scan is `ScanStart`, `ScanList`, `ScanCheck`, `ScanVisit`,
`ScanRead`, `ScanIndex`, `ScanDone`. Abstractions: a tree is the text it comes from
and whether the parser reported an error; a path is in one directory, which lies in
a root or not and is skipped by the walk or not; one hit of a query stands for all;
one changed file per event message (a message with several is handled like several,
with the lock released in between); roots do not overlap.

### Lifecycle
`main` is `Run`, `reader` is `conn.run` with the handler it calls, `scan` and
`registration` are the two background goroutines, `inbox`/`eof`/`owes` the client.
`sigterm` is the context given to `Run`, `cancelled` the cancel function of
`runCtx`, `closed` the stream, `connErr` the concrete type that `conn.err` holds (an
`atomic.Value` that panics on another type). Handlers that only answer or only
change documents are `HandleOther`. `CloseUnblocks` says whether closing stdin ends
a read that is blocked in it: true for a socket or a polled pipe, false for a
descriptor in blocking mode, which is what `os.Stdin` usually is.

### SourceGraph
`reachableURIs` with its `seen` and `queue`; `Stat` is one `os.Stat` of
`sourcedURIs`. The index is locked during the search and constant, the disk is not.
`commands` holds the literal `source f` and `. f` commands of the indexed files.
Of the commands of other files only those that name the current file are asked
about, because the others cannot change the result. `explored`, the files whose turn
has come, is history and read by properties only.

### Diagnostics
| State | Code |
|---|---|
| `docs`, `settings`, `disabled`, `codeActions` | `DocumentStore.docs`, `bashServer.settings`, `shellCheckRunner.disabled`, `bashServer.codeActions` |
| `toServer`, `toClient` | the two directions of the connection |
| `work` | the documents the handler at work has still to diagnose |
| `buffer`, `configured`, `asked`, `shown` | the client: its buffers, its last settings, its open request, what it shows |
| `tool`, `failures`, `healthy` | ShellCheck on this machine, its changes, and whether it has worked since the last configuration |

A handler takes its message in one step (`HandleText` for didOpen and didChange,
`HandleSave`, `HandleClose`, `HandleDidChangeConfiguration`, `HandleCodeAction`) and
then runs `Diagnose` for each document it has to lint: `SkipLint` (syntax error, or
ShellCheck switched off), `LintFails`, `LintSucceeds`. No other message is handled
in between, because the read loop runs a handler to its end; the client and the
machine do move. A result of ShellCheck is named by the text and the settings it was
computed with, and stands for its comments and the fixes they carry. The client
keeps to the protocol: it changes, saves and closes only what it has open and saves
the text it has sent.

### Positions
`encoding` is the negotiated encoding, `text` the client's document, `answer` the one
answer on its way. A text is a sequence of classes of characters, `Bytes` its UTF-8;
the server's operators (`LineStart`, `OffsetForPosition`, `OffsetForPositionBytes`,
`WordAtOffset`, `UTF16Len`, `PosForOffset`, `PosToLSP`, `CompletionStart`,
`ShellCheckPosition`, ...) work on bytes as the code does, the client's
(`ClientPosition`, `ClientPlace`) on characters, by the protocol's definition of a
position. The loops of the code are recursive functions, over the index in the text or
over the pair of place and line the loop has reached. The actions are the answers that carry ranges: `Completion`,
`PrepareRename`, `Locate` (what rename, references, highlight, definition and symbols
send for a name in the tree), `LocateStale` (the same when the file has been cut
since), `ShellCheck`. `NodePos` is the parser's position, whose line and column are 0
when they do not fit; the configurations set these limits low. Which stretches of word
characters are names the parser decides, so any of them may be one (`Names`), a part of a
word too: in `${foo-x}` the name is `foo`, and a scan of the text finds `foo-x`. The parser
ends a name at the next rune it keeps (`ParsedEnd`): before a `\r\n` it has skipped the
`\r`, so that the end is one byte further on than the end of the word.

### Formatting
`settings` is `bashServer.settings`, changed by `HandleDidChangeConfiguration`;
`editorconfig` the `.editorconfig` file of each directory from the document's upwards,
which anybody may `Write`; `FormatDocument` answers with the indent. A value of a
settings object is absent, null, of a wrong type or a value, because the decoder treats
the four differently, and not alike for each key. A line of an `.editorconfig` file is a
section header that matches the document or not, a `root` key, a style or a size (an
empty value included, which unsets what the same file said before). The two loops, over
the lines of a file and over the files from the outermost inwards, are the recursive
functions of `FormatForFile` and `EditorConfigFormat`.
`history`, the messages so far, is read by properties only.

### Queries
The environment is IndexContract, instantiated: buffers, disk and index move in every
way it allows, which is every way Workspace can move them. A text is a sequence of
tokens, the places where a name can stand, and the tree of a text is as many of them as
precede the first syntax error. "Other" tokens are occurrences that no walk looks at:
arithmetic, `for` and `read` variables, `unset`, quoted commands. A token's `name` is
what the tree has, its `word` what `WordAtOffset` reads there. Queries change nothing,
so each is an operator (`References`, `Highlight`, `Definition`, `Hover`,
`DocumentSymbols`, `WorkspaceSymbols`, `Completion`, `PrepareRename`) that the invariants
evaluate in every state; `Rename` is an action because its edits are compared with the
texts. What `reachableURIs` finds is taken as the least set closed under links, which
SourceGraph shows the search to find.

## 3. Runs

| Run | Configuration | Asks |
|---|---|---|
| `workspace_files` | `MCWorkspace.cfg` | a script without extension in the root, a library in a directory the walk skips, 2 texts, 2 disk writes |
| `workspace_elsewhere` | `MCWorkspaceElsewhere.cfg` | the library in the root, the script outside it, 1 write, with fairness |
| `shebang_race` | `MCWorkspaceShebang.cfg` | section 5 |
| `lifecycle` | `Lifecycle.cfg` | 4 messages of 8 kinds, a signal, a disconnect, stdin not unblocked by `Close`, with fairness |
| `signal_in_flight` | `LifecycleSignal.cfg` | section 5 |
| `source_graph` | `SourceGraph.cfg` | every graph on 3 files, 1 change of the disk |
| `diagnostics` | `Diagnostics.cfg` | 2 documents, 4 messages in flight, 1 change of the ShellCheck installation, with fairness |
| `positions` | `Positions.cfg` | texts of up to 4 characters of 5 classes, every cursor, every name, every cut, every place of a comment, 2 encodings |
| `long_line`, `past_end` | `PositionsLongLine.cfg`, `PositionsPastEnd.cfg` | section 5 |
| `formatting` | `MCFormatting.cfg` | 2 settings messages of 4 objects, 3 directories with 5 files or none, among them a second `root` key and an emptied style |
| `queries` | `MCQueries.cfg` | 3 files with 3 texts |

**What they show.**
- `OpenBufferIndexed`, `OutsideRootsForgotten`, `OpenHitMatchesText`: neither the
  scan nor an event puts the disk's text in the place of an open buffer's, closed
  documents outside the roots are forgotten, and a query never mixes the tree of one
  text of an open document with another text.
- `Converged`: when the scan is over and all events are handled, the index holds for
  every closed file what the disk holds, except for files in `missed`. Those exist
  because the scan starts before the client has registered its watcher; the code
  takes no second look, and the model says exactly which files that concerns.
- `StaleHitExplained`: a closed file may be converted with a text its tree was not
  parsed from, but only while a report of the change is on its way (or was missed).
- `ImplementsContract`: with `VisibleIndex` as the refinement mapping (a critical
  section counts as done when it has read what it writes), Workspace implements
  IndexContract.
- `ExitStatus`, `NoOrphans`, `OnlySignalsCrash`, `ShutdownFreezes`: `Run` returns nil
  only for an exit after an accepted shutdown; when it returns, nothing is left
  running; without a signal and with file roots the connection never stores two
  errors of different types (the only panics in the model are this one and that of
  `Filename`: that no other code of a handler panics is not shown); after shutdown only exit has an effect.
- `UnrelatedExcluded`, `ComponentFound`, `ExploredOnce`: the search stays within the
  undirected component of what was on the disk at some time during the search,
  finds all of the component of what was there all the time, and gives each file one
  turn at most, whatever leads back to it. `Terminates`: it ends.
- `QuickFixFits`: the fixes in an answer are edits of the text the client had when it
  asked, whatever else was in the channels. `ShownIsBuffer` and `FixesAreShown`: when
  all is handled the client shows the problems of its current texts under its last
  settings, nothing for what it has closed, and the fixes on offer are those of the
  problems it shows. `HealthyMeansLinted`: a configuration change heals a runner that
  had been disabled because ShellCheck was missing.

- `CompletionReplacesPrefix`, `EditsCoverNames`, `PrepareMatchesRename`: what the
  client replaces when it accepts a completion or applies a rename is the prefix or the
  name, whatever precedes and follows it on the line; the range that prepareRename marks
  is, as the client reads it, the one that rename edits, although the two are computed
  differently. As they are sent they differ in one place: before a `\r\n` the end of an
  edit is past the end of the line, by exactly one unit, and the client, which takes such
  a position for the end of the line, replaces the name all the same.
  `StaleRangesOrdered`: a position of an older tree is never looked up out of the bounds
  of the text of today, and no range comes out reversed. `ShellCheckFits`: so it is for
  the ranges of comments, which count code points.
- `LastMentionCounts`: each setting is what the last message that validly set it said;
  `IndentNeverUnset`: null does not take an indent back (it means tabs);
  `IndentExplained`: without an indent in the settings, the nearest `.editorconfig` line
  about the document counts, style and size each on its own, and else the options.
- `RenameExplained`: an edit that misses an occurrence, or edits something else, or an
  unrelated file, needs a stale or a broken file in the search. `LookupsAgree`: the
  queries, each with a walk of its own, never contradict each other about a word.

**Bounds.** Two texts are enough to tell stale from fresh, and one text each with and
without a shebang (or a syntax error) takes both sides of every test of a text. Two
writes are needed for a file to change between two looks and again after the second
(the scan's check and its read, the event and the read); edits, saves, closes and
queries are not bounded. Two files let one operation be under way while another file
is read, and each run puts them in different kinds of directories. Four messages
hold initialize, initialized, shutdown and exit, in any order and with any of them
replaced by another; a signal and a disconnect happen once. Three files are the least with a path of length two, and
with a cycle that is not a pair. Four messages in a channel hold open, edit, request
and edit again, or configure between open and close; one change of the installation
covers a tool that appears, goes or breaks, and all three are initial states. Four
characters put a character of two UTF-16 units or a line end before and after an
identifier, and make a line of four-byte characters longer than `ColMax`; two- and
three-byte characters behave like one of the classes in the run (1 unit, or several
bytes). Two messages are the least where a later one could lose what an earlier one
set, and three directories where a file in the middle hides the outermost one. Three
files let a rename reach a third file through the second. No symmetry is used: the runs are small enough, and several check liveness.

**Fairness.** Workspace: goroutines are scheduled (weak fairness of the handler's and
the scan's own steps); `sync.Mutex` hands over to a goroutine that has waited for
long (its starvation mode), so a goroutine that waits for `workspaceMu` gets it
although others go on taking it (strong fairness of `ScanVisit` and of handling an
event). Lifecycle: goroutines that can run do run. SourceGraph: the search waits for
nobody. Positions, Formatting and Queries state safety only. Diagnostics: the server runs, the client reads what it is sent, and every
ShellCheck process ends; the last is an assumption about ShellCheck, since the code
sets no timeout. Nothing is assumed about what a client sends or answers, about
signals or about who writes to the disk. `CHECK_DEADLOCK FALSE` is set where the
system really stops: when `Run` has returned, the search has ended, or the client
has sent all it may.

**Mutants.** A definition named `X_Change` before `X` is a plausible wrong version of
`X` (a dropped guard, a missing reset, a swapped order). No behaviour uses it; with
it in the place of `X`, the property `PROJECT.json` names is violated.

## 4. Proofs

| Theorem | Statement |
|---|---|
| `WorkspaceProofs!TypeCorrect`, `OpenBuffersStayIndexed`, `OutsidersAreForgotten`, `OpenHitsMatchText` | `Spec => []TypeOK`, `[]OpenBufferIndexed`, `[]OutsideRootsForgotten`, `[]OpenHitMatchesText` |
| `WorkspaceProofs!Refinement` | `Spec => ImplementsContract` |
| `WorkspaceProofs!Convergence`, `StaleHitsExplained` | if a path has one URI: `Spec => []Converged`, `[]StaleHitExplained` |
| `WorkspaceProofs!ScanEnds`, `EventsGetHandled` | every step of the scan, and of a handler at work, lowers a measure no other step touches; only writes to the disk make events |
| `WorkspaceProofs!NobodyIsStuck` | while the scan or an event is left to do, handler or scanner can go on |
| `LifecycleProofs!TypeCorrect`, `ExitStatusCorrect`, `NothingLeftBehind`, `CrashNeedsSignal`, `ShutdownIsFinal` | `Spec => []TypeOK`, `[]ExitStatus`, `[]NoOrphans`, `[]OnlySignalsCrash`, `ShutdownFreezes` |
| `LifecycleProofs!WorkIsBounded`, `ExitShortens` | every step of the process lowers a measure, which nothing raises after the end of input, or after `exit` |
| `LifecycleProofs!OnlyStdinBlocks`, `ExitNeverCrashes` | until `Run` returns a goroutine can go on or the read loop waits for input; `Spec => [](exit => ~crashed)` |
| `SourceGraphProofs!TypeCorrect`, `NothingUnrelated`, `NothingMissed`, `NoSecondTurn` | `Spec => []TypeOK`, `[]UnrelatedExcluded`, `[]ComponentFound`, `[]ExploredOnce` |
| `SourceGraphProofs!SearchGetsShorter` | every step of the search lowers a measure, which no change of the disk raises |
| `SourceGraphProofs!ComponentSymmetric` | the component is a symmetric relation |
| `DiagnosticsProofs!TypeCorrect`, `FixesFitText` | `Spec => []TypeOK`, `[]QuickFixFits` |
| `DiagnosticsProofs!BuffersAreShown`, `OfferedFixesAreShown`, `ConfigurationHeals` | `Spec => []ShownIsBuffer`, `[]FixesAreShown`, `[]HealthyMeansLinted` |
| `DiagnosticsProofs!MessagesGetHandled` | every step of the server, and every answer the client reads, lowers a measure, which only a new message raises |
| `PositionsProofs!TypeCorrect`, `CompletionsExact`, `EditsExact`, `PreparedIsRenamed`, `StaleRangesInOrder`, `CommentsShown` | `Spec => []TypeOK`, `[]CompletionReplacesPrefix`, `[]EditsCoverNames`, `[]PrepareMatchesRename`, `[]StaleRangesOrdered`, `[]ShellCheckFits` |
| `PositionsProofs!PosForOffsetIs`, `OffsetForIs`, `CodePointOffsetIs` | what each conversion between offsets and positions gives, in every text |
| `PositionsProofs!ScanAndTreeAgree` | `PosForOffset(src, off) = PosToLSP(src, NodePos(src, off))` where the parser's limits allow |
| `PositionsProofs!StalePositionsInBounds` | `PosToLSP(now, NodePos(seen, off)) # Panic` for any two texts |
| `FormattingProofs!TypeCorrect`, `LastMention`, `IndentStays`, `IndentFromNearest` | `Spec => []TypeOK`, `[]LastMentionCounts`, `IndentNeverUnset`, `[]IndentExplained` |
| `QueriesProofs!TypeCorrect`, `RenameCorrect`, `AnswersAgree` | `Spec => []TypeOK`, `[]RenameExplained`, `[]LookupsAgree` |

They hold for every value of the constants under the named assumptions of the
modules: spellings name the paths they spell, `None` is no value, the bounds are
natural numbers, the characters of a text are those whose UTF-8 `Encode` gives, an
`.editorconfig` file is a sequence of lines. Every safety property the passing runs
check, each type invariant included, is proved. Each module has an inductive
invariant, proved preserved by every action.

- *Workspace.* The properties alone are not inductive: that the scan's `ScanIndex`
  does no harm depends on the file being closed since `ScanVisit` looked, which
  depends on the lock. `IInv` adds `LockDiscipline` (who holds the lock is where) and
  `HandlerSection`/`ScannerSection` (what a section found out when it had got the
  lock stays true until it writes the index). The refinement needs the same facts:
  `ScanRead` of a closed file is the contract's `Sync`, the later index write a
  stutter.
- *Lifecycle.* `ExitHandled` ties the flags to the place of the read loop, `Calm` says
  that without a signal `runCtx` is done and the stream closed only when the loop
  handles no message any more, so that no reply fails; `RunResult` ties what `Run`
  has decided to the flags it saw.
- *SourceGraph.* `SearchInv`: what is found stays in the component; a file that is
  seen is queued, being explored, or has all neighbours seen. When the queue is
  empty `seen` is closed under links, and the component is defined as what lies in
  every closed set, so both inclusions are proved without induction over paths.
- *Diagnostics.* `CatchesUp` speaks about the whole queue: after the first k messages
  the server will have the text that message k + 1 presupposes (`Told`). The lemmas
  `ToldAppend`, `ToldUnchanged`, `ToldChanged` and `ToldTail` say how sending and
  handling move it. With `OneRequest` and `FixesOfText` it gives `QuickFixFits`.
- *Workspace, convergence.* `CInv` gives a reason for all that is not up to date. What a
  closed file is indexed as, and what a section has read, is its text (`Fresh`), or a
  report is on its way, or the change was missed; a script that is not indexed is still
  to be visited, or reported, or in a section's hands. One fact is about the order of
  reports (`ReportsInOrder`): a deletion of a file that is there again is not the last
  report of it, for `removeWorkspaceFile` does not look at the disk. At rest no reason is
  left. The theorems assume `OneSpelling`; section 5 says what happens without it.
- *Diagnostics, what is shown.* A channel is read as a register: `Leaves(s, n, d, v)` says
  that after the first n messages of s the value is v, if it is d now. `Arrives` says so
  of the server's documents and settings, `WillShow` of what the client shows, which
  will be right for the server's documents (`Right`), except for documents the handler
  is still to diagnose; `Used` ties `healthy` to the runner. With empty channels the
  values that will be there are there.
- *Formatting.* `AppliedValue` and `MergedValue` say what one message does to one
  setting: it takes what the message mentions, and stays otherwise. Appending a message
  to `history` then moves the last mention of a setting or leaves it where it was;
  `LastMentionCounts` is inductive with the types. For `IndentExplained` the invariant is
  `AnswerCurrent` (whatever changes the settings or a file takes the answer away) and the
  work is in the two loops: after i lines a file's format has the value of the last of
  them that gives one (`LastOf`), after n directories the merged format has the nearest
  value (`NearestFrom`), so that what it ends with is what the lines say (`SaidIsNearest`,
  `NearestIsSaid`).
- *Queries.* Until it is sent, a rename's edits are what the index holds
  (`EditCurrent`), and an open file is indexed as its buffer (`OpenIndexed`, from the
  contract); `LookupsAgree` then says that each walk visits the same declarations, and
  `RenameExplained` that what is found through the index is what is related by the
  texts when no file in the search is stale or broken. `LeastExists` and
  `FirstHitExists` do for hits what `LeastNat` does below for offsets.
- *Recursion.* A recursive function of TLA+ is a chosen `f` with `f = [x \in X |-> ...]`:
  nothing is known of it until there is one. The library's theorems about recursion and
  induction take operators, which these provers cannot instantiate; `Recursion` proves
  their like for sets and functions. `LeastNat` comes from the well-foundedness of finite
  sets, `Induction` from it, and `RecursionExists` builds a solution size by size. The
  recursive definitions of Positions and Formatting are instances. The module holds lemmas
  only; it says nothing of the code.
- *Positions.* The inductive invariant `Inv` says that the answer on its way was computed
  from the text and with the encoding of now (`Answered`); the rest is about texts, and
  follows the code from bytes to characters. The offsets that matter are those of places
  between characters: the words the server scans for and the places a client means are
  such places (`WordBoundary`). The newlines before an offset and the line ends before a
  place are counted alike, so that server and client have the same lines, beginning at the
  same places. On a line the client's column is a sum of widths (`LineSum`) and the server's
  the walk of `UTF16Len` from rune to rune; both are the same for whole characters, which
  gives what `PosForOffset` sends (`PosForOffsetIs`), what `PosToLSP` sends where the parser's
  limits allow (`ScanAndTreeAgree`), what `OffsetForPosition` reads (`OffsetForIs`) and where
  a comment is (`CodePointOffsetIs`, over `LeadBytes`). Each property compares two positions
  of known places; the one position that is not a place, a name's end within a `\r\n`, is
  one unit after one (`ParsedEndPosition`), and the client clamps it to that. A file that has been cut may end inside a character; of it bounds and
  order are proved, for more bytes never give fewer units.

- *Why things end.* The prover cannot treat a liveness property, but what each of them
  rests on besides fairness is an action property or an invariant, and is proved: a
  measure that every step of those who have work lowers and nobody else raises, and, in
  Lifecycle and Workspace, that they do not wait for each other.

  | Liveness | Measure, in order of weight | Theorems |
  |---|---|---|
  | `ExitReturns`, `DisconnectReturns`, `RegistrationEnds` | a sum: six for each message to read (what reading and handling it and the goroutines it starts may cost), and the places each goroutine has yet to pass (`StepsLeft`, `ToGo`) | `WorkIsBounded`, `ExitShortens`, `OnlyStdinBlocks`, `ExitNeverCrashes` |
  | `Terminates` | files to find or to explore; commands to look at; neighbours to queue; the file whose turn it is (`GetsShorter`) | `SearchGetsShorter` |
  | `QuietEventually` | messages to read; documents to diagnose; answers to read (`GetsQuieter`) | `MessagesGetHandled` |
  | `SettlesEventually` | phases of the walk; directories to list; files to check; steps of a visit (`ScanGetsShorter`); events to handle and steps of a handler (`HandlerLeft`) | `ScanEnds`, `EventsGetHandled`, `NobodyIsStuck` |

  These theorems assume of `Uri`, `Dir` and `File` that they are finite, where a set of
  them is counted. `ExitNeverCrashes` needs an invariant of its own, `NoErrorYet`:
  a message is only handled while no error is stored, so that none is when `exit` is, and
  the error that ends the loop after it is the first one.

Only model-checked: the liveness properties themselves (that fairness and these measures
give them is the step that is missing), and the violations of section 5.

## 5. Where code and documentation disagree

| Run | What the model shows |
|---|---|
| `shebang_race` | the scan asks `IsShellPath` without the lock and does not ask again under it: a script that loses its shebang in between, and whose event is handled in between, is indexed for good |
| `signal_in_flight` | a signal during a call makes the reply fail, then the next read with an error of another type, and `atomic.Value.Store` panics |
| `long_line` | columns beyond 16383 do not fit the parser's position; `posToLSP` takes the 0 it gives for the first column, and a rename inserts the new name there |
| `past_end` | in UTF-8 a cursor past the end of a line is taken for a place on a later line; in UTF-16 it is clamped |

The quoted lines are in `PROJECT.json`. The models also show, without a run of its own:

- `indexParse` does not swallow a syntax error to nil, as the comment at
  `server.go:142-144` has it: the tree up to the error is indexed (`Workspace!Parse`,
  `Queries!Parse`; a file with an error is one of the exceptions of `RenameExplained`).
- A document whose URI the client escapes differently from `uri.File` would be indexed a
  second time by the scan (`ServerUri` and `ClientUri` of Workspace); `Convergence`
  therefore assumes one spelling.
- A workspace folder, or a document, that is no file URI is not skipped, as
  `initialize.go:143` has it: `Filename` panics (`Lifecycle!HandleNonFile`;
  `OnlySignalsCrash` excepts it).
- The ranges of names that rename, references, highlight, definition and symbols send end
  one unit past the end of the line when a `\r\n` follows the name, where the range of
  prepareRename ends at the end of the line (`EditsCoverNames`, `PrepareMatchesRename`).
  The protocol has the client take the one for the other.
- After a signal `Run` waits for a read loop that sits in a blocking read of stdin
  (`Lifecycle.cfg` checks `ExitReturns` and `DisconnectReturns` in that setting; nothing
  makes `Run` return after a signal alone).

## 6. Not modelled

- The context inside the walk (cancelled, it only ends the scan early), nested or
  overlapping roots, a write blocked on a full stdout, a second
  `initialize` that changes the roots under the scan,
  notifications that cannot be written, and clients that break the protocol.
- A lone carriage return, which the protocol takes for a line end and the server does
  not: Positions has `\n` and `\r\n`.
- What else the parser skips after or within a name: NUL bytes, backslashes that escape
  within backquotes, and line continuations (a backslash and a line end), with which the
  parser's end of a name is even further from the end of its characters.
- The end of the name of an assignment, which the parser computes from the name's column
  (`parser.go:1873`) and which is that of the word; names of other than word characters,
  which bash allows for functions (`a.b`).
- The `.editorconfig` files are read in one step in Formatting; the code reads them one
  after the other and may see a mixture when several change at that moment.
- The version of a document: the edits of a rename carry none, and whether a client that
  has typed on applies them is its affair.
- Which node of the syntax tree is a declaration or a usage is the input of Queries (the
  kind of a token); the parser, the formatter's printer and the matching of globs are
  functions in vendored code or of the standard library.
- Wording, symbol kinds, item details and documentation in answers; the table of
  capabilities.
- The logger, the command line, the constant tables and reading `PATH`: input and
  output only.

## 7. Plan

1. A composition of Workspace with Lifecycle: what is indexed when `Run` stops
   half-way through a scan.
2. Lone carriage returns in Positions.
3. Convergence with two spellings of a path: an invariant per spelling.
