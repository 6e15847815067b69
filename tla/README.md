# TLA+ verification of tailboard

tailboard is a terminal dashboard for logs. A *source* collects events (files
on disk, pi agent sessions, or an Axiom dataset) and answers queries; a Bubble
Tea program polls the source and draws panels and a log stream. This directory
holds TLA+ models of its core, the TLC configurations that check them, and
proofs that TLAPS checks.

Run everything from this directory: `tlc -config <Run>.cfg <MC module>` and
`tlapm <Module>_proofs.tla`. Paths below are relative to the repository.

## 1. Inventory

### 1.1 Components, their state and their operations

| Component | State | Operations |
|---|---|---|
| Tailer (`internal/source/tail.go`) | file table: per path its index, generation, device/inode, offset, `skipping`, `gone`, `unreadable`, `done`; `loading`; `started`, `stopped` | `discoverOnce`, `consider`, `pollOnce`, `readFrom`, `hydrate`, `progress`, `start`, `close` |
| Event store (`store.go`) | array of events in sequence order, `nextSeq`, side table of handler ids, level table | writers `appendBatch`, `dropFile`; readers `stream` and nine aggregate queries |
| Line handlers (`jsonl.go`, `pi.go`) | generic: none; pi: per file agent, session, context size, open tool calls | `handle` a line, `reset` a file; pi: `Agents` |
| File source (`jsonl.go`) | a store and a tailer | the `Source` interface: `Stream`, `Hydrate`, queries, `Close` |
| Axiom source (`axiom/`) | a client; no events are kept | the same interface over remote queries |
| Log buffer (`internal/ui/logs.go`) | array of twice the bound and the index of its oldest live row | `Append`, `isDup`, `Filtered` |
| Dashboard (`model.go`, `model_keys.go`) | source, epoch, stream cursor, log buffer, panels' results, time range, paused, mode, expanded row, presets, query error | `Update`: ticks, fetch results, hydrate results, keys, mouse |
| Presets (`presets.go`) | a map of nine slots and a file | load, save, next slot |
| Rendering (`view.go`, `charts.go`, ...) | none | model to text |
| Configuration, fields, command line (`config.go`, `fields.go`, `main.go`) | the parsed configuration | run once at start-up; `--check` |

### 1.2 How they interact

* The tailer runs one goroutine. It calls the line handler for each line and
  appends batches to the store. It calls `handler.reset` and `store.dropFile`
  when a file starts over. `tailer.mu` guards the file table, `store.mu` the
  store, `tailer.life` start and close, `piHandler.mu` the pi side table.
* The dashboard's loop is sequential. Everything slow runs in *commands* on
  other goroutines: a command captures the source, the epoch and its arguments
  when it is built, calls the source later, and its result comes back as a
  message later still.
* The stream is pulled: `Stream(cursor)` returns events and the next cursor;
  the dashboard keeps the cursor and appends the events to its log buffer.
* Other programs append to, rename, remove and truncate the files at any
  moment, without telling anyone.

### 1.3 What is hard

* *Check, then use.* The tailer stats a path, compares, and opens the path
  again; `hydrate` compares generations under a lock and opens the path after
  it; `Stream` samples `loading` before it locks the store.
* *Identity over time.* A path, an inode, a generation, an offset, a sequence
  number, a handler id and a position in an array all name "the same" line.
* *Two orders.* The first batch is chosen by event time, later ones by sequence
  number; the store is trimmed from the front and holed by `dropFile`.
* *Overtaking.* Polls, refreshes and hydrates overlap, fail and come back in any
  order, across pauses, modals, time ranges and source switches.
* *Stopping.* `close` may come at any moment and must wait exactly long enough.
* *Boundaries.* Rings, heaps, trims to 90 %, batches cut off by a limit.

`PROJECT.json` lists each such hazard at its line, with the properties that
would catch it, or why none does.

### 1.4 What makes each component correct

* Tailer: a ref identifies one line for ever; events enter the store in the
  file's order, once per generation; the handler never mixes generations;
  loading ends only when the backfill is in; each line that stays is read in
  the end; close returns, and nothing is appended after it.
* Store: sequence order, the side table parallel to the array, the capacity;
  a reader gets the newest events first and afterwards each event exactly once
  or not at all because it was dropped.
* Log buffer: it is a bounded list without recent repeats.
* Dashboard: nothing of a source that was left; no gap before the cursor; the
  modal shows its own row; the panels are refreshed after the backfill; events
  and time ranges get to the screen.
* Line framing: the lines found in a file, and the ones counted as too long, do
  not depend on where writes, polls and the buffer cut the bytes.
* pi source: the open tool calls of a file are exactly the unanswered ones; a
  report made while nothing happens is what the files say, of the lines whose
  events the cap has left; one made while lines come in never calls a result it
  has counted an orphan.
* Presets: a slot brings back the filter saved in it, over restarts; the
  stream's shortcut for "no filter" hides and shows what the filter would.
* Axiom source: no row comes twice, a row is passed over for few and known
  reasons, and the panels of one moment agree.
* Start-up: what the command line says is opened, wherever its words stand, and
  a source is opened with every key the file sets.

## 2. Modules

| Module | Role |
|---|---|
| `EventFeed` | what the store promises to readers of its stream: no arrays, cursors or locks |
| `EventStore` | `store.go`'s writers and `stream`, and `FileSource.Stream`; implements `EventFeed` |
| `EventStore_proofs` | order, identity, the first batch, no event twice, and the safety part of `EventFeed`, proved |
| `Queries` | `store.go`'s nine aggregate queries, as functions of the stored events |
| `SelectKth` | `percentileNearestRank` and `selectKth`, loop by loop |
| `Tailer` | the tailer goroutine, `close`, `hydrate`, and the disk |
| `Tailer_proofs` | types, refs, ingestion order, once per generation, the backfill, hydrate, handler state and close, proved |
| `LineFraming` | `readFrom` and `overLimit`, byte by byte |
| `BoundedLog` | what the log buffer promises: a plain bounded list |
| `LogBuffer` | the array with a head; implements `BoundedLog` |
| `Dashboard` | the update loop and its commands; takes its log from `BoundedLog` |
| `Dashboard_proofs` | nothing foreign, no gap, the modal and settling, proved |
| `PiSessions` | `piHandler`: its table, resets, and `Agents` |
| `PiSessions_proofs` | the side table, the orphans of a report, and the whole of a quiet one, proved |
| `Presets` | the stream's filter, its presets and their file |
| `Presets_proofs` | what a slot brings back and what the shortcut shows, proved |
| `AxiomSource` | the Axiom source's queries and its stream with a time for a cursor |
| `AxiomSource_proofs` | what its stream delivers and passes over, and that its panels agree, proved |
| `Startup` | arguments, env file, configuration, choice of the source, `Open`, the switcher |
| `Sequential_proofs` | `SelectKth`: bounds and result of the selection, and the percentile; `LogBuffer`: the array's bounds and the refinement; `LineFraming`: exact framing; `Startup`: the command line and the configuration; proved |
| `Sums`, `SumTheorems` | sums over finite sets; induction over numbers and facts about sums that the proofs share |
| `MCEventStore`, `MCTailer`, `MCDashboard`, `MCPiSessions`, `MCPresets`, `MCAxiomSource` | instances for TLC |
| `MCSequential` | `Queries`, `SelectKth`, `LineFraming`, `LogBuffer` and `Startup` in one instance |

The five parts of `MCSequential` each run on one goroutine or under one lock and
share nothing: each moves only while the other four are in their initial states,
so the run is the union of five small ones.

Composition is by abstraction. `Dashboard` uses `BoundedLog`, which `LogBuffer`
is shown to implement, and reads its source as a numbered stream, which is what
`EventStore` is shown to implement through `EventFeed`. `Tailer` keeps the store
as the set of events in it: numbering and dropping are what its properties need
of it, and trimming is `EventStore`'s.

Operators whose comment begins with *Fault:* are deliberately wrong versions of
the definition that follows. No specification uses them: put in that
definition's place they show which property notices.

### 2.1 EventStore

`events`, `ids`, `hasIds` and `nextSeq` are the fields of `store`; `hasIds` is
`ids != nil`. A store operation holds the lock from start to end and is one
action. `Stream` is two: `SampleReady` reads `progress().Loading`, and
`StreamEarly`, `StreamFirst` or `StreamNext` is the call of `store.stream` with
that value. An event carries its sequence number, file, time and the id its
handler gave it; messages, levels and fields play no part here. The history
variable `delivered` is what each reader was given.

The refinement mapping takes `owed` of a reader to be the stored events at or
after its cursor: `ImplementsFeed` then says that trims, drops and batches cut
off by the limit never skip or repeat an owed event.

### 2.2 Queries and SelectKth

A query holds the read lock, so each is an operator of the stored events, of the
time it is asked at and of its parameters; the loops that count are sets and
their cardinalities. Only appends are actions: what a trim or a drop leaves is a
store that appends can make as well. Names are numbers in the order of the
strings, with 0 for the empty one and for the placeholder it is shown as.

One query does change something: the selection behind p95 reorders an array of
its own in place. `SelectKth` has an action for each comparison of its scans and
for each exchange. The budget, `3 * bits.Len(n)` in the code, is any number: on
arrays that TLC can enumerate the code's never runs out.

### 2.3 Tailer

A file is a sequence of cells: a short line is one cell, a long one a `head` and
a `tail`, so that a file may end in a partial line and an offset may fall into
the middle of a later line. Inodes are numbered and never reused.

`pc` is where the goroutine is: after the stat (`rotation`), after the
comparison of identities (`truncation`), between the generation change and
`dropFile`/`reset` (`drop`), before `os.Open` (`open`), in the read loop
(`read`, `flush`), before `done` is set (`mark`), in discovery (`discover`,
`consider`), in `select`. Between any two, other programs may do anything that
`Environment` lists, `close` may be called, and `hydrate` may run. `fi` and `fd`
are the results of the stat and of the open, so that they may differ.

Reading one line is one step: a writer may append between two lines, and the
flush by age may fall anywhere.

### 2.4 LogBuffer

`items` and `head` are the fields; `cap(items)` is `2 * Max`. A batch is folded
through `AppendOne` event by event, as in the loop. `Lookback` is the 8 of
`isDup`.

### 2.5 Dashboard

`flight` holds the commands being run and the messages waiting for the loop.
`Run` and `Fail` end a command's call of the source; the `Receive` actions are
`Update` for its message. A message is received in any position, so results
overtake each other. `StreamTick` is `onStreamTick`, `Refresh` is `tickMsg` (and
`keyRefresh`), the `Key` actions are the keys that change what the properties
are about. The eight or nine fetches of a refresh capture the same things and
land the same way: they are one panel. `value` is `None` until a command has
read its source; `NoneAssumption` says that no result is `None`.

A source is the stream of its events, numbered from 1. A row is an event and the
epoch it was received in. History variables: `shown`, `firstAt`, `refreshed`.

### 2.6 LineFraming

A byte is text, a carriage return or a newline. `Turn` is one turn of
`readFrom`'s loop: `ReadSlice` returns a fragment with its newline, a full
buffer, or what there is (`Complete`, `BufferFull`, `EndOfFile`), and the
fragment is skipped, given up as over the limit, held, or the end of a line.
`held` is the length of `long`. A read error leaves a shorter fragment, which is
one of those `EndOfFile` allows. A writer may append before each turn.

### 2.7 PiSessions

`files` is `piHandler.files`, `batch` the events the tailer has not appended yet,
`store` the store's array. `HandleLine` is `processLine` and `handle`; `Flush` is
`appendBatch` with its cut at `max_events` (`Trimmed`, `Keep`); `Rotate` and `Truncate` are the two ways a file starts over, each
followed by `Reset`. `Agents` is two steps, as it takes the store's lock and then
the handler's: `Scan` and `ReadTable`. `read` and `old` are histories of lines,
`made` of the number of events; a line there has the sequence number that its
event gets, or would get if it made one (`seq`).
Lines have the kinds, the fields and the failures that `Agents` counts. `Without`
is `dropFile`'s loop, as a recursive function, so that it can be proved about;
`Absent` stands for a missing field, name or file, and is none of them.

### 2.8 Presets

`filter`, `items` and the file are what the keys, the commands and the disk
hold. A save is a command: `Create` empties the file, `Encode` writes the
snapshot taken when the key was pressed, `FailSave` is an error. Two saves under
way write over each other from the start of the file, each with an offset of its
own; `Overlay` lists what the result may decode to. `Quit` ends the process with
any save as far as it is, and `Start` reads the file again, or the one in the
legacy directory. The provider, operation and trace of a filter are one `pin`.

### 2.9 AxiomSource

Rows arrive at the service in any order of their times, up to a second ahead of
its clock. A query is what its APL asks for. Rows that tie in a `sort` come in
every order, so a panel is the set of the tables there may be. `Stream` is a
poll: rows after the cursor, oldest first, `TakeRows` of them, the cursor to the
newest time. `passed` is the history of rows that a poll had a reason to leave
behind: older than the first poll's start, late, or tied with the last row of a
full batch.

### 2.10 Startup

`phase` is how far `main` is: `args` (`reorderArgs` and the flag parser), `env`
(the env file), `config` (lookup, `Normalise`, defaults, validation), `resolve`
(`resolveSource`), `open`, then `check` or `running`. A launch (`world`) is what
is on the command line, in the environment, in the files and on the disk.
Configuration keys that are treated alike share one. While the dashboard runs,
`SwitchSource` opens any other source. `Reading` and `Ordering` are one turn of
the flag parser and of `reorderArgs`, in terms of what the arguments after it
say; `Arguments` are the words that occur on the command lines.

## 3. Runs

### 3.1 Runs that pass

| Run | Question | Instance and bounds |
|---|---|---|
| `Store` | array invariants; first batch; no event twice; refinement of `EventFeed`, liveness included | 2 files, 2 timestamps, ids and no ids, `MaxEvents` 3, `StreamLimit` 2, batches of up to 2, 4 sequence numbers; 150 thousand states |
| `TailerSafe` | refs, order, once per generation, handler state, windows of hydrate | 1 path with an old file at the start; all of create, delete, replace, truncate, 3 operations; 3 lines, short and long; 1 hydrate; 1.5 million states |
| `TailerLive` | backfill, close, eventual ingestion | 2 paths with files, one ending in a partial line; one deletion or replacement, 4 lines, 2 closers; 66 thousand states |
| `Dashboard` | nothing foreign, no gap, the modal, settling | 2 sources, one with a backfill, 3 events, batches of 1, 2 epochs, up to 3 commands, 1 failure; 2.5 million states |
| `DashboardLive` | events and time ranges get to the screen | 1 source with a backfill, 2 events, 2 ranges, up to 3 commands, 1 failure; 110 thousand states |
| `Sequential` | panels agree; the selection is right and ends; framing; the log buffer refines `BoundedLog`; the command line is obeyed and sources open as configured | 12 kinds of event, up to 3 stored, 2 presents, 2 windows; arrays of up to 5 of 3 values, budgets 1 and 9; files of up to 7 bytes, limit 2, buffer 2; buffer bound 4, lookback 2, batches of up to 3; every command line of up to 3 of 6 words, and a table of configurations, environments and env files; 66 thousand states |
| `PiSessions` | orphans; what a report says | 2 files, 4 lines of 5 kinds behind 3 headers, 1 start over, batches of 1, `MaxEvents` 2, up to 4 events, one report; 1.2 million states up to the symmetry of the files |
| `Presets` | slots; the shortcut | 2 sources, 3 slots, 2 saves, 4 rows, no legacy file, two of them, a broken one; 630 thousand states |
| `AxiomSource` | stream; panels | 4 rows of 7 kinds, batches of 2, bins of 2, a window of 4, the clock up to 8; 71 thousand states |

Why the bounds are enough:

* `Store`: four sequence numbers trim twice (3 to 2), let a cursor fall behind
  the trimmed range, and let a drop leave a hole; a batch of 2 of 3 is cut off.
* Tailer: three operations give every sequence such as replace, truncate,
  replace around one stat; for safety a second path would only be another
  independent file. For loading and close there are two, of which one is read
  while the other waits. The old file at the start is the one the backfill leaves
  out. Three lines give a line before, inside and after the window. `BatchMax` 2
  flushes both by length and by age. Closers and hydrates are in different runs:
  `hydrate` reads the file table and the disk, which `close` leaves alone, and
  writes nothing.
* Dashboard: two polls in flight are what overtaking needs; two epochs, since a
  message is compared with the present epoch only; batches of 1 make every
  backlog one that the limit cuts off. The bound on `flight` is looked at before
  a handler issues its commands, so that a full one never keeps a tick away
  for ever.
* `Sequential`: times stand at and next to every edge (window, hour, midnight,
  present bin, future), one present is aligned with the bins and one is not, and
  two of three events outrank the third or tie with it. Five values are two
  partitions and more; a budget of 1 sorts after the first partition, 9 is the
  code's for five values. With a limit and a buffer of 2, seven bytes hold a line
  over the limit across three buffers and a line behind it, or a line with more
  carriage returns than the limit. The buffer's bound exceeds the lookback, as in
  the code, and its array is copied back and filled again; every value is
  finite and nothing is cut off. Three arguments put a word before, between and
  after a flag and its value.
* `PiSessions`: four lines are a header, a call, its result and a call made
  again, in one file or spread over two. A third event cuts the store to one, and
  a fourth may follow. The tailer is the only writer, and
  what it does after a report does not change it: a behaviour ends with its
  report.
* `Presets`: two saves are what overtaking and overlapping need, and three slots
  put a free one between two taken ones. A slot saved in one run is read in the
  next, and saved from there.
* `AxiomSource`: with batches of 2, four rows make two full ones, or one cut
  inside rows that tie.

Deadlock is checked in the dashboard's and the presets' runs. In the others,
with the sequence numbers used up, the tailer closed and the disk at its bounds,
or a report made, there is nothing left to do.

### 3.2 Runs that find a violation

Each checks what a document says of the program, and finds a behaviour of the
code that does otherwise.

| Run | What it shows |
|---|---|
| `TailerVanished` | A file that goes away between the stat and the open is `unreadable`, not `gone`; nothing clears that, so a file created there later is never read (`tail.go:365`; `tail_test.go:405` "re-created file should be followed again"). |
| `PresetsRevealed` | A preset saved with a seeded level revealed loads as a filter that is not `Active`, though it shows more than the startup filter (`logs.go:132`; `logs.go:129`, `logs_test.go:177`). |
| `ChartSums` | Rows whose group is null, empty or `(none)` stand in several rows of one bin under one name; the chart keeps the last, so it does not sum to the total (`axiom.go:663`; `axiom.go:645`). |

The passing properties next to them say how far the code goes:
`EventuallyIngested` holds when a path is never empty between two files,
`ReadBack` for what a preset shows, and `ChartSums` unless a bin has two nameless
groups.

Further disagreements, found by models and allowed for in their properties:

* After a rotation between the stat and the open, the new file is read under the
  old generation, and again under the new one (`tail.go:363`): lines are read
  once *per generation*, as `OncePerGeneration` says.
* Between a rotation and the next poll, `hydrate` returns the new file's line at
  the old offset instead of a note (`tail.go:502`, `jsonl.go:176`).
  So it does after a truncation and a write that no poll has told apart from an
  append. `HydrateLagsOnly` says that these and the window between the lock and
  the open are the only ones.
* A refresh for the old time range that lands last stays under the new range's
  titles until the next tick (`model.go:461`, `CHANGELOG.md:16`). `RangeFollows`
  says that the panels follow *in the end*.
* A presets file that a crash cut off right after `os.Create` loads as no presets
  without an error (`presets.go:83`): `ReadBack` speaks of saves that were not cut
  off or overlapped.
* A line that fits but for its carriage returns at the end is skipped or not
  depending on where the reads cut it (`tail.go:464`): `Unclear` in `LineFraming`.

* The comment on `windowStart` gives a window an end at the present, `(start, now]`
  (`store.go:252`), while `inWindow` has none (`store.go:259`), as in the APL it
  mirrors. An event timed in the future is in the counts, the tables and the
  window's cost; it is in the charts only up to the end of the present bin, and
  not in today's or the trailing hour's cost. `PanelsAgree` says that counts and
  charts differ by exactly the events past that bin, and so does not hold the
  code to the comment.

And found by reading, in what the models abstract from or take as it is:

* `paths = []` of a pi source is replaced by the default, while the comment on
  `ApplyTypeDefaults` says that a list that is set stays (`pi.go`, `piDefaults`).
* `tailboard app.jsonl --source` takes `app.jsonl` for the flag's value, as the
  words are moved behind the flags first (`main.go`, `reorderArgs`).
* A `pi` source that the file replaces is still the fallback of the choice
  (`config.go:363`).
* The Axiom stream queries `_time` while its cursor takes the mapped time field,
  and its queries compare levels case-sensitively, while rows of the stream have
  them lowered (`axiom.go`).

### 3.3 Fairness

The other runs check safety only and assume none.

* Store: readers keep calling. The dashboard arms its stream tick again each
  time it fires. Nothing is assumed of the tailer.
* Tailer (`TailerLive`): the goroutine runs; its tickers keep ticking; `select` picks among
  ready cases at random, so a case ready again and again is picked in the end
  (strong fairness of the stop and discovery cases; polling also follows each
  discovery). Nobody has to change the disk, to close or to hydrate.
* Dashboard: each fetch has a deadline, so each command ends and its message
  reaches the loop; the oldest is never overtaken for ever. Both ticks fire
  again and again (strong fairness, as the bound on commands may disable them
  now and then; in the program nothing does). A backfill ends, which `Tailer`
  backs. No key is ever pressed of necessity.
* `Sequential`: only that a selection under way goes on.

## 4. Proofs

### 4.1 Theorems

| Module | Theorem | For every value of the constants |
|---|---|---|
| `EventStore_proofs` | `StoreSequenceOrder` | the array is in sequence order and below `nextSeq` |
| | `StoreIdentityKept` | every event is shown under the id of its own line |
| | `StoreTypes` | type correctness |
| | `StoreNoEventTwice` | a reader is given no event twice |
| | `StoreFirstBatchIsNewest` | a first batch is the newest events of the store, in order |
| | `StoreImplementsFeed` | the store implements `EventFeed!FeedSafety` |
| | `StoreInvariant`, `StreamInvariant` | the inductive invariants behind them |
| `Sequential_proofs` | `QueriesPanels` | panels drawn from one store at one time agree |
| `Sequential_proofs` | `SelectInBounds` | no access of `selectKth` is outside its range |
| | `SelectCorrect` | the array is the input reordered, with the right value at `k` |
| | `SelectPercentile` | what is returned is the nearest-rank percentile |
| `Tailer_proofs` | `TailerTypes` | type correctness |
| | `TailerIngestionOrder` | sequence numbers follow generation and offset |
| | `TailerRefIdentifies` | a ref identifies one event |
| | `TailerHandlerOneGeneration` | the handler's state is of one generation |
| | `TailerNothingAfterClose` | no step changes the store after close returned |
| | `TailerOncePerGeneration` | no line enters twice under one generation |
| | `TailerHydrateLagsOnly` | hydrate errs only in the windows that the property names |
| | `TailerBackfillComplete` | when loading is over, the backfill is in the store |
| `Sequential_proofs` | `FramingExact` | the lines handed on and counted are those of the bytes |
| | `FramingInvariant` | the inductive invariant behind it |
| `Sequential_proofs` | `BufferArrayDiscipline` | head and length of the array stay in their bounds |
| | `BufferImplementsLog` | the array implements `BoundedLog` (`ImplementsLog`) |
| `Sequential_proofs` | `StartupCommandLine` | what the command line asks for is what is opened, wherever its words stand |
| | `StartupAsConfigured` | a source is opened with every key the file sets |
| | `StartupInvariant` | the inductive invariant behind them |
| `Dashboard_proofs` | `DashboardTypes` | type correctness |
| | `DashboardNothingForeign` | nothing of a source that was left is shown |
| | `DashboardNoGap` | the log reaches the cursor without a gap |
| | `DashboardModalOwnRow` | the modal shows its own row, and its hydrate is on its way |
| | `DashboardSettled` | once settled, the refresh was made, is on its way or failed |
| | `DashboardInvariant` | the inductive invariant behind them |
| `AxiomSource_proofs` | `AxiomNoRowTwice` | no row is delivered twice, and rows come in order |
| | `AxiomSkipsExcused` | a row is passed over only for one of the known reasons |
| | `AxiomInvariant` | the inductive invariant behind them |
| | `AxiomPanels` | the panels of one moment agree about the rows of the window |
| `PiSessions_proofs` | `PiOrphansAreUnanswered` | a file's open calls are its unanswered ones |
| | `PiNoAnsweredOrphan` | a report has no orphan whose result it has counted |
| | `PiInvariant` | the inductive invariant behind them |
| | `PiQuietReport` | a report during which nothing happens is what the files say, of the lines the cap has left |
| | `PiQuietInvariant` | the inductive invariant behind it |
| `Presets_proofs` | `PresetsReadBack` | a slot brings back the filter saved in it |
| | `PresetsFiltered` | the shortcut shows the rows that match, and no others |
| | `PresetsInvariant` | the inductive invariant behind the first |

The assumptions are those named in the modules, each no more than what the code
or the model's bounds say of its constants; TLC evaluates all of them in the
runs. `StartAssumption` of `Tailer` says that the files that are there at the
start consist of whole lines, the last one perhaps cut off, that no line is in
two places, and that a path names one of them or none. `StartupAssumption` says
that arguments are words and that a table of the file has the keys of a source.

### 4.2 Arguments

*Store.* `IdentityKept` alone is not inductive: `SideTable` pads by the length
of the array, so the tables must be parallel (`SideTableParallel`), and trimming
and dropping keep them so because both are cut at the same indices. Sequence
order needs `nextSeq` above everything stored. Trims are `SubSeq`, drops are
increasing listings of indices: one lemma each. For the readers, the cursor is a
bound between what was delivered and what was not (`ReaderInv`): everything
delivered is of a sequence number below it, and all numbers differ. A first
batch is what `newestHeap` keeps: by induction on the events it has passed, the
heap holds as many as it may, and none that was left out is newer than one in
it (`HoldsNewest`). The refinement maps `owed` of a reader to the stored events from its cursor
on. A writer's step adds to what is owed or takes away what it removed from the
store; a call of `stream` takes away what it delivers, as the array's order makes
a batch cut off by the limit a prefix of what was owed.

*Queries.* A query is a function of the store, so the invariant says only what is
stored, and the rest is about operators. An order that leaves no ties among the
rows of a table has a ranking (`RankingExists`, from a last element by induction
on the size), a ranking has each row once (`RankingIs`), and its first `n` rows
are all there are, or nothing left out comes before one of them (`FirstShows`).
So each of the tables needs that its order leaves no ties, which for clients and
costs holds because no name has two rows (`OneEach`). The list of newest issues
is what the heap has kept, event by event (`NewestHeld`). In the charts, an event
of the window that is not past the last bin falls in one bin, and `BinIndex`
finds it, also in a window that begins before time 0 (`BinIndexIs`). A series is then a count by classes (`SeriesSum`), and so is a bin
of the segmented chart: the class of an event is the rank of its client, or the
rest (`SegmentsSum`). Costs by name sum up to the whole; leaving out the names
whose sum is not positive makes the sum no smaller, and leaves it as it is when
no cost is negative (`BillShows`).

*SelectKth.* The range always holds the value wanted, and nothing crosses its ends:
what is before it is not greater, what is after it not smaller. During a
partition the elements passed are on their side of the pivot, and *an element
ahead stops each scan*: first the median of three, then the elements exchanged
last. The latter is what keeps the scans, which check no bounds, in the range;
when they have met, everything between them equals the pivot. Exchanging two
elements of the range, or sorting it, keeps a bijection with the input. It maps
the places up to `k` into the values at or below the one at `k`, and those from
`k` on into the ones not below it. So that value has at least `Rank` values of the
input at or below it, each smaller one has fewer, and `Rank` is the least number
that makes up the percentage.

*Tailer.* Refs and order follow from where the goroutine stands. The invariant
says that each event ever ingested of a path lies at or before the pair
(generation, offset) of that path, that the unflushed batch continues it in
increasing offsets, and that `nextSeq` is above every number given. A new
generation restarts the offset and stays above all pairs. `HandlerOneGeneration`
needs that between the generation change and the reset (`pc = "drop"`) no line
is handled. For close, a caller that returned either saw the goroutine exited,
or saw it never started, which `stopped` then keeps so.

`OncePerGeneration` speaks of lines, not of offsets. `LinesInv` says that a line
begins in one cell of one inode, and `SeenInv` that what was read of a line has
the offset of that cell, though the line may be on no disk any more. Two events
of one line have then one offset, and if generation and path are the same too,
`TailerRefIdentifies` makes them one. `HydrateLagsOnly` needs besides that a path
never goes back to an inode that it left: the lines of a file's present
generation are in inodes between the one the table holds for the path and the
one the path leads to (`TracksInv`). When these two are the same, the line is
there (`HydrateInv`).

For `BackfillComplete`, an inode of the start still begins with what it held, or
holds nothing of it any more (`StartDiskInv`). A path that still leads to its file
of the start, with its lines (`Kept`), is followed there and never starts over
(`Followed`); every line before its offset is in the store or in the batch
(`Reaped`); and the first pass gets to its end before `loading` is over
(`Underway`). As an inode is never reused and a line never written twice, a line
of the start that is still on disk is in such a file.

*Line framing.* The reader is at the start of a line, with the fragments held
from there free of newlines, or it skips a line whose start it has passed and of
which it has seen too much to take it (`CutOK`). Bytes without a newline add no
line to those consumed, and a newline adds exactly the one that it ends
(`NoLineAdded`, `LineAdded`). What was handed on lies before the line under way
(`HandedBefore`), so nothing is handed on twice. When a skipped line ends, it is
too long after all, or it is one of the doubtful, of which the bounds of the count
know (`GivenUp`, `CountDoubtful`). That its length is well defined, as the least
cut behind which there are only carriage returns, is `TrimIs` and `TrimUnique`.

*Log buffer.* `BufferOK` is a predicate of the record of array and head: its
bounds, and that the cells before the head are blank and no others. Copying back leaves the live part as it
is, a push adds one and drops the oldest at the bound, and `isDup` sees the last
rows of the live part, wherever the array puts them. A batch is a fold: it
takes as many steps of `BoundedLog!Add`, by induction.

*Dashboard.* The properties speak of what has arrived; the invariant speaks of
everything that is on its way (`FetchInv`). A command of the present epoch reads
the present source, and starts from a cursor that the log has reached; a batch
has no gap between the cursor it was asked for and the one it returns; a hydrate
carries its own row. A switch of the source makes every command under way one of
a past epoch, which the loop drops. A batch that lands late and overlaps the log
is appended again without a gap, since it began where the log had been.

*Axiom source.* Rows delivered are ordered by time and at or before the cursor,
and a poll asks for rows after it, so none comes twice. A row behind the cursor
was delivered or has its excuse: a query answers with every row after the cursor
unless its batch is full, and then what it leaves out is no older than the last
row it takes (`BatchTakes`).

`AxiomPanels` needs of the rows no more than that the window is finite. Every
table is made of the classes of a part of the window, which cover it and do not
overlap, so counts of classes add up to the count of the part. A table cut at the
number of rows in the window is cut nowhere, as there are no more classes than
rows (`TablesWhole`); one cut lower has no class that is lighter than one left out
(`CutTableShowsMost`). In the segmented chart, table rows of one bin overwrite
each other by name. With at most one nameless value the name tells the value
(`NameIsGroup`), nothing is overwritten (`KeptIsWindow`), and the sum over all
names in a bin splits into the top and the rest (`ChartWhole`). The groups left
out of the costs sum to nothing or less (`CostWhole`).

*pi source.* The orphans of a file are a function of the lines read from it:
exactly the calls that wait (`Holds`), with the time of the last such call.
A line keeps this whatever its kind (`OrphansHold`): its calls begin to wait, its
result ends a wait. For reports, an event in the store or the batch is of a line
that the handler has been told of, in the present generation or an older one
(`Told`), so a result that a scan has seen is in the lines of the file
(`SeenKnown`), and an orphan found after it was called again later.

`PiQuietReport` compares two computations: `Agents` goes over the events in the
store and the table, the property over the lines of the files, which it takes
with their history. The invariant (`QuietInv`) holds them together. The events
stored and waiting stand one-to-one and in order for the lines from some line on,
but for lines that make no event (`Tells`); an event says of its line what the
handler makes of it (`Says`). A line taken adds to both sides, a flush moves an
event, a file that starts over takes its lines to the past, and the drop takes
the events of one file out and leaves the others matched (`LeftIn`). A cut at the
cap keeps a suffix of the store; as the matching keeps the order, these events
stand for the lines from a later one on (`TrimTells`). Sequence numbers that grow
are as far apart as they are many (`Climb`): so if any line is left out, more than
`max_events` events were made, and the lines left out come before the last
events that the cap keeps (`MayStart`, `StoreTells`). A table entry is what the
lines of its file make of it (`EntryTells`), except while its file is being reset.
A scan records when it was made; while no line has been taken since, it is the
scan of the present store (`ScanFresh`), because stamps only go forward
(`Forward`). Then counts and sums over events are those over lines, as both are
sums over sets that are matched one-to-one (`SumBijection`).

*Presets.* While no save has overlapped another or been cut off, either no save
is under way, and what a new start would read is what the slots were told
(`DiskKeeps`); or one is, with the snapshot of the present slots, and a file that
it has emptied holds nothing else (`SaveKeeps`); and the slots on the screen are
those told, unless a broken legacy file kept them empty, which was said
(`ShownKeeps`). For the shortcut, a row passes the loop of `Filtered` exactly when it matches, and the
list has as many rows as match, each at its place (`ShowsMatching`); a filter that
is its seed, with nothing else set, matches what the shortcut keeps
(`AllMatch`).

*Start-up.* The parser is asked about the reordered arguments, `Asked` about the
mixed ones. Both are recursions from the back, so the proof goes from the back:
whatever flags and words a tail of the arguments is reordered to, parsing these
flags with *any* words behind them gives what the tail says of its flags, with
these words for its paths (`Carried`); each kind of argument keeps that, and the
words reordered are the words read (`ParseSaid`, `ReorderReads`). The rest is an
invariant with a conjunct for each phase (`StartupInv`): the options are what was
asked, the configuration is the file's normalised, the source chosen is the one
asked for, every other source is valid, and what is opened is what is in the
configuration. Opening applies the defaults a second time; defaults of defaults
set nothing new and replace no key that is set.

*Sums and induction.* Induction is over natural numbers, by a least
counterexample: `LeastElement` from the well-foundedness of `<`, then
`SetInduction` for the set of numbers that have the property. Recursive functions
(`AddAll`, `newestHeap`'s heap, `AppendBatch`, `Without`, the readings of the
command line) are first shown to exist, as lists of their values up to any number
(`RecursionExists`, `CountdownExists`). A sum is a fold of the community modules,
which picks the elements of a set in an order of its own; `IterRemove` shows by
induction on the size of the set that the order does not matter. From it follow
the laws that the panels and the report need: an element more (`SumRemove`), a
one-to-one match (`SumBijection`), sums and counts by class (`SumByClass`,
`CountByClass`), a set split in two (`SumSplit`).

### 4.3 Model-checked only

* Liveness under fairness, which is beyond the prover: the liveness part of
  `ImplementsFeed`, `EventuallyIngested`, `CloseReturns`, `EventShown`,
  `RangeFollows` and `SelectEnds`.

## 5. Abstractions

* Cells of a file are of equal size in `Tailer`, where lines that are blank, too
  long or no JSON are left out, except that the rest of a line cut in front is
  no object. The limit on the length of a line, and blank lines, are in
  `LineFraming`.
* Only `ErrNotExist` is modelled of the errors of `os.Stat` and `os.Open`:
  permissions do not change. A hydrate cancelled by its context is the
  dashboard's failed hydrate.
* Inode numbers are not reused, and no two paths name one file.
* `gen` is a natural number; 2^32 rotations are not reached.
* The store's cap is not in `Tailer`.
* Axiom's cursor is a time, which `Dashboard` does not model: a source without a
  backfill is one whose rows come with their full object.
* Only the source on the screen publishes events in `Dashboard`.
* The dashboard's focus, scrolling, mouse, toasts and copies are left out: they
  do not touch the state of section 2.5. Filters do neither, and are in
  `Presets`, where a prompt is what is committed at its end.
* In `PiSessions` a file that starts over is noticed at once: the windows of
  noticing are `Tailer`'s. The locks are the atomicity of the steps. Texts and
  labels of events are left out.
* In `Presets` the file is what it decodes to; that a cut-off TOML file does not
  decode to part of the presets is the encoder's single write.
* `AxiomSource` takes the service's language to mean what it says. Latencies and
  the text of queries are left out; a failed poll changes nothing.
* `Startup` does not parse TOML, time layouts or field paths, and takes a launch
  as given: files do not change while it runs.
* Costs are whole numbers; floating-point rounding is left out.

## 6. Not modelled

Rendering (a pure function to text), the mapping of JSON fields to events
(`fields.go`, `genericHandler`), the decoding of TOML, the generator of sample
data, the text of Axiom queries and its escaping, the capability table. Counters
for the footer. A file rewritten in place that has outgrown the old offset by
the next poll is read on from there (`tail.go:336`): the model does so too, and
nothing is promised of it that a property could state.

## 7. Plan

One composition is left to build: `Tailer`, `EventStore` and a reader in one
instance, with the line of a ref followed from the file to the reader.
