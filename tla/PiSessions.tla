----------------------------- MODULE PiSessions -----------------------------
(***************************************************************************)
(* The pi source (internal/source/pi.go): the tailer's goroutine turns     *)
(* every line of a session file into an event and folds it into a side     *)
(* table of the file, while Agents reads the store and the table one after *)
(* the other, each under a lock of its own.                                *)
(*                                                                         *)
(* A line is the part of its JSON object that piHandler looks at.  How     *)
(* files are found, and which bytes make a line, is modelled in Tailer and *)
(* LineFraming; here a line is there when it is read, and a file that      *)
(* starts over is noticed at once.                                         *)
(***************************************************************************)
EXTENDS Integers, Sequences, FiniteSetsExt, Sums

CONSTANTS
  Files,        \* session files
  FirstLines,   \* what may stand in a file's first line: see Line
  Lines,        \* what may stand in any other
  Absent,       \* the value of a field that is not there
  Base,         \* Base[c]: the last element of the path c
  Nows,         \* times of reports, and of reading a line without a timestamp
  Hour, Day,    \* an hour, and a day, which starts at its multiples
  Lookback,     \* the window of the panel
  OrphanAfter,  \* orphan_after
  MaxBatch,     \* batchMax
  MaxEvents,    \* max_events
  MaxLines,     \* bound: lines read, and events made
  MaxResets     \* bound: files that start over

Types == {"session", "assistant", "toolResult", "user", "system", "compaction", "usage",
          "router", "model_change", "session_info", "other", "blank"}

\* type stands for type, role and customType together, "blank" for what is no
\* JSON object; failed for a stopReason of error or aborted, for isError, and
\* for a choice by fallback.
Line ==
  [type : Types, cwd : DOMAIN Base \cup {Absent}, ts : Nat \cup {Absent}, calls : SUBSET STRING,
   call : STRING \cup {Absent}, failed : BOOLEAN, tokens : Nat \cup {Absent},
   cost : Nat \cup {Absent}, model : STRING]

ASSUME PiAssumption ==
  /\ FirstLines \cup Lines \subseteq Line
  /\ \A line \in FirstLines \cup Lines : IsFiniteSet(line.calls)
  /\ IsFiniteSet(Files)
  /\ Absent \notin Files \cup STRING /\ \A c \in DOMAIN Base : Base[c] # Absent
  /\ Nows \subseteq Nat
  /\ {Hour, Day, Lookback, OrphanAfter, MaxBatch, MaxEvents} \subseteq Nat \ {0}
  /\ {MaxLines, MaxResets} \subseteq Nat

VARIABLES
  made,       \* history: the events made so far
  read,       \* history: the lines taken from each file, see HandleLine
  old,        \* history: such lines of the files it replaced, with the agent
  gen,        \* tailFile.gen
  resetting,  \* the file between noticing its new start and reset, or Absent
  batch,      \* events of the current file that are not in the store yet
  store,      \* store.events
  files,      \* piHandler.files
  report      \* a call of Agents

tailVars == <<made, read, old, gen, resetting, batch, store, files>>
piVars == <<tailVars, report>>

Maximum(a, b) == IF a > b THEN a ELSE b

------------------------------------------------------------------------------
(***************************************************************************)
(* One line.                                                               *)
(***************************************************************************)
NewFile == [agent |-> Absent, bad |-> FALSE, orphans |-> <<>>, newestTs |-> 0, contextTokens |-> 0]

\* The entry of file f, made from its first JSON line.
FileState(f, line) ==
  IF f \in DOMAIN files THEN files[f]
  ELSE IF read[f] = <<>> /\ line.type = "session" /\ line.cwd # Absent
         THEN [NewFile EXCEPT !.agent = Base[line.cwd]]
         ELSE [NewFile EXCEPT !.bad = TRUE]

Kind(line) ==
  IF line.type \in {"system", "model_change", "session_info"} THEN "other" ELSE line.type

Level(line) ==
  CASE line.failed /\ line.type \in {"assistant", "toolResult"} -> "error"
    [] line.failed /\ line.type = "router"                      -> "warn"
    [] line.type = "compaction"                                 -> "warn"
    [] line.type \in {"session", "system", "other"}             -> "debug"
    [] OTHER                                                    -> "info"

\* The file index of an event's ref is also its id's.  call is the field
\* toolCallId.
Event(f, line, ts) ==
  [file |-> f, gen |-> gen[f], ts |-> ts, kind |-> Kind(line), level |-> Level(line),
   client |-> FileState(f, line).agent,
   fallback |-> line.type = "router" /\ line.failed,
   toolCalls |-> IF line.type = "assistant" THEN Cardinality(line.calls) ELSE 0,
   call |-> IF line.type = "toolResult" THEN line.call ELSE Absent,
   cost |-> IF line.type \in {"assistant", "compaction", "usage"} THEN line.cost ELSE Absent,
   costDim |-> IF line.type \in {"assistant", "usage"} THEN line.model ELSE ""]

Calls(line) == IF line.type = "assistant" THEN line.calls \ {""} ELSE {}

\* Fault: the result of a failed tool does not settle its call.
ResolvedWell(line) == IF line.type = "toolResult" /\ ~line.failed THEN {line.call} ELSE {}

Resolved(line) == IF line.type = "toolResult" THEN {line.call} ELSE {}

\* Fault: a call made again keeps the time it was made first.
OrphansFirst(orphans, line, ts) ==
  [id \in (DOMAIN orphans \cup Calls(line)) \ Resolved(line) |->
     IF id \in DOMAIN orphans THEN orphans[id] ELSE ts]

\* The calls that wait for their result, after the line, and since when.
Orphans(orphans, line, ts) ==
  [id \in (DOMAIN orphans \cup Calls(line)) \ Resolved(line) |->
     IF id \in Calls(line) THEN ts ELSE orphans[id]]

Folded(fs, line, ts) ==
  [fs EXCEPT !.newestTs = Maximum(@, ts),
             !.contextTokens = IF line.type = "assistant" /\ line.tokens # Absent
                                 THEN line.tokens ELSE @,
             !.orphans = Orphans(@, line, ts)]

SetFile(f, fs) == [g \in DOMAIN files \cup {f} |-> IF g = f THEN fs ELSE files[g]]

\* processLine and handle.  The table is up to date before the batch is in
\* the store.  A line is kept with its time and with the sequence number that
\* appendBatch gives its event, or would.
HandleLine(f, line) ==
  /\ resetting = Absent
  /\ Len(batch) < MaxBatch /\ (batch # <<>> => batch[1].file = f)
  /\ made < MaxLines
  /\ MapThenSumSet(LAMBDA g : Len(read[g]) + Len(old[g]), Files) < MaxLines
  /\ LET fs == FileState(f, line)
     IN  \E ts \in IF line.ts = Absent THEN Nows ELSE {line.ts} :
           /\ read' = [read EXCEPT ![f] = Append(@, [line |-> line, ts |-> ts, seq |-> made])]
           /\ \/ line.type = "blank" /\ UNCHANGED <<files, batch, made>>
              \/ /\ line.type # "blank" /\ fs.bad
                 /\ files' = SetFile(f, fs) /\ UNCHANGED <<batch, made>>
              \/ /\ line.type # "blank" /\ ~fs.bad
                 /\ files' = SetFile(f, Folded(fs, line, ts))
                 /\ batch' = Append(batch, Event(f, line, ts))
                 /\ made' = made + 1
  /\ UNCHANGED <<old, gen, resetting, store, report>>

\* What is kept of a store that has outgrown max_events.
Keep == Maximum(1, (MaxEvents * 9) \div 10)

\* Its newest events.
Trimmed(s) == IF Len(s) > MaxEvents THEN SubSeq(s, Len(s) - Keep + 1, Len(s)) ELSE s

\* appendBatch.  The table of the handler knows nothing of what is cut.
Flush ==
  /\ batch # <<>>
  /\ store' = Trimmed(store \o batch)
  /\ batch' = <<>>
  /\ UNCHANGED <<made, read, old, gen, resetting, files, report>>

------------------------------------------------------------------------------
(***************************************************************************)
(* Files that start over.                                                   *)
(***************************************************************************)

\* The agent of the header that a file's lines s start with.
AgentIn(s) ==
  IF s # <<>> /\ s[1].line.type = "session" /\ s[1].line.cwd # Absent
    THEN Base[s[1].line.cwd] ELSE Absent

AgentOf(f) == AgentIn(read[f])

Restart(f) ==
  /\ resetting = Absent /\ batch = <<>> /\ read[f] # <<>>
  /\ MapThenSumSet(LAMBDA g : gen[g], Files) < MaxResets
  /\ read' = [read EXCEPT ![f] = <<>>]
  /\ gen' = [gen EXCEPT ![f] = @ + 1]
  /\ resetting' = f
  /\ UNCHANGED made

\* The lines taken from file f, with the agent.
Taken(f) ==
  [n \in DOMAIN read[f] |->
     [line |-> read[f][n].line, ts |-> read[f][n].ts, seq |-> read[f][n].seq, agent |-> AgentOf(f)]]

\* Another file takes its place: its events stay.
Rotate(f) ==
  /\ Restart(f)
  /\ old' = [old EXCEPT ![f] = @ \o Taken(f)]
  /\ UNCHANGED <<batch, store, files, report>>

\* What is left of s without the events of file f.
Without(s, f) ==
  LET kept[n \in 0..Len(s)] ==
        IF n = 0 THEN <<>>
        ELSE IF s[n].file = f THEN kept[n - 1] ELSE Append(kept[n - 1], s[n])
  IN  kept[Len(s)]

\* It is cut off: its events go, those of the files it replaced too.
Truncate(f) ==
  /\ Restart(f)
  /\ old' = [old EXCEPT ![f] = <<>>]
  /\ store' = Without(store, f)
  /\ UNCHANGED <<batch, files, report>>

\* Fault: the table keeps what it knew of the file.
ResetNothing ==
  /\ resetting # Absent
  /\ resetting' = Absent
  /\ UNCHANGED <<made, read, old, gen, batch, store, files, report>>

Reset ==
  /\ resetting # Absent
  /\ files' = [f \in DOMAIN files \ {resetting} |-> files[f]]
  /\ resetting' = Absent
  /\ UNCHANGED <<made, read, old, gen, batch, store, report>>

------------------------------------------------------------------------------
(***************************************************************************)
(* Agents.                                                                 *)
(***************************************************************************)
Midnight(now) == now - (now % Day)

\* What Agents gathers of agent a in its scan of the store.
Scanned(a, now) ==
  LET E == {i \in DOMAIN store : store[i].client = a}
      W == {i \in E : store[i].ts > now - Lookback}
      Of(kind) == {i \in W : store[i].kind = kind}
      Paid(S) == {i \in S : store[i].cost # Absent}
      Spent(S) == SumOver([i \in S |-> store[i].cost])
  IN  [lastSeen    |-> Max({store[i].ts : i \in E}),
       spendToday  |-> Spent({i \in Paid(E) : store[i].ts \in Midnight(now)..now}),
       spendHour   |-> Spent({i \in Paid(E) : store[i].ts \in (now - Hour)..now}),
       compactions |-> Cardinality(Of("compaction")),
       toolErrors  |-> Cardinality({i \in Of("toolResult") : store[i].level = "error"}),
       toolCalls   |-> SumOver([i \in Of("assistant") |-> store[i].toolCalls]),
       fallbackN   |-> Cardinality({i \in Of("router") : store[i].fallback}),
       fallbackD   |-> Cardinality(Of("router")),
       models      |-> [m \in {store[i].costDim : i \in Paid(W)} \ {""} |->
                          Spent({i \in Paid(W) : store[i].costDim = m})]]

Unseen ==
  [lastSeen |-> 0, spendToday |-> 0, spendHour |-> 0, compactions |-> 0, toolErrors |-> 0,
   toolCalls |-> 0, fallbackN |-> 0, fallbackD |-> 0, models |-> <<>>]

\* How far the tailer has come.
Stamp == [f \in Files |-> <<gen[f], Len(read[f])>>]

\* The scan.  "seen" and "stamp" are history: the tool results scanned, and
\* how far the tailer had come, if it was between two passes.
Scan(now) ==
  /\ report.pc = "idle"
  /\ report' =
       [pc |-> "scanned", now |-> now,
        rows |-> [a \in {store[i].client : i \in DOMAIN store} |-> Scanned(a, now)],
        seen |-> {<<store[i].file, store[i].gen, store[i].call>> : i \in DOMAIN store},
        stamp |-> IF batch = <<>> /\ resetting = Absent THEN {Stamp} ELSE {}]
  /\ UNCHANGED tailVars

\* Calls of file f counted as orphans.
Overdue(f, now) == {id \in DOMAIN files[f].orphans : files[f].orphans[id] < now - OrphanAfter}

\* The newest of the files F; which of two that tie is up to the map's order.
NewestOf(F) == {f \in F : \A g \in F : files[g].newestTs <= files[f].newestTs}

\* The files of the side table that can be told, those of one agent, and the agents.
Usable == {f \in DOMAIN files : ~files[f].bad}
FilesOf(a) == {f \in Usable : files[f].agent = a}
TableAgents == {files[f].agent : f \in Usable}

\* The report's row of one agent, given the newest file of each agent of the table.
TableRow(a, newest) ==
  [scan    |-> IF a \in DOMAIN report.rows THEN report.rows[a] ELSE Unseen,
   orphans |-> SumOver([f \in FilesOf(a) |-> Cardinality(Overdue(f, report.now))]),
   overdue |-> UNION {{<<f, gen[f], id>> : id \in Overdue(f, report.now)} : f \in FilesOf(a)},
   session |-> IF a \in TableAgents THEN newest[a] ELSE Absent,
   context |-> IF a \in TableAgents THEN files[newest[a]].contextTokens ELSE 0]

\* The side table, and the path of the newest file, which its index stands for.
ReadTable ==
  /\ report.pc = "scanned"
  /\ \E newest \in [TableAgents -> Usable] :
       /\ \A a \in TableAgents : newest[a] \in NewestOf(FilesOf(a))
       /\ report' = [report EXCEPT
                       !.pc = "done",
                       !.rows = [a \in DOMAIN report.rows \cup TableAgents |-> TableRow(a, newest)]]
  /\ UNCHANGED tailVars

PiInit ==
  /\ made = 0
  /\ read = [f \in Files |-> <<>>] /\ old = read
  /\ gen = [f \in Files |-> 0]
  /\ resetting = Absent /\ batch = <<>> /\ store = <<>> /\ files = <<>>
  /\ report = [pc |-> "idle"]

\* A behaviour ends with its report: what the tailer does later, it may do as
\* well without having been asked.
PiNext ==
  /\ report.pc # "done"
  /\ \/ \E f \in Files : \E line \in IF read[f] = <<>> THEN FirstLines ELSE Lines : HandleLine(f, line)
     \/ Flush \/ Reset
     \/ \E f \in Files : Rotate(f) \/ Truncate(f)
     \/ \E now \in Nows : Scan(now)
     \/ ReadTable

PiSpec == PiInit /\ [][PiNext]_piVars

------------------------------------------------------------------------------
(***************************************************************************)
(* Properties.                                                             *)
(***************************************************************************)

\* A call in line n of s that no later line repeats or answers.
Waiting(s) ==
  {w \in UNION {{<<n, id>> : id \in s[n].line.calls \ {""}} : n \in DOMAIN s} :
     /\ s[w[1]].line.type = "assistant"
     /\ \A m \in (w[1] + 1)..Len(s) :
          /\ s[m].line.type = "assistant" => w[2] \notin s[m].line.calls
          /\ s[m].line.type = "toolResult" => s[m].line.call # w[2]}

\* A file's orphans are the calls among the lines taken from it since it last
\* started over, in a file with a header, that have no result yet, with the
\* times of the last such calls (handle, reset).
OrphansAreUnanswered ==
  \A f \in Files \ {resetting} :
    LET orphans == IF f \in DOMAIN files THEN files[f].orphans ELSE <<>>
    IN  IF AgentOf(f) = Absent
          THEN orphans = <<>>
          ELSE {<<id, orphans[id]>> : id \in DOMAIN orphans}
                 = {<<w[2], read[f][w[1]].ts>> : w \in Waiting(read[f])}

\* Agents scans the store before it reads the table, and handle brings the
\* table up to date before the event is in the store, so a report never counts
\* a call as an orphan whose result it has itself counted, unless the id was
\* called again.
NoAnsweredOrphan ==
  report.pc = "done" =>
    \A a \in DOMAIN report.rows :
      \A o \in report.rows[a].overdue \cap report.seen :
        \E n, m \in DOMAIN read[o[1]] :
          /\ n < m
          /\ read[o[1]][n].line.call = o[3]
          /\ o[3] \in Calls(read[o[1]][m].line)

\* All lines taken from the files and from those they replaced, and where they are.
History == [f \in Files |-> old[f] \o Taken(f)]
Items(H) == UNION {{<<f, n>> : n \in DOMAIN H[f]} : f \in Files}
At(H, i) == H[i[1]][i[2]]

\* Those whose events come at first or later.
Since(H, first) ==
  [f \in Files |-> [n \in {m \in DOMAIN H[f] : H[f][m].seq >= first} |-> H[f][n]]]

\* The cap may have dropped every event before first: there were more than
\* max_events, and those it keeps come at first or later.
MayStart(first) == first = 0 \/ (made > MaxEvents /\ first + Keep <= made)

\* The newest time in the lines s, and the context of their last assistant turn.
NewestIn(s) == Max({0} \cup {s[n].ts : n \in {m \in DOMAIN s : s[m].line.type # "blank"}})
Turns(s) == {n \in DOMAIN s : s[n].line.type = "assistant" /\ s[n].line.tokens # Absent}
ContextIn(s) == IF Turns(s) = {} THEN 0 ELSE s[Max(Turns(s))].line.tokens

\* The lines that say something of agent a, those of one type in the window, and
\* those that charge it something at from or later, or in model m.
About(H, a) == {i \in Items(H) : At(H, i).agent = a /\ At(H, i).line.type # "blank"}
Typed(H, a, t, now) ==
  {i \in About(H, a) : At(H, i).line.type = t /\ At(H, i).ts > now - Lookback}
CostSince(H, a, from, now) ==
  {i \in About(H, a) : /\ At(H, i).line.type \in {"assistant", "compaction", "usage"}
                       /\ At(H, i).line.cost # Absent /\ At(H, i).ts \in from..now}
CostOn(H, a, m, now) ==
  {i \in Typed(H, a, "assistant", now) \cup Typed(H, a, "usage", now) :
     At(H, i).line.model = m /\ At(H, i).line.cost # Absent}
Costs(S, H) == SumOver([i \in S |-> At(H, i).line.cost])

\* The scan r has the numbers of agent a that the lines H add up to.
ScanTells(r, H, a, now) ==
  /\ r.spendToday = Costs(CostSince(H, a, now - (now % Day), now), H)
  /\ r.spendHour = Costs(CostSince(H, a, now - Hour, now), H)
  /\ r.lastSeen = Max({0} \cup {At(H, i).ts : i \in About(H, a)})
  /\ \A m \in DOMAIN r.models : r.models[m] = Costs(CostOn(H, a, m, now), H)
  /\ r.compactions = Cardinality(Typed(H, a, "compaction", now))
  /\ r.toolErrors = Cardinality({i \in Typed(H, a, "toolResult", now) : At(H, i).line.failed})
  /\ r.toolCalls = SumOver([i \in Typed(H, a, "assistant", now) |-> Cardinality(At(H, i).line.calls)])
  /\ r.fallbackN = Cardinality({i \in Typed(H, a, "router", now) : At(H, i).line.failed})
  /\ r.fallbackD = Cardinality(Typed(H, a, "router", now))

LateCalls(s, now) == {w \in Waiting(s) : s[w[1]].ts < now - OrphanAfter}

\* The row r has the calls overdue in the agent's files, and its newest session.
TableTold(r, rd, a, now) ==
  LET own == {f \in Files : AgentIn(rd[f]) = a}
  IN  /\ r.orphans = SumOver([f \in own |-> Cardinality(LateCalls(rd[f], now))])
      /\ own # {} =>
           /\ r.session \in {f \in own : \A g \in own : NewestIn(rd[g]) <= NewestIn(rd[f])}
           /\ r.context = ContextIn(rd[r.session])

RowTells(r, H, rd, a, now) == ScanTells(r.scan, H, a, now) /\ TableTold(r, rd, a, now)

RowsTell(rows, H, rd, now) ==
  /\ DOMAIN rows = ({At(H, i).agent : i \in {j \in Items(H) : At(H, j).line.type # "blank"}}
                      \cup {AgentIn(rd[f]) : f \in Files}) \ {Absent}
  /\ \A a \in DOMAIN rows : RowTells(rows[a], H, rd, a, now)

\* A report made while nothing happens says of each agent what its files say
\* (README, "pi agent sessions"): the spend of today and of the hour, what
\* happened in the window, the calls overdue, and the context of the newest
\* assistant turn in the newest session.  The last two come from all lines
\* since the files started, the others from the lines, of replaced files too,
\* whose events are left: the newest ones, and no fewer than max_events leaves
\* when it drops the oldest.
QuietReport ==
  report.pc = "done" /\ Stamp \in report.stamp =>
    \E first \in 0..made :
      MayStart(first) /\ RowsTell(report.rows, Since(History, first), read, report.now)

==============================================================================
