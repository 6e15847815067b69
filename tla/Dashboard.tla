------------------------------ MODULE Dashboard ------------------------------
(***************************************************************************)
(* The update loop of the dashboard (internal/ui/model.go, model_keys.go): *)
(* a model that only the loop changes, and commands that run beside it.    *)
(* A command captures the source, the epoch and its arguments when it is   *)
(* built, reads the source at some later moment, and its result comes back *)
(* as a message later still; commands overtake each other freely.          *)
(*                                                                         *)
(* A source is the stream of its events, numbered 1, 2, ...; a row of the  *)
(* log panel is an event together with the epoch it was received in.  The  *)
(* eight fetches of refreshAll capture the same things and land the same   *)
(* way, and are one panel here.                                            *)
(***************************************************************************)
EXTENDS Naturals, Sequences, SequencesExt

CONSTANTS
  Sources,      \* names the switcher offers
  First,        \* the source the dashboard starts with
  Following,    \* file sources: they backfill, report progress and hydrate rows
  Ranges,       \* timeRangeOptions, in the order T cycles through them
  None,         \* nil
  StreamLimit,  \* most events one Stream call returns
  BufferSize,   \* log_buffer_size
  Lookback,     \* rows isDup looks at
  Pressed,      \* bound: the keys the user presses
  MaxEvents,    \* bound: events per source
  MaxEpoch,     \* bound: sources adopted
  MaxFlight,    \* bound: commands and messages on their way when the loop issues more
  MaxFailures   \* bound: fetches that fail

Keys == {"pause", "range", "enter", "escape", "switcher"}

ASSUME DashboardAssumption ==
  /\ First \in Sources
  /\ Following \subseteq Sources
  /\ Ranges \in Seq(Range(Ranges)) /\ Ranges # <<>>
  /\ StreamLimit \in Nat \ {0}
  /\ BufferSize \in Nat \ {0}
  /\ Lookback \in Nat
  /\ Pressed \subseteq Keys
  /\ MaxEvents \in Nat
  /\ MaxEpoch \in Nat \ {0}
  /\ MaxFlight \in Nat
  /\ MaxFailures \in Nat

VARIABLES
  \* The sources.
  published,     \* published[s]: number of the newest event of s
  loading,       \* loading[s]: the backfill of s is still running
  \* The model.
  name, epoch, settled,
  log, cursor, paused,
  timeRange, panel, queryErr,
  mode, expandedLog, expandLoading,
  \* Commands being run, and messages that wait for the loop, oldest first.
  flight,
  failures,      \* fetches that failed so far
  \* History of the current epoch: the events that were ever appended to the
  \* log, how far the source was when a first batch was taken, and whether
  \* a refresh of the panels from the complete store has come back.
  shown, firstAt, refreshed

sourceVars == <<published, loading>>
streamVars == <<log, cursor, shown, firstAt>>
panelVars  == <<panel, refreshed>>
modalVars  == <<mode, expandedLog, expandLoading>>
vars == <<sourceVars, name, epoch, settled, streamVars, paused, timeRange, panelVars, queryErr,
          modalVars, flight, failures>>

Row     == [epoch : 1..MaxEpoch, event : 1..MaxEvents]
Results == [epoch : 1..MaxEpoch, range : Range(Ranges), complete : BOOLEAN]

Modal   == [row : Row, raw : Row \cup {None}]
Batch   == [events : Seq(Row), next : 0..(MaxEvents + 1)]

ASSUME NoneAssumption == None \notin Row \cup Results \cup Modal \cup Batch

\* A command of each kind: what it captures, and what its message carries
\* once it has read its source.
Command(kind, args, values) ==
  [kind : {kind}, epoch : 1..MaxEpoch, src : Sources, arg : args,
   state : {"running", "failed", "done"}, value : values \cup {None}]

Fetch == Command("logs", 0..(MaxEvents + 1), Batch)
           \cup Command("panel", Range(Ranges), Results)
           \cup Command("hydrate", Row, Row)

TypeOK ==
  /\ published \in [Sources -> 0..MaxEvents]
  /\ loading \in [Sources -> BOOLEAN]
  /\ name \in Sources
  /\ epoch \in 1..MaxEpoch
  /\ settled \in BOOLEAN
  /\ log \in Seq(Row)
  /\ cursor \in 0..(MaxEvents + 1)
  /\ paused \in BOOLEAN
  /\ timeRange \in Range(Ranges)
  /\ panel \in Results \cup {None}
  /\ queryErr \in BOOLEAN
  /\ mode \in {"normal", "expand", "switcher"}
  /\ expandedLog \in Modal \cup {None}
  /\ expandLoading \in BOOLEAN
  /\ flight \in Seq(Fetch)
  /\ \A i \in DOMAIN flight : flight[i].state = "done" <=> flight[i].value # None
  /\ Len(flight) <= MaxFlight + 1
  /\ failures \in 0..MaxFailures
  /\ shown \subseteq 1..MaxEvents
  /\ firstAt \in 0..MaxEvents
  /\ refreshed \in BOOLEAN

------------------------------------------------------------------------------
(***************************************************************************)
(* Commands.                                                               *)
(***************************************************************************)
Running(kind, ep, src, arg) ==
  [kind |-> kind, epoch |-> ep, src |-> src, arg |-> arg, state |-> "running", value |-> None]

FetchLogs == Running("logs", epoch, name, cursor)

\* Fault: the panels are always fetched for the first range.
RefreshAllFirst(ep, src, range) == <<Running("panel", ep, src, Ranges[1])>>

RefreshAll(ep, src, range) == <<Running("panel", ep, src, range)>>

\* Hands cmds, two at most, to the runtime.
Issue(cmds) ==
  /\ Len(flight) < MaxFlight
  /\ flight' = flight \o cmds

Init ==
  /\ published = [s \in Sources |-> 0]
  /\ loading = [s \in Sources |-> s \in Following]
  /\ name = First
  /\ epoch = 1
  /\ settled = FALSE
  /\ log = <<>>
  /\ cursor = 0
  /\ paused = FALSE
  /\ timeRange = Ranges[1]
  /\ panel = None
  /\ queryErr = FALSE
  /\ mode = "normal"
  /\ expandedLog = None
  /\ expandLoading = FALSE
  /\ flight = RefreshAll(1, First, Ranges[1])
  /\ failures = 0
  /\ shown = {}
  /\ firstAt = 0
  /\ refreshed = FALSE

------------------------------------------------------------------------------
(***************************************************************************)
(* The sources, and the commands that read them.                           *)
(***************************************************************************)
\* Only the source on the screen: what another gathers meanwhile, it has when
\* its backfill is read.
Publish(s) ==
  /\ s = name
  /\ published[s] < MaxEvents
  /\ published' = [published EXCEPT ![s] = @ + 1]
  /\ UNCHANGED <<loading, name, epoch, settled, streamVars, paused, timeRange, panelVars,
                 queryErr, modalVars, flight, failures>>

FinishBackfill(s) ==
  /\ loading[s]
  /\ loading' = [loading EXCEPT ![s] = FALSE]
  /\ UNCHANGED <<published, name, epoch, settled, streamVars, paused, timeRange, panelVars,
                 queryErr, modalVars, flight, failures>>

Rows(ep, from, to) == [i \in 1..(to - from + 1) |-> [epoch |-> ep, event |-> from + i - 1]]

\* Fault: the next batch starts after the newest event, not after the last
\* one of a batch that the limit cut off.
StreamedSkip(f) ==
  LET last == published[f.src]
      to   == IF f.arg + StreamLimit - 1 <= last THEN f.arg + StreamLimit - 1 ELSE last
  IN  IF f.arg = 0
        THEN [events |-> <<>>, next |-> IF loading[f.src] THEN 0 ELSE 1]
        ELSE [events |-> Rows(f.epoch, f.arg, to), next |-> last + 1]

\* Fault: the event at the cursor counts as seen.
StreamedAfter(f) ==
  LET last == published[f.src]
      to   == IF f.arg + StreamLimit <= last THEN f.arg + StreamLimit ELSE last
  IN  IF f.arg = 0
        THEN [events |-> <<>>, next |-> IF loading[f.src] THEN 0 ELSE 1]
        ELSE [events |-> Rows(f.epoch, f.arg + 1, to), next |-> to + 1]

\* Stream: the newest events for a zero cursor, once the backfill is over;
\* else the next ones after the cursor.
Streamed(f) ==
  LET last == published[f.src]
      from == IF f.arg # 0 THEN f.arg
                ELSE IF last > StreamLimit THEN last - StreamLimit + 1 ELSE 1
      to   == IF from + StreamLimit - 1 <= last THEN from + StreamLimit - 1 ELSE last
  IN  IF f.arg = 0 /\ loading[f.src]
        THEN [events |-> <<>>, next |-> 0]
        ELSE [events |-> Rows(f.epoch, from, to), next |-> to + 1]

Answer(f) ==
  CASE f.kind = "logs"    -> Streamed(f)
    [] f.kind = "panel"   -> [epoch |-> f.epoch, range |-> f.arg, complete |-> ~loading[f.src]]
    [] f.kind = "hydrate" -> f.arg

\* A command reads its source, and its message is on the way.
Run(i) ==
  /\ i \in DOMAIN flight
  /\ flight[i].state = "running"
  /\ flight' = [flight EXCEPT ![i].state = "done", ![i].value = Answer(flight[i])]
  /\ UNCHANGED <<sourceVars, name, epoch, settled, streamVars, paused, timeRange, panelVars,
                 queryErr, modalVars, failures>>

\* An error, or the deadline of the fetch.
Fail(i) ==
  /\ i \in DOMAIN flight
  /\ flight[i].state = "running"
  /\ failures < MaxFailures
  /\ failures' = failures + 1
  /\ flight' = [flight EXCEPT ![i].state = "failed"]
  /\ UNCHANGED <<sourceVars, name, epoch, settled, streamVars, paused, timeRange, panelVars,
                 queryErr, modalVars>>

------------------------------------------------------------------------------
(***************************************************************************)
(* Update: messages.                                                       *)
(***************************************************************************)
Same(old, new) == old = new

Buffer == INSTANCE BoundedLog WITH
  Batches <- {}, Size <- BufferSize, Recent <- Lookback, Same <- Same, log <- log

Message(i) == i \in DOMAIN flight /\ flight[i].state # "running"

\* Fault: messages of every epoch are taken.
IsStaleNever(f) == FALSE

\* A result built under an earlier epoch is dropped.
IsStale(f) == f.epoch # epoch

ReceiveStale(i) ==
  /\ Message(i)
  /\ IsStale(flight[i])
  /\ flight' = RemoveAt(flight, i)
  /\ UNCHANGED <<sourceVars, name, epoch, settled, streamVars, paused, timeRange, panelVars,
                 queryErr, modalVars, failures>>

\* A failed fetch is the query error; the panel it was for stays.
ReceiveError(i) ==
  /\ Message(i)
  /\ ~IsStale(flight[i])
  /\ flight[i].kind # "hydrate"
  /\ flight[i].state = "failed"
  /\ queryErr' = TRUE
  /\ refreshed' = (refreshed \/ flight[i].kind = "panel")
  /\ flight' = RemoveAt(flight, i)
  /\ UNCHANGED <<sourceVars, name, epoch, settled, streamVars, paused, timeRange, panel,
                 modalVars, failures>>

ReceiveLogs(i) ==
  /\ Message(i)
  /\ ~IsStale(flight[i])
  /\ flight[i].kind = "logs"
  /\ flight[i].state = "done"
  /\ LET f == flight[i] IN
     /\ log' = Buffer!AddAll(log, f.value.events)
     /\ cursor' = IF f.value.next # 0 THEN f.value.next ELSE cursor
     /\ shown' = shown \cup {f.value.events[n].event : n \in DOMAIN f.value.events}
     /\ firstAt' = IF f.arg = 0 /\ f.value.next > firstAt + 1 THEN f.value.next - 1 ELSE firstAt
  /\ flight' = RemoveAt(flight, i)
  /\ UNCHANGED <<sourceVars, name, epoch, settled, paused, timeRange, panelVars, queryErr,
                 modalVars, failures>>

ReceivePanel(i) ==
  /\ Message(i)
  /\ ~IsStale(flight[i])
  /\ flight[i].kind = "panel"
  /\ flight[i].state = "done"
  /\ panel' = flight[i].value
  /\ refreshed' = (refreshed \/ flight[i].value.complete)
  /\ flight' = RemoveAt(flight, i)
  /\ UNCHANGED <<sourceVars, name, epoch, settled, streamVars, paused, timeRange,
                 queryErr, modalVars, failures>>

\* Fault: any hydrated object fills the modal that is open.
AwaitedAny(f) == mode = "expand" /\ expandLoading

\* The modal was not closed and has not moved on to another row.
Awaited(f) == mode = "expand" /\ expandLoading /\ expandedLog.row = f.arg

\* The full object, or the row's own fields when there is an error.
ReceiveHydrate(i) ==
  /\ Message(i)
  /\ ~IsStale(flight[i])
  /\ flight[i].kind = "hydrate"
  /\ IF Awaited(flight[i])
       THEN /\ expandLoading' = FALSE
            /\ expandedLog' = [expandedLog EXCEPT !.raw =
                                 IF flight[i].state = "failed" THEN expandedLog.row
                                                               ELSE flight[i].value]
       ELSE UNCHANGED <<expandLoading, expandedLog>>
  /\ flight' = RemoveAt(flight, i)
  /\ UNCHANGED <<sourceVars, name, epoch, settled, streamVars, paused, timeRange, panelVars,
                 queryErr, mode, failures>>

------------------------------------------------------------------------------
(***************************************************************************)
(* Update: ticks.  Each handler arms its own tick again, so both chains go *)
(* on for ever.                                                            *)
(***************************************************************************)

\* Fault: nothing is refreshed after the backfill.
SettlingLoading == name \in Following /\ loading[name]

\* The panels do not show the complete store yet.
Settling == name \in Following /\ (loading[name] \/ ~settled)

\* onStreamTick: polls the stream unless paused, and refreshes the panels
\* while the source is loading and once more after.
StreamTick ==
  LET poll   == IF paused THEN <<>> ELSE <<FetchLogs>>
      settle == IF Settling THEN RefreshAll(epoch, name, timeRange) ELSE <<>>
  IN  /\ Issue(poll \o settle)
      /\ settled' = IF name \in Following THEN ~loading[name] ELSE settled
      /\ UNCHANGED <<sourceVars, name, epoch, streamVars, paused, timeRange, panelVars, queryErr,
                     modalVars, failures>>

\* tickMsg, and keyRefresh, which does the same.
Refresh ==
  /\ queryErr' = FALSE
  /\ Issue(RefreshAll(epoch, name, timeRange))
  /\ UNCHANGED <<sourceVars, name, epoch, settled, streamVars, paused, timeRange, panelVars,
                 modalVars, failures>>

------------------------------------------------------------------------------
(***************************************************************************)
(* Update: keys.                                                           *)
(***************************************************************************)
KeyPause ==
  /\ "pause" \in Pressed
  /\ mode = "normal"
  /\ paused' = ~paused
  /\ UNCHANGED <<sourceVars, name, epoch, settled, streamVars, timeRange, panelVars, queryErr,
                 modalVars, flight, failures>>

NextRange(r) ==
  LET i == CHOOSE n \in DOMAIN Ranges : Ranges[n] = r
  IN  Ranges[(i % Len(Ranges)) + 1]

KeyTimeRange ==
  /\ "range" \in Pressed
  /\ mode = "normal"
  /\ timeRange' = NextRange(timeRange)
  /\ Issue(RefreshAll(epoch, name, timeRange'))
  /\ UNCHANGED <<sourceVars, name, epoch, settled, streamVars, paused, panelVars, queryErr,
                 modalVars, failures>>

\* keyEnter on a row of the stream: scrolling and filters choose which.  A
\* row that came with its full object needs no hydrating.
KeyEnter ==
  /\ "enter" \in Pressed
  /\ mode = "normal"
  /\ mode' = "expand"
  /\ expandLoading' = (name \in Following)
  /\ \E i \in DOMAIN log :
       IF name \in Following
         THEN /\ expandedLog' = [row |-> log[i], raw |-> None]
              /\ Issue(<<Running("hydrate", epoch, name, log[i])>>)
         ELSE /\ expandedLog' = [row |-> log[i], raw |-> log[i]]
              /\ UNCHANGED flight
  /\ UNCHANGED <<sourceVars, name, epoch, settled, streamVars, paused, timeRange, panelVars,
                 queryErr, failures>>

\* handleEscape: closes what is open, or resets the view.
KeyEscape ==
  /\ "escape" \in Pressed
  /\ mode' = "normal"
  /\ IF mode = "normal"
       THEN paused' = FALSE /\ UNCHANGED <<expandedLog, expandLoading>>
       ELSE expandedLog' = None /\ expandLoading' = FALSE /\ UNCHANGED paused
  /\ UNCHANGED <<sourceVars, name, epoch, settled, streamVars, timeRange, panelVars, queryErr,
                 flight, failures>>

KeySourceSwitcher ==
  /\ "switcher" \in Pressed
  /\ mode = "normal"
  /\ mode' = "switcher"
  /\ UNCHANGED <<sourceVars, name, epoch, settled, streamVars, paused, timeRange, panelVars,
                 queryErr, expandedLog, expandLoading, flight, failures>>

\* Enter in the switcher, on the active source or one that cannot be opened.
SwitchNowhere ==
  /\ mode = "switcher"
  /\ mode' = "normal"
  /\ UNCHANGED <<sourceVars, name, epoch, settled, streamVars, paused, timeRange, panelVars,
                 queryErr, expandedLog, expandLoading, flight, failures>>

\* switchSource and adoptSource: the source opened anew starts its backfill.
SwitchSource(next) ==
  /\ mode = "switcher"
  /\ next # name
  /\ epoch < MaxEpoch
  /\ mode' = "normal"
  /\ epoch' = epoch + 1
  /\ name' = next
  /\ loading' = [loading EXCEPT ![next] = next \in Following]
  /\ log' = <<>>
  /\ cursor' = 0
  /\ shown' = {}
  /\ firstAt' = 0
  /\ panel' = None
  /\ refreshed' = FALSE
  /\ queryErr' = FALSE
  /\ settled' = FALSE
  /\ paused' = FALSE
  /\ Issue(RefreshAll(epoch', next, timeRange))
  /\ UNCHANGED <<published, timeRange, expandedLog, expandLoading, failures>>

------------------------------------------------------------------------------
Receive(i) ==
  \/ ReceiveStale(i) \/ ReceiveError(i)
  \/ ReceiveLogs(i) \/ ReceivePanel(i) \/ ReceiveHydrate(i)

Key ==
  \/ KeyPause \/ KeyTimeRange \/ KeyEnter \/ KeyEscape \/ KeySourceSwitcher
  \/ SwitchNowhere
  \/ \E next \in Sources : SwitchSource(next)

Next ==
  \/ \E s \in Sources : Publish(s) \/ FinishBackfill(s)
  \/ \E i \in 1..(MaxFlight + 1) : Run(i) \/ Fail(i) \/ Receive(i)
  \/ StreamTick
  \/ Refresh
  \/ Key

\* Every fetch ends, by its deadline at the latest, and its message reaches
\* the loop: the oldest one is never overtaken for ever.  Both ticks keep
\* firing; the bound on what is on its way can hold them up again and again,
\* but not for ever.  A backfill ends.  No key is ever pressed of necessity.
Fairness ==
  /\ WF_vars(Run(1))
  /\ WF_vars(Receive(1))
  /\ SF_vars(StreamTick)
  /\ SF_vars(Refresh)
  /\ \A s \in Sources : WF_vars(FinishBackfill(s))

Spec == Init /\ [][Next]_vars /\ Fairness

------------------------------------------------------------------------------
(***************************************************************************)
(* Properties.                                                             *)
(***************************************************************************)

\* "A result from a source that was switched away never lands on the new one"
\* (epochMsg): whatever is on the screen was received from the source adopted
\* last, also when that is one that was left and opened again.
NothingForeign ==
  /\ \A i \in DOMAIN log : log[i].epoch = epoch
  /\ panel # None => panel.epoch = epoch
  /\ expandedLog # None => expandedLog.row.epoch = epoch

\* The cursor never gets ahead of the log: every event between the newest
\* first batch and the cursor was appended, although polls overlap, fail and
\* land in any order (fetchLogs, logBatchMsg.apply).
NoGap == \A n \in 1..MaxEvents : firstAt < n /\ n < cursor => n \in shown

\* The expand modal shows the object of its own row, and while it says that
\* it is loading, something is on its way that will end that (applyHydrate).
ModalOwnRow ==
  /\ mode = "expand" <=> expandedLog # None
  /\ mode = "expand" =>
       expandedLog.raw = IF expandLoading THEN None ELSE expandedLog.row
  /\ expandLoading =>
       /\ mode = "expand"
       /\ \E i \in DOMAIN flight :
            flight[i].kind = "hydrate" /\ flight[i].epoch = epoch
              /\ flight[i].arg = expandedLog.row

\* settled: the panels were refreshed from the complete store at least once,
\* the refresh that will is on its way, or it failed (onStreamTick).
SettledMeansRefreshed ==
  settled =>
    \/ refreshed
    \/ \E i \in DOMAIN flight :
         /\ flight[i].kind = "panel"
         /\ flight[i].epoch = epoch
         /\ CASE flight[i].state = "running" -> ~loading[name]
              [] flight[i].state = "failed"  -> TRUE
              [] flight[i].state = "done"    -> flight[i].value.complete

\* An event that is published while the stream is followed is appended to the
\* log in the end, unless the user pauses or leaves the source, or a second
\* first batch, asked for before the first one came, starts after it.
EventShown ==
  \A s \in Sources, n \in 1..MaxEvents :
    (name = s /\ cursor # 0 /\ cursor <= n /\ n <= published[s])
      ~> (name # s \/ paused \/ n \in shown \/ n <= firstAt)

\* In the end the panels show the time range that was chosen.
RangeFollows ==
  \A i \in DOMAIN Ranges :
    timeRange = Ranges[i] ~>
      (timeRange # Ranges[i] \/ (panel # None /\ panel.range = Ranges[i]))

==============================================================================
