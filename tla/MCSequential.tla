---------------------------- MODULE MCSequential ----------------------------
(***************************************************************************)
(* The parts that run under one lock or on one goroutine, on small         *)
(* instances in one run: Queries, SelectKth, LineFraming, LogBuffer and    *)
(* Startup.                                                                *)
(* They do not interact here, so each moves only while the others are in   *)
(* their initial states.                                                   *)
(*                                                                         *)
(* Queries: a minute is 4 units of time, so that half-minute bins are 2    *)
(* units and the present may lie inside one.  Times stand at the edges: of *)
(* the trailing hour (5641), of the day (5759, 5760), of the short window  *)
(* (5874, 5876), the present (5880, 5881) and the future (5882).           *)
(***************************************************************************)
EXTENDS Queries, SelectKth, LineFraming, LogBuffer, Startup, TLC

Event(ts, level, message, client, route, duration, cost, costDim) ==
  [ts |-> ts, level |-> level, message |-> message, client |-> client, route |-> route,
   duration |-> duration, cost |-> cost, costDim |-> costDim]

\* Present events tie and differ in everything; events at the edges are a
\* routed error that costs and an info line that costs.
EdgeRecords ==
  {Event(ts, levelError, 1, 1, 0, 3, 2, 1)  : ts \in {5874, 5881}} \cup
  {Event(ts, levelError, 2, 0, 0, NaN, NaN, 0) : ts \in {5876, 5882}} \cup
  {Event(ts, levelWarn, 1, 2, 0, NaN, 1, 2) : ts \in {5876, 5881}} \cup
  {Event(ts, levelInfo, 1, 1, 1, 5, 3, 0)   : ts \in {5641, 5759, 5760, 5876}} \cup
  {Event(ts, 4, 2, 2, 2, NaN, -1, 1)        : ts \in {5760, 5881}}

ShortAndLong == {6, 244}

\* Launches by what is on the command line, and by what is in the files.
Words(n) == UNION {[1..len -> {"--dataset", "--source", "--check", "--", "--source=d", "s"}] :
                     len \in 0..n}

Jsonl == [Unconfigured("jsonl") EXCEPT !.paths = {"f"}]
Quiet == [Jsonl EXCEPT !.hide = {}, !.routes = {}, !.keys = {"at"}, !.limits = "own", !.group = "g"]
Axiom == [Unconfigured("axiom") EXCEPT !.routes = {}, !.keys = {"at"}]
Of(sources) == [NoConfig EXCEPT !.sources = sources]

ByWords ==
  [args : Words(3), env : {"AXIOM_TOKEN" :> "xaat-"}, envFile : {Missing}, disk : {{"s"}},
   configs : {"ours" :> Of("s" :> Quiet @@ "d" :> Jsonl)}]

Configs ==
  {Missing, Bad, NoConfig, [NoConfig EXCEPT !.negative = TRUE]}
  \cup {Of("s" :> sc) : sc \in {Quiet, Axiom, Unconfigured("jsonl"), Unconfigured("none"),
                              [Quiet EXCEPT !.sound = FALSE], [Axiom EXCEPT !.routes = {"]"}]}}
  \cup {Of("pi" :> sc) : sc \in {Jsonl, [Unconfigured("pi") EXCEPT !.paths = {}, !.hide = {}]}}
  \cup {[NoConfig EXCEPT !.datasets = n :> [routes |-> Unset, group |-> "g"]] : n \in {"d", "pi"}}
  \cup {[Of("s" :> Quiet @@ "a" :> Axiom) EXCEPT !.defaultSource = d] : d \in {"s", "none"}}
  \cup {[Of("s" :> Quiet @@ "d" :> Axiom) EXCEPT !.defaultDataset = d] : d \in {"s", "d", "]"}}
  \cup {[Of("d" :> Axiom) EXCEPT !.datasets = "d" :> [routes |-> {}, group |-> "g"]]}

Environments ==
  {Nothing, "AXIOM_TOKEN" :> "xaat-", "AXIOM_DATASET" :> "d" @@ "AXIOM_TOKEN" :> "xaat-",
   "AXIOM_PAT" :> "xapt-" @@ "AXIOM_TOKEN" :> "xaat-", "AXIOM_PAT" :> "" @@ "AXIOM_TOKEN" :> "xaat-"}

EnvFiles == {Missing, <<<<"AXIOM_PAT", "xapt-">>, <<"AXIOM_ORG_ID", "o">>, <<"AXIOM_PAT", "">>>>}

Files(ours) == "ours" :> ours @@ "old" :> Of("a" :> Axiom) @@ "c" :> NoConfig

ByFiles ==
  [args : {<<>>, <<"--config", "c">>, <<"--source", "s">>, <<"f", "g">>, <<"--dataset", "s">>,
           <<"--source", "a">>},
   env : Environments, envFile : {Missing}, disk : {{"s", "sessions"}},
   configs : {Files(c) : c \in Configs}]

ByEnv ==
  [args : {<<"--env", "e">>}, env : Environments, envFile : EnvFiles, disk : {{}, {"sessions"}},
   configs : {Files(c) : c \in {NoConfig, Of("s" :> Axiom)}}]

AllLaunches == ByWords \cup ByFiles \cup ByEnv

vars == <<events, selectVars, framingVars, bufferVars, startupVars>>

MCInit == Init /\ SelectInit /\ FramingInit /\ BufferInit /\ StartupInit

QueriesStep == SelectInit /\ FramingInit /\ BufferInit /\ StartupInit /\ Next
               /\ UNCHANGED <<selectVars, framingVars, bufferVars, startupVars>>

SelectTurn == Init /\ FramingInit /\ BufferInit /\ StartupInit /\ SelectNext
              /\ UNCHANGED <<events, framingVars, bufferVars, startupVars>>

FramingStep == Init /\ SelectInit /\ BufferInit /\ StartupInit /\ FramingNext
               /\ UNCHANGED <<events, selectVars, bufferVars, startupVars>>

BufferStep == Init /\ SelectInit /\ FramingInit /\ StartupInit /\ BufferNext
              /\ UNCHANGED <<events, selectVars, framingVars, startupVars>>

StartupStep == Init /\ SelectInit /\ FramingInit /\ BufferInit /\ StartupNext
               /\ UNCHANGED <<events, selectVars, framingVars, bufferVars>>

MCSpec ==
  /\ MCInit
  /\ [][QueriesStep \/ SelectTurn \/ FramingStep \/ BufferStep \/ StartupStep]_vars
  /\ WF_vars(SelectStep /\ UNCHANGED <<events, framingVars, bufferVars, startupVars>>)

==============================================================================
