------------------------------ MODULE Startup ------------------------------
(***************************************************************************)
(* From the command line to an open source: main.go, the configuration     *)
(* (internal/source/config.go), the registry of source types (source.go)   *)
(* with each type's defaults and checks, and the switch to another source  *)
(* later (internal/ui/model.go).                                           *)
(*                                                                         *)
(* A list key is Unset or a set, a name is Unset or a string.  The fields  *)
(* that share one rule share a key: "keys" stands for time, level and      *)
(* message, "limits" for backfill, max_events and max_line_bytes.          *)
(***************************************************************************)
EXTENDS Naturals, Sequences

CONSTANTS
  Unset,       \* what no one has set
  Bad,         \* an error
  Missing,     \* a file that is not there
  Registered,  \* the source types of this build
  Unsafe,      \* names with a character that has no place in APL
  Launches     \* what the program may find: see Launch

ValueFlags == {"--dataset", "--source", "--config", "--env"}

\* What stands on the command lines ("d" is what a joined flag is given), and
\* what they can say.
Arguments == {"d"} \cup UNION {{l.args[i] : i \in DOMAIN l.args} : l \in Launches}

Options == [value : [ValueFlags -> Arguments \cup {Unset}], check : BOOLEAN, paths : Seq(Arguments)]

\* The keys of a source.
Keys == {"type", "dataset", "paths", "limits", "hide", "routes", "keys", "group", "cost",
         "costGroup", "sound"}

ASSUME StartupAssumption ==
  /\ Bad \notin Options
  /\ \A l \in Launches :
       /\ l.args \in Seq(Arguments)
       /\ \A path \in DOMAIN l.configs : l.configs[path] \notin {Missing, Bad} =>
            \A n \in DOMAIN l.configs[path].sources : DOMAIN l.configs[path].sources[n] = Keys

VARIABLES
  phase,    \* how far main is
  world,    \* the launch
  opts,     \* the flags and paths
  env,      \* the process environment: a function on the variables set
  cfg,      \* the configuration
  name,     \* the source chosen; later the one shown
  opened    \* history: every source opened, with what it was opened as

startupVars == <<phase, world, opts, env, cfg, name, opened>>

Nothing == [n \in {} |-> Unset]

\* What f says, and g where f says nothing.
Overlaid(f, g) == [x \in DOMAIN f \cup DOMAIN g |-> IF x \in DOMAIN f THEN f[x] ELSE g[x]]

StartupInit ==
  /\ phase = "idle" /\ world = Unset /\ opts = Unset /\ env = Nothing
  /\ cfg = Unset /\ name = Unset /\ opened = {}

\* A launch: its arguments, environment, env file, config files and disk.
Launch ==
  /\ phase = "idle"
  /\ \E l \in Launches : world' = l /\ env' = l.env
  /\ phase' = "args"
  /\ UNCHANGED <<opts, cfg, name, opened>>

Fail == phase' = "failed" /\ UNCHANGED <<world, opts, env, cfg, name, opened>>

------------------------------------------------------------------------------
(***************************************************************************)
(* Arguments.                                                              *)
(***************************************************************************)
Joined == [a \in {"--source=d"} |-> <<"--source", "d">>]

Flags == ValueFlags \cup DOMAIN Joined \cup {"--check", "--bogus"}

IsWord(a) == a \notin Flags \cup {"--"}

NoOpts == [value |-> [f \in ValueFlags |-> Unset], check |-> FALSE, paths |-> <<>>]

\* The last setting of a flag counts; nothing is right any more after an error.
Set(o, flag, v) ==
  IF o = Bad THEN Bad ELSE [o EXCEPT !.value[flag] = IF @ = Unset THEN v ELSE @]

\* What args say from i on, if words may stand between the flags or else end
\* them; rest and after are what they say from i + 1 and from i + 2 on.
Reading(args, mixed, i, rest, after) ==
  LET a == args[i] IN
  CASE a = "--" -> [NoOpts EXCEPT !.paths = SubSeq(args, i + 1, Len(args))]
    [] a = "--check" -> IF rest = Bad THEN Bad ELSE [rest EXCEPT !.check = TRUE]
    [] a = "--bogus" -> Bad
    [] a \in ValueFlags -> IF i = Len(args) THEN Bad ELSE Set(after, a, args[i + 1])
    [] a \in DOMAIN Joined -> Set(rest, Joined[a][1], Joined[a][2])
    [] OTHER -> IF ~mixed THEN [NoOpts EXCEPT !.paths = SubSeq(args, i, Len(args))]
                ELSE IF rest = Bad THEN Bad
                ELSE [rest EXCEPT !.paths = <<a>> \o @]

Read(args, mixed) ==
  LET read[i \in 1..(Len(args) + 2)] ==
        IF i > Len(args) THEN NoOpts ELSE Reading(args, mixed, i, read[i + 1], read[i + 2])
  IN  read[1]

\* flag.Parse stops at the first word.
Parse(args) == Read(args, FALSE)

\* Flags first, each with its value: what is so ordered from i on.
Ordering(args, i, rest, after) ==
  LET a == args[i] IN
  CASE a = "--" -> [flags |-> <<a>>, words |-> SubSeq(args, i + 1, Len(args))]
    [] IsWord(a) -> [rest EXCEPT !.words = <<a>> \o @]
    [] a \in ValueFlags /\ i < Len(args) -> [after EXCEPT !.flags = <<a, args[i + 1]>> \o @]
    [] OTHER -> [rest EXCEPT !.flags = <<a>> \o @]

Ordered(args) ==
  LET order[i \in 1..(Len(args) + 2)] ==
        IF i > Len(args) THEN [flags |-> <<>>, words |-> <<>>]
        ELSE Ordering(args, i, order[i + 1], order[i + 2])
  IN  order[1]

\* Fault: the terminator is dropped.
ReorderArgsOpen(args) == SelectSeq(Ordered(args).flags, LAMBDA a : a # "--") \o Ordered(args).words

ReorderArgs(args) == Ordered(args).flags \o Ordered(args).words

ParseArgs ==
  /\ phase = "args"
  /\ LET got == Parse(ReorderArgs(world.args))
     IN  IF got = Bad THEN Fail
         ELSE opts' = got /\ phase' = "env" /\ UNCHANGED <<world, env, cfg, name, opened>>

\* A variable that is set keeps its value, by an earlier line of the file too.
LoadEnvFile ==
  /\ phase = "env"
  /\ IF opts.value["--env"] = Unset THEN phase' = "config" /\ UNCHANGED env
     ELSE IF world.envFile = Missing THEN phase' = "failed" /\ UNCHANGED env
     ELSE LET sourced[i \in 0..Len(world.envFile)] ==
                IF i = 0 THEN env
                ELSE Overlaid(sourced[i - 1], [v \in {world.envFile[i][1]} |-> world.envFile[i][2]])
          IN  env' = sourced[Len(world.envFile)] /\ phase' = "config"
  /\ UNCHANGED <<world, opts, cfg, name, opened>>

------------------------------------------------------------------------------
(***************************************************************************)
(* Sources.                                                                *)
(***************************************************************************)
Unconfigured(type) ==
  [type |-> type, dataset |-> Unset, paths |-> Unset, limits |-> Unset, hide |-> Unset,
   routes |-> Unset, keys |-> Unset, group |-> Unset, cost |-> Unset, costGroup |-> Unset,
   sound |-> TRUE]

Given(v, default) == IF v = Unset THEN default ELSE v

\* Fault: a list is unset when there is nothing in it.
GivenListFilled(v, default) == IF v \in {Unset, {}} THEN default ELSE v

\* A list is unset only when it is nil.
GivenList(v, default) == Given(v, default)

DefaultRoutes == {"GET", "POST", "PUT", "DELETE", "PATCH"}

\* axiomDefaults, jsonlDefaults, piDefaults; none for a type that is not there.
ApplyTypeDefaults(n, sc) ==
  CASE sc.type = "axiom" /\ "axiom" \in Registered ->
         [sc EXCEPT !.dataset = Given(@, n), !.routes = GivenList(@, DefaultRoutes),
                    !.keys = GivenList(@, {"_time"})]
    [] sc.type = "jsonl" ->
         [sc EXCEPT !.limits = Given(@, "default"), !.keys = GivenList(@, {"timestamp"}),
                    !.costGroup = Given(@, sc.group)]
    [] sc.type = "pi" ->
         [sc EXCEPT !.limits = Given(@, "default"), !.hide = GivenList(@, {"debug"}),
                    !.paths = IF @ \in {Unset, {}} THEN {"sessions"} ELSE @]
    [] OTHER -> sc

\* The rules all types share, and the type's own.
Valid(sc) ==
  /\ sc.type \in Registered
  /\ sc.sound
  /\ sc.type = "axiom" =>
       ({sc.dataset, sc.group, sc.cost, sc.costGroup} \cup Given(sc.routes, {})) \cap Unsafe = {}
  /\ sc.type = "jsonl" => sc.paths \notin {Unset, {}}

LegacyAxiom(n) ==
  [Unconfigured("axiom") EXCEPT !.dataset = n, !.cost = "fields.costDollars",
                         !.costGroup = "fields.clientName"]

LegacyToSource(n, ds) == [LegacyAxiom(n) EXCEPT !.routes = ds.routes, !.group = ds.group]

NoConfig ==
  [defaultSource |-> Unset, defaultDataset |-> Unset, negative |-> FALSE,
   datasets |-> Nothing, sources |-> Nothing]

\* The pi source is there unless the file has one of that name, the old tables
\* become sources, and every source is checked with its defaults.
Normalise(c) ==
  LET own     == DOMAIN c.sources \cup DOMAIN c.datasets
      builtin == {"pi"} \ own
      legacy  == [n \in DOMAIN c.datasets |-> LegacyToSource(n, c.datasets[n])]
      all     == Overlaid(Overlaid(c.sources, legacy), [n \in builtin |-> Unconfigured("pi")])
      sources == [n \in DOMAIN all |-> ApplyTypeDefaults(n, all[n])]
  IN  IF \/ c.negative
         \/ DOMAIN c.sources \cap DOMAIN c.datasets # {}
         \/ \E n \in DOMAIN sources : ~Valid(sources[n])
        THEN Bad
        ELSE [defaultSource |-> c.defaultSource, defaultDataset |-> c.defaultDataset,
              sources |-> sources, builtin |-> builtin]

\* The file asked for, or the first there is of ours and the one of old; none
\* is no error, one that does not decode is.
ConfigText ==
  LET asked == opts.value["--config"]
      At(path) == IF path \in DOMAIN world.configs THEN world.configs[path] ELSE Missing
      found == IF asked # Unset THEN At(asked)
               ELSE IF At("ours") # Missing THEN At("ours") ELSE At("old")
  IN  IF found = Missing THEN NoConfig ELSE found

LoadConfig ==
  /\ phase = "config"
  /\ LET c == IF ConfigText = Bad THEN Bad ELSE Normalise(ConfigText)
     IN  IF c = Bad THEN Fail
         ELSE cfg' = c /\ phase' = "resolve" /\ UNCHANGED <<world, opts, env, name, opened>>

------------------------------------------------------------------------------
(***************************************************************************)
(* resolveSource.                                                          *)
(***************************************************************************)
Put(n, sc) ==
  [cfg EXCEPT !.sources = Overlaid([m \in {n} |-> ApplyTypeDefaults(n, sc)], @), !.builtin = @ \ {n}]

AddAxiomSource(n) ==
  IF n \in DOMAIN cfg.sources /\ cfg.sources[n].type = "axiom" THEN cfg ELSE Put(n, LegacyAxiom(n))

AddFileSource(n, paths) == Put(n, [Unconfigured("jsonl") EXCEPT !.paths = paths])

Choose(n, c) == name' = n /\ cfg' = c /\ phase' = "open" /\ UNCHANGED <<world, opts, env, opened>>

UserSourceNames == DOMAIN cfg.sources \ cfg.builtin

IsSet(key) == key \in DOMAIN env /\ env[key] # ""

ResolveSource ==
  /\ phase = "resolve"
  /\ LET asked == opts.value["--source"]
         sources == DOMAIN cfg.sources
     IN  IF opts.value["--dataset"] # Unset
           THEN Choose(opts.value["--dataset"], AddAxiomSource(opts.value["--dataset"]))
         ELSE IF asked # Unset
           THEN \/ asked \in sources /\ Choose(asked, cfg)
                \/ /\ asked \notin sources /\ asked \in world.disk
                   /\ Choose(asked, AddFileSource(asked, {asked}))
                \/ asked \notin sources \cup world.disk /\ Fail
         ELSE IF opts.paths # <<>>
           THEN Choose(opts.paths[1],
                       AddFileSource(opts.paths[1], {opts.paths[i] : i \in DOMAIN opts.paths}))
         ELSE IF cfg.defaultSource # Unset
           THEN IF cfg.defaultSource \in sources THEN Choose(cfg.defaultSource, cfg) ELSE Fail
         ELSE IF cfg.defaultDataset # Unset
           THEN Choose(cfg.defaultDataset, AddAxiomSource(cfg.defaultDataset))
         ELSE IF IsSet("AXIOM_DATASET")
           THEN Choose(env["AXIOM_DATASET"], AddAxiomSource(env["AXIOM_DATASET"]))
         ELSE \/ \E n \in UserSourceNames : UserSourceNames = {n} /\ Choose(n, cfg)
              \/ /\ ~\E n \in UserSourceNames : UserSourceNames = {n}
                 /\ IF "sessions" \in world.disk THEN Choose("pi", cfg) ELSE Fail

------------------------------------------------------------------------------
(***************************************************************************)
(* Opening, and switching later.                                           *)
(***************************************************************************)

\* The first that is set of the variables for personal tokens, or else of
\* those for API tokens; only what starts like an API token needs no org.
Token ==
  LET order == <<"AXIOM_PAT", "AXIOM_PERSONAL_TOKEN", "AXIOM_TOKEN", "AXIOM_API_TOKEN">>
      given == {i \in DOMAIN order : IsSet(order[i])}
  IN  IF given = {} THEN Unset ELSE env[order[CHOOSE i \in given : \A j \in given : i <= j]]

Credentials == Token # Unset /\ (Token = "xaat-" \/ IsSet("AXIOM_ORG_ID"))

\* source.Open checks the source once more, and the type applies its defaults.
CanOpen(n) ==
  /\ n \in DOMAIN cfg.sources
  /\ Valid(cfg.sources[n])
  /\ cfg.sources[n].type = "axiom" => Credentials

AsOpened(n) == ApplyTypeDefaults(n, cfg.sources[n])

Open ==
  /\ phase = "open"
  /\ IF CanOpen(name)
       THEN /\ opened' = opened \cup {<<name, AsOpened(name)>>}
            /\ phase' = IF opts.check THEN "check" ELSE "running"
            /\ UNCHANGED <<world, opts, env, cfg, name>>
       ELSE Fail

\* --check prints its report, or the backfill times out, or a query fails.
RunCheck ==
  /\ phase = "check"
  /\ phase' \in {"done", "failed"}
  /\ UNCHANGED <<world, opts, env, cfg, name, opened>>

\* The switcher offers every source; one that does not open changes nothing.
SwitchSource ==
  /\ phase = "running"
  /\ \E n \in DOMAIN cfg.sources \ {name} :
       /\ CanOpen(n)
       /\ name' = n
       /\ opened' = opened \cup {<<n, AsOpened(n)>>}
  /\ UNCHANGED <<phase, world, opts, env, cfg>>

StartupNext ==
  \/ Launch \/ ParseArgs \/ LoadEnvFile \/ LoadConfig \/ ResolveSource
  \/ Open \/ RunCheck \/ SwitchSource

StartupSpec == StartupInit /\ [][StartupNext]_startupVars

------------------------------------------------------------------------------
(***************************************************************************)
(* Properties.                                                             *)
(***************************************************************************)
Asked == Read(world.args, TRUE)

\* What the command line says is what is opened first, wherever its words and
\* flags stand, whatever the file and the environment say, and also when a
\* source of another type has that name (reorderArgs, resolveSource).
CommandLineObeyed ==
  phase \in {"check", "running"} /\ Asked # Bad =>
    /\ opts = Asked
    /\ LET dataset == Asked.value["--dataset"]
           asked   == Asked.value["--source"]
       IN  IF dataset # Unset THEN \E o \in opened : o[1] = dataset /\ o[2].type = "axiom"
           ELSE IF asked # Unset THEN \E o \in opened : o[1] = asked
           ELSE Asked.paths # <<>> =>
             \E o \in opened : /\ o[2].type = "jsonl"
                               /\ o[2].paths = {Asked.paths[i] : i \in DOMAIN Asked.paths}

\* The sources the file has, but for those a path or a dataset stands for.
Configured ==
  LET datasets == {opts.value["--dataset"], cfg.defaultDataset}
                    \cup (IF IsSet("AXIOM_DATASET") THEN {env["AXIOM_DATASET"]} ELSE {})
      replaced == {opts.paths[1] : i \in DOMAIN opts.paths}
                    \cup {n \in datasets \cap DOMAIN ConfigText.sources :
                            ConfigText.sources[n].type # "axiom"}
  IN  [n \in DOMAIN ConfigText.sources \ replaced |-> ConfigText.sources[n]]

\* Every key that is set, but for the paths of a pi source, which are the
\* default's when there are none.
KeysSet(sc) ==
  {key \in DOMAIN sc : sc[key] # Unset /\ ~(sc.type = "pi" /\ key = "paths" /\ sc[key] = {})}

\* A source is opened as the file has it, though defaults are applied twice:
\* every key that is set is kept, an empty list too ("so hide_levels = []
\* hides nothing", ApplyTypeDefaults); a source opened again is the same; and
\* once the dashboard runs, no source of the file is left that would not open
\* but for its credentials ("so a broken entry fails at load", Normalise).
OpenedAsConfigured ==
  /\ \A o, p \in opened : o[1] = p[1] => o[2] = p[2]
  /\ phase = "running" =>
       /\ \A n \in DOMAIN cfg.sources : Valid(cfg.sources[n])
       /\ \A o \in opened : o[1] \in DOMAIN Configured =>
            \A key \in KeysSet(Configured[o[1]]) : o[2][key] = Configured[o[1]][key]

==============================================================================
