------------------------------ MODULE Presets ------------------------------
(***************************************************************************)
(* The filter of the log stream and its presets (internal/ui/logs.go,      *)
(* presets.go, model_keys.go): keys change the filter, save it in the next *)
(* free slot and load it back; a save is written by a command that runs    *)
(* beside the update loop, and the dashboard may quit at any moment and be *)
(* started again.                                                          *)
(*                                                                         *)
(* A presets file is the map from slots to presets it decodes to, or       *)
(* Broken.  The encoder writes the slots in their order, in one write.     *)
(***************************************************************************)
EXTENDS Naturals, Sequences, FiniteSetsExt

CONSTANTS
  Sources,   \* what adoptSource may be given: [seed : SUBSET Levels, pins : BOOLEAN]
  Levels,    \* names of levels
  Searches,  \* what may be typed at a prompt, "" included
  Clients,
  Rows,      \* the log buffer: Seq([level, texts, client, pin])
  Slots,     \* the slots 1-9, as an interval from 1
  Legacy,    \* what the legacy file may hold at first
  NoFile, Broken,
  Lost,      \* see saved
  MaxSaves   \* bound: saves

Preset == [search : Searches, client : Clients, hide : SUBSET Levels]

\* What a presets file that can be read holds.
PresetMaps == UNION {[S -> Preset] : S \in SUBSET Slots}

ASSUME PresetsAssumption ==
  /\ Sources \subseteq [seed : SUBSET Levels, pins : BOOLEAN]
  /\ "" \in Searches /\ "" \in Clients
  /\ Rows \in Seq([level : STRING, texts : SUBSET STRING, client : STRING, pin : BOOLEAN])
  /\ IsFiniteSet(Slots) /\ Slots = 1..Cardinality(Slots)
  /\ Legacy \subseteq {NoFile, Broken} \cup PresetMaps
  /\ NoFile # Broken /\ {NoFile, Broken} \cap PresetMaps = {}
  /\ MaxSaves \in Nat

VARIABLES
  running,  \* a dashboard is up
  filter,   \* Model.filter
  items,    \* Model.presets.Items
  told,     \* at its start it showed an error about the presets
  saves,    \* save commands under way
  file,     \* presets.toml in the tailboard directory
  legacy,   \* presets.toml in the legacy directory
  saved,    \* history: the filter saved in each slot; Lost once two saves have
            \* overlapped, or one has failed or was cut off
  count     \* saves so far

presetVars == <<running, filter, items, told, saves, file, legacy, saved, count>>

------------------------------------------------------------------------------
(***************************************************************************)
(* Filters.  hide is the Go map: a level may be in it as FALSE.  pin stands *)
(* for the provider, the operation and the trace, which presets leave out. *)
(***************************************************************************)
NewLogFilter(source) ==
  [hide |-> [l \in source.seed |-> TRUE], search |-> "", client |-> "", pin |-> FALSE,
   seed |-> source.seed, pins |-> source.pins]

Reset(f) == NewLogFilter([seed |-> f.seed, pins |-> f.pins])

Hidden(f) == {l \in DOMAIN f.hide : f.hide[l]}

Match(f, row) ==
  /\ row.level \notin Hidden(f)
  /\ f.search # "" => f.search \in row.texts
  /\ f.client # "" => row.client = f.client
  /\ f.pin /\ f.pins => row.pin

Active(f) ==
  \/ \E l \in DOMAIN f.hide : f.hide[l] # (l \in f.seed)
  \/ f.search # "" \/ f.client # "" \/ f.pin

Passing(f) ==
  LET out[n \in 0..Len(Rows)] ==
        IF n = 0 THEN <<>>
        ELSE IF Match(f, Rows[n]) THEN Append(out[n - 1], Rows[n]) ELSE out[n - 1]
  IN  out[Len(Rows)]

\* Fault: the shortcut is taken for the startup filter too, which may hide.
FilteredStartup(f) == IF ~Active(f) THEN Rows ELSE Passing(f)

Filtered(f) == IF ~Active(f) /\ DOMAIN f.hide = {} THEN Rows ELSE Passing(f)

FilterToPreset(f) == [search |-> f.search, client |-> f.client, hide |-> Hidden(f)]

PresetToFilter(p, base) ==
  [Reset(base) EXCEPT !.hide = [l \in p.hide |-> TRUE], !.search = p.search, !.client = p.client]

Change(f) == filter' = f /\ UNCHANGED <<running, items, told, saves, file, legacy, saved, count>>

\* toggleLevel.
ToggleLevel(l) ==
  Change([filter EXCEPT !.hide = [m \in DOMAIN @ \cup {l} |->
            IF m = l THEN ~(l \in DOMAIN filter.hide /\ filter.hide[l]) ELSE filter.hide[m]]])

\* A prompt is committed, or a row of Top Errors is taken for the search.
SetText ==
  \/ \E s \in Searches : Change([filter EXCEPT !.search = s])
  \/ \E c \in Clients : Change([filter EXCEPT !.client = c])
  \/ filter.pins /\ \E b \in BOOLEAN : Change([filter EXCEPT !.pin = b])

\* The clear key, and escape.
ClearFilter == Change(Reset(filter))

SwitchSource == \E source \in Sources : Change(NewLogFilter(source))

------------------------------------------------------------------------------
(***************************************************************************)
(* Saving.                                                                 *)
(***************************************************************************)
FreeSlots == Slots \ DOMAIN items

NextSlot == IF FreeSlots = {} THEN 0 ELSE Min(FreeSlots)

\* The command gets a clone of the map with the new preset.
KeySavePreset ==
  /\ count < MaxSaves /\ NextSlot # 0
  /\ LET new == [s \in DOMAIN items \cup {NextSlot} |->
                   IF s = NextSlot THEN FilterToPreset(filter) ELSE items[s]]
     IN  /\ items' = new
         /\ saves' = saves \cup {[id |-> count, snap |-> new, pc |-> "ready"]}
  /\ count' = count + 1
  /\ saved' = IF saved = Lost \/ saves # {} THEN Lost
              ELSE [s \in DOMAIN saved \cup {NextSlot} |-> IF s = NextSlot THEN filter ELSE saved[s]]
  /\ UNCHANGED <<running, filter, told, file, legacy>>

\* os.Create: from here on the file is empty.
Create(c) ==
  /\ c.pc = "ready"
  /\ file' = <<>>
  /\ saves' = (saves \ {c}) \cup {[c EXCEPT !.pc = "created"]}
  /\ UNCHANGED <<running, filter, items, told, legacy, saved, count>>

\* All of a comes before what else is in b.
Begins(a, b) ==
  /\ DOMAIN a \subseteq DOMAIN b
  /\ \A s \in DOMAIN a : a[s] = b[s] /\ \A t \in DOMAIN b \ DOMAIN a : s < t

\* What the file may decode to when snap is written over its first bytes:
\* behind snap, the rest of what another save wrote since.
Overlay(snap, on) ==
  IF on = Broken THEN {snap, Broken}
  ELSE IF Begins(on, snap) THEN {snap}
  ELSE IF Begins(snap, on) THEN {on}
  ELSE {Broken} \cup {[s \in DOMAIN snap \cup T |-> IF s \in DOMAIN snap THEN snap[s] ELSE on[s]] :
                        T \in SUBSET {s \in DOMAIN on : \A t \in DOMAIN snap : t < s}}

\* Encode, and the toast.
Encode(c) ==
  /\ c.pc = "created"
  /\ file' \in Overlay(c.snap, file)
  /\ saves' = saves \ {c}
  /\ UNCHANGED <<running, filter, items, told, legacy, saved, count>>

\* The file cannot be created, or not be written.
FailSave(c) ==
  /\ saves' = saves \ {c}
  /\ saved' = Lost
  /\ UNCHANGED <<running, filter, items, told, file, legacy, saved, count>>

KeyLoadPreset(slot) ==
  /\ slot \in DOMAIN items
  /\ Change(PresetToFilter(items[slot], filter))

------------------------------------------------------------------------------
(***************************************************************************)
(* Start and end.                                                          *)
(***************************************************************************)

\* Fault: the legacy file is looked up first.
FoundLegacyFirst == IF legacy # NoFile THEN legacy ELSE file

\* FindConfigFile: the first of the two that exists.
Found == IF file # NoFile THEN file ELSE legacy

\* LoadPresets, as NewModel takes it: no file and one it cannot parse mean no
\* presets.
Start ==
  /\ ~running
  /\ running' = TRUE
  /\ items' = IF Found \in {NoFile, Broken} THEN <<>> ELSE Found
  /\ told' = (Found = Broken)
  /\ UNCHANGED <<filter, saves, file, legacy, saved, count>>

\* The process ends, with whatever its commands have done so far.  filter is
\* the one that the next will start with.
Quit ==
  /\ \E source \in Sources : filter' = NewLogFilter(source)
  /\ running' = FALSE /\ items' = <<>> /\ told' = FALSE /\ saves' = {}
  /\ saved' = IF saves = {} THEN saved ELSE Lost
  /\ UNCHANGED <<file, legacy, count>>

PresetsInit ==
  /\ running = FALSE /\ items = <<>> /\ told = FALSE
  /\ saves = {} /\ file = NoFile
  /\ \E source \in Sources : filter = NewLogFilter(source)
  /\ legacy \in Legacy
  /\ saved = IF legacy \in {NoFile, Broken} THEN <<>>
             ELSE [s \in DOMAIN legacy |-> PresetToFilter(legacy[s], filter)]
  /\ count = 0

PresetsNext ==
  \/ Start
  \/ /\ running
     /\ \/ \E l \in Levels : ToggleLevel(l)
        \/ SetText \/ ClearFilter \/ SwitchSource
        \/ KeySavePreset
        \/ \E c \in saves : Create(c) \/ Encode(c) \/ FailSave(c)
        \/ \E slot \in Slots : KeyLoadPreset(slot)
        \/ Quit

PresetsSpec == PresetsInit /\ [][PresetsNext]_presetVars

------------------------------------------------------------------------------
(***************************************************************************)
(* Properties.                                                             *)
(***************************************************************************)
\* What a preset keeps of a filter: all but the pins.
Kept(f) == <<Hidden(f), f.search, f.client, FALSE>>

\* After any number of restarts, each slot brings back the filter that was
\* saved in it, provider, operation and trace apart, on whatever source it is
\* loaded; the presets of the legacy directory are there until, and after, the
\* first save, and the start says so when they cannot be read.  That holds while
\* no two saves overlap and none fails or is cut off by the end of the process
\* (keySavePreset, Save, LoadPresets).
ReadBack ==
  running /\ saved # Lost =>
    /\ DOMAIN items = DOMAIN saved
    /\ \A s \in DOMAIN items :
         LET f == PresetToFilter(items[s], filter)
         IN  <<Hidden(f), f.search, f.client, f.pin>> = Kept(saved[s])
    /\ told => legacy = Broken
    /\ legacy = Broken /\ items = <<>> => told

\* The shortcut of Filtered changes nothing: the stream shows exactly the rows
\* that match, each once and in their order, whatever keys and presets made the
\* filter (Filtered, Active).
FilteredIsMatch ==
  LET matching == {n \in DOMAIN Rows : Match(filter, Rows[n])}
      shown    == Filtered(filter)
  IN  /\ Len(shown) = Cardinality(matching)
      /\ \A n \in matching : shown[Cardinality(matching \cap (1..n))] = Rows[n]

\* "Active reports whether any filter is in effect beyond the startup seed",
\* and a "reveal seeded level" is one (logs.go, TestFilterActive): it is FALSE
\* only while the filter shows what the startup filter does.
InactiveShowsStartup == ~Active(filter) => Hidden(filter) = filter.seed

==============================================================================
