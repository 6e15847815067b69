---------------------------- MODULE Presets_proofs ----------------------------
(***************************************************************************)
(* What is saved in a slot is what comes back, and what the filter shows   *)
(* is what matches, for every set of sources, levels, searches, clients    *)
(* and slots, every log buffer and every legacy file.                      *)
(***************************************************************************)
EXTENDS Presets, SumTheorems, SequenceTheorems

------------------------------------------------------------------------------
(***************************************************************************)
(* Types.                                                                  *)
(***************************************************************************)
HideMaps == UNION {[D -> BOOLEAN] : D \in SUBSET Levels}

Filter ==
  [hide : HideMaps, search : Searches, client : Clients, pin : BOOLEAN,
   seed : SUBSET Levels, pins : BOOLEAN]

Contents == PresetMaps \cup {NoFile, Broken}

LEMMA HideMap ==
  ASSUME NEW D \in SUBSET Levels, NEW h \in [D -> BOOLEAN]
  PROVE  h \in HideMaps
<1>1. [D -> BOOLEAN] \in {[E -> BOOLEAN] : E \in SUBSET Levels}
  OBVIOUS
<1> QED BY <1>1, Zenon DEF HideMaps

LEMMA HideMapIs ==
  ASSUME NEW h \in HideMaps
  PROVE  /\ DOMAIN h \in SUBSET Levels /\ h \in [DOMAIN h -> BOOLEAN]
         /\ h = [l \in DOMAIN h |-> h[l]]
<1>1. PICK D \in SUBSET Levels : h \in [D -> BOOLEAN]
  BY DEF HideMaps
<1>2. DOMAIN h = D
  BY <1>1
<1> QED BY <1>1, <1>2

LEMMA PresetMap ==
  ASSUME NEW S \in SUBSET Slots, NEW m \in [S -> Preset]
  PROVE  m \in PresetMaps
<1>1. [S -> Preset] \in {[T -> Preset] : T \in SUBSET Slots}
  OBVIOUS
<1> QED BY <1>1, Zenon DEF PresetMaps

LEMMA PresetMapIs ==
  ASSUME NEW m \in PresetMaps
  PROVE  /\ DOMAIN m \in SUBSET Slots /\ m \in [DOMAIN m -> Preset]
         /\ m = [s \in DOMAIN m |-> m[s]]
         /\ m # NoFile /\ m # Broken
<1>1. PICK S \in SUBSET Slots : m \in [S -> Preset]
  BY DEF PresetMaps
<1>2. DOMAIN m = S
  BY <1>1
<1>3. m # NoFile /\ m # Broken
  BY PresetsAssumption
<1> QED BY <1>1, <1>2, <1>3

LEMMA EmptyMap == <<>> \in PresetMaps /\ DOMAIN <<>> = {}
<1>1. <<>> \in [{} -> Preset]
  OBVIOUS
<1> QED BY <1>1, PresetMap

\* The operations on filters make filters, and presets.
LEMMA FilterTypes ==
  /\ \A source \in Sources : NewLogFilter(source) \in Filter
  /\ \A f \in Filter :
       /\ Reset(f) \in Filter
       /\ FilterToPreset(f) \in Preset
       /\ \A l \in Levels :
            [f EXCEPT !.hide = [m \in DOMAIN @ \cup {l} |->
               IF m = l THEN ~(l \in DOMAIN f.hide /\ f.hide[l]) ELSE f.hide[m]]] \in Filter
       /\ \A s \in Searches : [f EXCEPT !.search = s] \in Filter
       /\ \A c \in Clients : [f EXCEPT !.client = c] \in Filter
       /\ \A b \in BOOLEAN : [f EXCEPT !.pin = b] \in Filter
<1>1. ASSUME NEW seed \in SUBSET Levels, NEW pins \in BOOLEAN
      PROVE  NewLogFilter([seed |-> seed, pins |-> pins]) \in Filter
  <2>1. [l \in seed |-> TRUE] \in HideMaps
    BY HideMap
  <2> QED BY <2>1, PresetsAssumption DEF NewLogFilter, Filter
<1>2. ASSUME NEW source \in Sources PROVE NewLogFilter(source) \in Filter
  <2>1. source \in [seed : SUBSET Levels, pins : BOOLEAN]
    BY PresetsAssumption
  <2>2. source = [seed |-> source.seed, pins |-> source.pins]
    BY <2>1
  <2> QED BY <1>1, <2>1, <2>2
<1>3. ASSUME NEW f \in Filter
      PROVE  /\ Reset(f) \in Filter
             /\ FilterToPreset(f) \in Preset
             /\ \A l \in Levels :
                  [f EXCEPT !.hide = [m \in DOMAIN @ \cup {l} |->
                     IF m = l THEN ~(l \in DOMAIN f.hide /\ f.hide[l]) ELSE f.hide[m]]] \in Filter
             /\ \A s \in Searches : [f EXCEPT !.search = s] \in Filter
             /\ \A c \in Clients : [f EXCEPT !.client = c] \in Filter
             /\ \A b \in BOOLEAN : [f EXCEPT !.pin = b] \in Filter
  <2>0. /\ f.hide \in HideMaps /\ f.seed \in SUBSET Levels /\ f.pins \in BOOLEAN
        /\ f.search \in Searches /\ f.client \in Clients
    BY DEF Filter
  <2>1. Reset(f) \in Filter
    BY <1>1, <2>0 DEF Reset
  <2>2. DOMAIN f.hide \in SUBSET Levels /\ f.hide \in [DOMAIN f.hide -> BOOLEAN]
    BY <2>0, HideMapIs
  <2>3. FilterToPreset(f) \in Preset
    BY <2>0, <2>2 DEF FilterToPreset, Preset, Hidden
  <2>4. ASSUME NEW l \in Levels
        PROVE  [f EXCEPT !.hide = [m \in DOMAIN @ \cup {l} |->
                  IF m = l THEN ~(l \in DOMAIN f.hide /\ f.hide[l]) ELSE f.hide[m]]] \in Filter
    <3> DEFINE h == [m \in DOMAIN f.hide \cup {l} |->
                       IF m = l THEN ~(l \in DOMAIN f.hide /\ f.hide[l]) ELSE f.hide[m]]
    <3>1. h \in [DOMAIN f.hide \cup {l} -> BOOLEAN]
      BY <2>2
    <3>2. DOMAIN f.hide \cup {l} \in SUBSET Levels
      BY <2>2
    <3>3. h \in HideMaps
      <4> HIDE DEF h
      <4> QED BY <3>1, <3>2, HideMap
    <3> HIDE DEF h
    <3>4. [f EXCEPT !.hide = h] \in Filter
      BY <3>3 DEF Filter
    <3> QED BY <3>4 DEF h
  <2>5. ASSUME NEW s \in Searches PROVE [f EXCEPT !.search = s] \in Filter
    BY DEF Filter
  <2>6. ASSUME NEW c \in Clients PROVE [f EXCEPT !.client = c] \in Filter
    BY DEF Filter
  <2>7. ASSUME NEW b \in BOOLEAN PROVE [f EXCEPT !.pin = b] \in Filter
    BY DEF Filter
  <2> QED BY <2>1, <2>3, <2>4, <2>5, <2>6, <2>7
<1> QED BY <1>2, <1>3

\* A preset loaded is the preset saved, whatever filter it is loaded over.
LEMMA PresetKept ==
  ASSUME NEW p \in Preset, NEW base \in Filter
  PROVE  /\ PresetToFilter(p, base) \in Filter
         /\ FilterToPreset(PresetToFilter(p, base)) = p
         /\ Hidden(PresetToFilter(p, base)) = p.hide
         /\ PresetToFilter(p, base).search = p.search
         /\ PresetToFilter(p, base).client = p.client
         /\ PresetToFilter(p, base).pin = FALSE
<1> DEFINE f == PresetToFilter(p, base)
           h == [l \in p.hide |-> TRUE]
<1>1. /\ p = [search |-> p.search, client |-> p.client, hide |-> p.hide]
      /\ p.search \in Searches /\ p.client \in Clients /\ p.hide \in SUBSET Levels
  BY DEF Preset
<1>2. Reset(base) \in Filter /\ Reset(base).pin = FALSE
  <2>1. Reset(base).pin = FALSE
    BY DEF Reset, NewLogFilter
  <2> QED BY <2>1, FilterTypes
<1>3. h \in HideMaps
  BY <1>1, HideMap
<1>4. f = [Reset(base) EXCEPT !.hide = h, !.search = p.search, !.client = p.client]
  BY DEF PresetToFilter
<1>5. /\ f \in Filter /\ f.hide = h /\ f.search = p.search /\ f.client = p.client /\ f.pin = FALSE
  <2> HIDE DEF h, f
  <2> QED BY <1>1, <1>2, <1>3, <1>4 DEF Filter
<1>6. Hidden(f) = p.hide
  <2> HIDE DEF f
  <2> QED BY <1>5 DEF Hidden
<1>7. FilterToPreset(f) = p
  <2> HIDE DEF f
  <2> QED BY <1>1, <1>5, <1>6 DEF FilterToPreset
<1> QED BY <1>5, <1>6, <1>7

------------------------------------------------------------------------------
(***************************************************************************)
(* The invariant.                                                          *)
(***************************************************************************)

\* What the next start makes of the files.
Readable == IF Found \in {NoFile, Broken} THEN <<>> ELSE Found

\* The presets m are those of the filters saved.
Keeps(m, filters) ==
  DOMAIN m = DOMAIN filters /\ \A s \in DOMAIN m : m[s] = FilterToPreset(filters[s])

SaveCommand == [id : Nat, snap : PresetMaps, pc : {"ready", "created"}]

PresetTypes ==
  /\ running \in BOOLEAN /\ told \in BOOLEAN
  /\ filter \in Filter
  /\ items \in PresetMaps
  /\ saves \subseteq SaveCommand
  /\ file \in Contents /\ legacy \in Contents
  /\ \A c \in saves : c.pc = "created" => file # NoFile
  /\ count \in Nat

\* On disk, while no save is under way.
DiskKeeps ==
  saves = {} =>
    /\ Keeps(Readable, saved)
    /\ file # Broken
    /\ file # NoFile => DOMAIN file # {}

\* A save under way, the only one, saves what the dashboard holds.
SaveKeeps ==
  \A c \in saves :
    /\ saves = {c} /\ running
    /\ c.snap = items /\ DOMAIN items # {}
    /\ c.pc = "created" => file = <<>>

\* In the dashboard, while it runs.
ShownKeeps ==
  running =>
    /\ Keeps(items, saved)
    /\ told => legacy = Broken
    /\ legacy = Broken /\ DOMAIN items = {} => told

PresetInv ==
  /\ PresetTypes
  /\ ~running => saves = {}
  /\ saved # Lost => DiskKeeps /\ SaveKeeps /\ ShownKeeps

LEMMA FoundType == PresetTypes => Found \in Contents /\ Readable \in PresetMaps
<1> SUFFICES ASSUME PresetTypes PROVE Found \in Contents /\ Readable \in PresetMaps
  OBVIOUS
<1>1. Found \in Contents
  BY DEF Found, PresetTypes
<1>2. Readable \in PresetMaps
  BY <1>1, EmptyMap DEF Readable, Contents
<1> QED BY <1>1, <1>2

LEMMA FilesDiffer == NoFile # Broken /\ <<>> # NoFile /\ <<>> # Broken
BY PresetsAssumption, EmptyMap, PresetMapIs

LEMMA PresetInitial == PresetsInit => PresetInv
<1> SUFFICES ASSUME PresetsInit PROVE PresetInv
  OBVIOUS
<1>1. filter \in Filter
  BY FilterTypes DEF PresetsInit
<1>2. PresetTypes
  BY <1>1, EmptyMap, PresetsAssumption DEF PresetsInit, PresetTypes, Contents
<1>3. Found = legacy
  BY DEF PresetsInit, Found
<1>4. Keeps(Readable, saved)
  <2>1. CASE legacy \in {NoFile, Broken}
    <3>1. Readable = <<>> /\ saved = <<>>
      BY <1>3, <2>1 DEF PresetsInit, Readable
    <3> QED BY <3>1, EmptyMap DEF Keeps
  <2>2. CASE legacy \notin {NoFile, Broken}
    <3>1. legacy \in PresetMaps
      BY <2>2, PresetsAssumption DEF PresetsInit
    <3>2. Readable = legacy /\ saved = [s \in DOMAIN legacy |-> PresetToFilter(legacy[s], filter)]
      BY <1>3, <2>2 DEF PresetsInit, Readable
    <3>3. \A s \in DOMAIN legacy : legacy[s] = FilterToPreset(PresetToFilter(legacy[s], filter))
      BY <1>1, <3>1, PresetMapIs, PresetKept
    <3> QED BY <3>2, <3>3 DEF Keeps
  <2> QED BY <2>1, <2>2
<1>5. DiskKeeps /\ SaveKeeps /\ ShownKeeps
  BY <1>4, FilesDiffer DEF PresetsInit, DiskKeeps, SaveKeeps, ShownKeeps
<1> QED BY <1>2, <1>5 DEF PresetInv, PresetsInit

\* A step that changes the filter only.
LEMMA ChangeKeeps ==
  ASSUME PresetInv, NEW f \in Filter, Change(f) PROVE PresetInv'
<1>1. /\ filter' = f
      /\ UNCHANGED <<running, items, told, saves, file, legacy, saved, count>>
  BY DEF Change
<1>2. Readable' = Readable
  BY <1>1 DEF Readable, Found
<1>3. PresetTypes'
  BY <1>1 DEF PresetInv, PresetTypes
<1>4. DiskKeeps => DiskKeeps'
  BY <1>1, <1>2 DEF DiskKeeps, Keeps
<1>5. SaveKeeps => SaveKeeps'
  BY <1>1 DEF SaveKeeps
<1>6. ShownKeeps => ShownKeeps'
  BY <1>1 DEF ShownKeeps, Keeps
<1> QED BY <1>1, <1>3, <1>4, <1>5, <1>6 DEF PresetInv

LEMMA KeysKeep ==
  ASSUME PresetInv
  PROVE  /\ (\E l \in Levels : ToggleLevel(l)) => PresetInv'
         /\ SetText => PresetInv'
         /\ ClearFilter => PresetInv'
         /\ SwitchSource => PresetInv'
         /\ (\E slot \in Slots : KeyLoadPreset(slot)) => PresetInv'
<1>0. filter \in Filter
  BY DEF PresetInv, PresetTypes
<1>1. ASSUME NEW l \in Levels, ToggleLevel(l) PROVE PresetInv'
  <2> DEFINE f == [filter EXCEPT !.hide = [m \in DOMAIN @ \cup {l} |->
                     IF m = l THEN ~(l \in DOMAIN filter.hide /\ filter.hide[l]) ELSE filter.hide[m]]]
  <2>1. f \in Filter
    BY <1>0, FilterTypes
  <2>2. Change(f)
    BY <1>1 DEF ToggleLevel
  <2> HIDE DEF f
  <2> QED BY <2>1, <2>2, ChangeKeeps
<1>2. ASSUME SetText PROVE PresetInv'
  <2>1. PICK f \in Filter : Change(f)
    <3>0. /\ \A s \in Searches : [filter EXCEPT !.search = s] \in Filter
          /\ \A c \in Clients : [filter EXCEPT !.client = c] \in Filter
          /\ \A b \in BOOLEAN : [filter EXCEPT !.pin = b] \in Filter
      BY <1>0, FilterTypes
    <3>1. CASE \E s \in Searches : Change([filter EXCEPT !.search = s])
      BY <3>0, <3>1, Zenon
    <3>2. CASE \E c \in Clients : Change([filter EXCEPT !.client = c])
      BY <3>0, <3>2, Zenon
    <3>3. CASE \E b \in BOOLEAN : Change([filter EXCEPT !.pin = b])
      BY <3>0, <3>3, Zenon
    <3> QED BY <1>2, <3>1, <3>2, <3>3 DEF SetText
  <2> QED BY <2>1, ChangeKeeps
<1>3. ASSUME ClearFilter PROVE PresetInv'
  BY <1>0, <1>3, FilterTypes, ChangeKeeps DEF ClearFilter
<1>4. ASSUME SwitchSource PROVE PresetInv'
  BY <1>4, FilterTypes, ChangeKeeps DEF SwitchSource
<1>5. ASSUME NEW slot \in Slots, KeyLoadPreset(slot) PROVE PresetInv'
  <2>1. items \in PresetMaps /\ slot \in DOMAIN items /\ Change(PresetToFilter(items[slot], filter))
    BY <1>5 DEF KeyLoadPreset, PresetInv, PresetTypes
  <2>2. items[slot] \in Preset
    BY <2>1, PresetMapIs
  <2>3. PresetToFilter(items[slot], filter) \in Filter
    BY <1>0, <2>2, PresetKept
  <2> QED BY <2>1, <2>3, ChangeKeeps
<1> QED BY <1>1, <1>2, <1>3, <1>4, <1>5

LEMMA NextSlotIn == NextSlot # 0 => NextSlot \in Slots
<1> SUFFICES ASSUME FreeSlots # {} PROVE NextSlot \in Slots
  BY DEF NextSlot
<1>1. Slots \subseteq Nat
  <2>1. PICK n \in Nat : n = Cardinality(Slots)
    BY PresetsAssumption, FS_CardinalityType
  <2>2. Slots = 1..n
    BY <2>1, PresetsAssumption, Zenon
  <2> QED BY <2>2
<1>2. FreeSlots \in SUBSET Nat /\ FreeSlots \subseteq Slots
  BY <1>1 DEF FreeSlots
<1>3. \E x \in FreeSlots : \A y \in FreeSlots : x <= y
  BY <1>2, LeastElement
<1>4. Min(FreeSlots) \in FreeSlots
  BY <1>3 DEF Min
<1> QED BY <1>2, <1>4 DEF NextSlot

LEMMA SaveKeyKeeps ==
  ASSUME PresetInv, running, KeySavePreset PROVE PresetInv'
<1> DEFINE k == NextSlot
           p == FilterToPreset(filter)
           new == [s \in DOMAIN items \cup {k} |-> IF s = k THEN p ELSE items[s]]
           c == [id |-> count, snap |-> new, pc |-> "ready"]
<1>0. PresetTypes
  BY DEF PresetInv
<1>1. /\ k # 0 /\ items' = new /\ saves' = saves \cup {c} /\ count' = count + 1
      /\ saved' = IF saved = Lost \/ saves # {} THEN Lost
                  ELSE [s \in DOMAIN saved \cup {k} |-> IF s = k THEN filter ELSE saved[s]]
      /\ UNCHANGED <<running, filter, told, file, legacy>>
  BY DEF KeySavePreset
<1>2. new \in PresetMaps
  <2>1. /\ DOMAIN items \in SUBSET Slots /\ \A s \in DOMAIN items : items[s] \in Preset
        /\ k \in Slots /\ p \in Preset
    BY <1>0, <1>1, PresetMapIs, NextSlotIn, FilterTypes DEF PresetTypes
  <2> HIDE DEF k, p
  <2>2. DOMAIN items \cup {k} \in SUBSET Slots /\ new \in [DOMAIN items \cup {k} -> Preset]
    BY <2>1
  <2> HIDE DEF new
  <2> QED BY <2>2, PresetMap
<1>3. DOMAIN new = DOMAIN items \cup {k} /\ k \in DOMAIN new
  OBVIOUS
<1>4. PresetTypes'
  <2>1. c \in SaveCommand
    BY <1>0, <1>2 DEF PresetTypes, SaveCommand
  <2>2. c.pc = "ready"
    OBVIOUS
  <2> HIDE DEF c, new
  <2> QED BY <1>0, <1>1, <1>2, <2>1, <2>2 DEF PresetTypes
<1>5. ASSUME saved' # Lost PROVE DiskKeeps' /\ SaveKeeps' /\ ShownKeeps'
  <2>1. /\ saved # Lost /\ saves = {}
        /\ saved' = [s \in DOMAIN saved \cup {k} |-> IF s = k THEN filter ELSE saved[s]]
    BY <1>1, <1>5
  <2>2. DiskKeeps /\ ShownKeeps
    BY <2>1 DEF PresetInv
  <2>3. saves' = {c} /\ c.snap = new /\ c.pc = "ready"
    BY <1>1, <2>1
  <2>4. Keeps(items, saved) /\ (told => legacy = Broken)
    BY <2>2 DEF ShownKeeps
  <2>5. Keeps(items', saved')
    <3>1. DOMAIN items = DOMAIN saved /\ \A s \in DOMAIN items : items[s] = FilterToPreset(saved[s])
      BY <2>4 DEF Keeps
    <3>2. DOMAIN items' = DOMAIN saved'
      BY <1>1, <2>1, <3>1
    <3>3. ASSUME NEW s \in DOMAIN items' PROVE items'[s] = FilterToPreset(saved'[s])
      <4>1. s \in DOMAIN items \cup {k}
        BY <1>1, <3>3
      <4>2. CASE s = k
        <5>1. items'[s] = p /\ saved'[s] = filter
          BY <1>1, <2>1, <4>2
        <5> QED BY <5>1
      <4>3. CASE s # k
        <5>1. items'[s] = items[s] /\ saved'[s] = saved[s]
          BY <1>1, <2>1, <3>1, <4>1, <4>3
        <5> QED BY <3>1, <4>1, <4>3, <5>1
      <4> QED BY <4>2, <4>3
    <3> QED BY <3>2, <3>3 DEF Keeps
  <2>6. DOMAIN items' # {}
    BY <1>1, <1>3
  <2> HIDE DEF c, new
  <2>7. DiskKeeps'
    BY <2>3 DEF DiskKeeps
  <2>8. SaveKeeps'
    BY <1>1, <2>3, <2>6 DEF SaveKeeps
  <2>9. ShownKeeps'
    BY <1>1, <2>4, <2>5, <2>6 DEF ShownKeeps
  <2> QED BY <2>7, <2>8, <2>9
<1> QED BY <1>1, <1>4, <1>5 DEF PresetInv

LEMMA CreateKeeps ==
  ASSUME PresetInv, NEW c \in saves, Create(c) PROVE PresetInv'
<1> DEFINE d == [c EXCEPT !.pc = "created"]
<1>0. PresetTypes /\ c \in SaveCommand
  BY DEF PresetInv, PresetTypes
<1>1. /\ file' = <<>> /\ saves' = (saves \ {c}) \cup {d}
      /\ UNCHANGED <<running, filter, items, told, legacy, saved, count>>
  BY DEF Create
<1>2. d \in SaveCommand /\ d.snap = c.snap /\ d.pc = "created"
  BY <1>0 DEF SaveCommand
<1> HIDE DEF d
<1>3. PresetTypes'
  BY <1>0, <1>1, <1>2, EmptyMap, FilesDiffer DEF PresetTypes, Contents
<1>4. ASSUME saved # Lost PROVE DiskKeeps' /\ SaveKeeps' /\ ShownKeeps'
  <2>1. SaveKeeps /\ ShownKeeps
    BY <1>4 DEF PresetInv
  <2>2. saves = {c} /\ running /\ c.snap = items /\ DOMAIN items # {}
    BY <2>1 DEF SaveKeeps
  <2>3. saves' = {d}
    BY <1>1, <2>2
  <2>4. DiskKeeps'
    BY <2>3 DEF DiskKeeps
  <2>5. SaveKeeps'
    BY <1>1, <1>2, <2>2, <2>3 DEF SaveKeeps
  <2>6. ShownKeeps'
    BY <1>1, <2>1 DEF ShownKeeps, Keeps
  <2> QED BY <2>4, <2>5, <2>6
<1>5. running
  BY DEF PresetInv
<1> QED BY <1>1, <1>3, <1>4, <1>5 DEF PresetInv

\* Whatever overlaps, the file is one that can be read, or is broken.
LEMMA OverlayTypes ==
  ASSUME NEW snap \in PresetMaps, NEW on \in Contents, on # NoFile,
         NEW after \in Overlay(snap, on)
  PROVE  after \in PresetMaps \cup {Broken}
<1>1. CASE on = Broken
  BY <1>1 DEF Overlay
<1>2. CASE on # Broken
  <2>1. on \in PresetMaps
    BY <1>2 DEF Contents
  <2>2. ASSUME NEW T \in SUBSET {s \in DOMAIN on : \A t \in DOMAIN snap : t < s}
        PROVE  [s \in DOMAIN snap \cup T |-> IF s \in DOMAIN snap THEN snap[s] ELSE on[s]] \in PresetMaps
    <3> DEFINE m == [s \in DOMAIN snap \cup T |-> IF s \in DOMAIN snap THEN snap[s] ELSE on[s]]
    <3>1. /\ DOMAIN snap \in SUBSET Slots /\ \A s \in DOMAIN snap : snap[s] \in Preset
          /\ DOMAIN on \in SUBSET Slots /\ \A s \in DOMAIN on : on[s] \in Preset
      BY <2>1, PresetMapIs
    <3>2. DOMAIN snap \cup T \in SUBSET Slots /\ m \in [DOMAIN snap \cup T -> Preset]
      BY <3>1
    <3> HIDE DEF m
    <3>3. m \in PresetMaps
      BY <3>2, PresetMap
    <3> QED BY <3>3 DEF m
  <2>3. \/ after \in {snap, on, Broken}
        \/ \E T \in SUBSET {s \in DOMAIN on : \A t \in DOMAIN snap : t < s} :
             after = [s \in DOMAIN snap \cup T |-> IF s \in DOMAIN snap THEN snap[s] ELSE on[s]]
    BY <1>2 DEF Overlay
  <2> QED BY <2>1, <2>2, <2>3
<1> QED BY <1>1, <1>2

LEMMA EncodeKeeps ==
  ASSUME PresetInv, NEW c \in saves, Encode(c) PROVE PresetInv'
<1>0. PresetTypes /\ c \in SaveCommand /\ c.snap \in PresetMaps
  BY DEF PresetInv, PresetTypes, SaveCommand
<1>1. /\ c.pc = "created" /\ file' \in Overlay(c.snap, file) /\ saves' = saves \ {c}
      /\ UNCHANGED <<running, filter, items, told, legacy, saved, count>>
  BY DEF Encode
<1>2. file \in Contents /\ file # NoFile
  BY <1>0, <1>1 DEF PresetTypes
<1>3. file' \in PresetMaps \cup {Broken}
  BY <1>0, <1>1, <1>2, OverlayTypes
<1>4. file' \in Contents /\ file' # NoFile
  BY <1>3, FilesDiffer, PresetMapIs DEF Contents
<1>5. PresetTypes'
  BY <1>0, <1>1, <1>4 DEF PresetTypes
<1>6. ASSUME saved # Lost PROVE DiskKeeps' /\ SaveKeeps' /\ ShownKeeps'
  <2>1. SaveKeeps /\ ShownKeeps
    BY <1>6 DEF PresetInv
  <2>2. saves = {c} /\ running /\ c.snap = items /\ DOMAIN items # {} /\ file = <<>>
    BY <1>1, <2>1 DEF SaveKeeps
  <2>3. file' = items
    <3>1. Begins(file, c.snap)
      BY <2>2, EmptyMap DEF Begins
    <3>2. file # Broken
      BY <2>2, FilesDiffer
    <3> QED BY <1>1, <2>2, <3>1, <3>2 DEF Overlay
  <2>4. Readable' = items /\ items # Broken
    <3>1. items # NoFile /\ items # Broken
      BY <1>0, PresetMapIs DEF PresetTypes
    <3> QED BY <2>3, <3>1 DEF Readable, Found
  <2>5. Keeps(items, saved)
    BY <2>1, <2>2 DEF ShownKeeps
  <2>6. DiskKeeps'
    BY <1>1, <2>2, <2>3, <2>4, <2>5 DEF DiskKeeps, Keeps
  <2>7. SaveKeeps'
    BY <1>1, <2>2 DEF SaveKeeps
  <2>8. ShownKeeps'
    BY <1>1, <2>1 DEF ShownKeeps, Keeps
  <2> QED BY <2>6, <2>7, <2>8
<1>7. (~running => saves = {})'
  BY <1>1 DEF PresetInv
<1> QED BY <1>1, <1>5, <1>6, <1>7 DEF PresetInv

LEMMA FailSaveKeeps ==
  ASSUME PresetInv, NEW c \in saves, FailSave(c) PROVE PresetInv'
<1>1. /\ saves' = saves \ {c} /\ saved' = Lost
      /\ UNCHANGED <<running, filter, items, told, file, legacy, count>>
  BY DEF FailSave
<1>2. PresetTypes'
  BY <1>1 DEF PresetInv, PresetTypes
<1> QED BY <1>1, <1>2 DEF PresetInv

LEMMA StartKeeps ==
  ASSUME PresetInv, Start PROVE PresetInv'
<1>1. /\ saves = {} /\ running' = TRUE /\ items' = Readable /\ told' = (Found = Broken)
      /\ UNCHANGED <<filter, saves, file, legacy, saved, count>>
  BY DEF Start, PresetInv, Readable
<1>2. Readable' = Readable
  BY <1>1 DEF Readable, Found
<1>3. PresetTypes'
  BY <1>1, FoundType DEF PresetInv, PresetTypes
<1>4. ASSUME saved # Lost PROVE DiskKeeps' /\ SaveKeeps' /\ ShownKeeps'
  <2>1. Keeps(Readable, saved) /\ file # Broken /\ (file # NoFile => DOMAIN file # {})
    BY <1>1, <1>4 DEF PresetInv, DiskKeeps
  <2>2. DiskKeeps'
    BY <1>1, <1>2, <2>1 DEF DiskKeeps, Keeps
  <2>3. SaveKeeps'
    BY <1>1 DEF SaveKeeps
  <2>4. told' => legacy' = Broken
    BY <1>1, <2>1 DEF Found
  <2>5. ASSUME legacy = Broken, DOMAIN items' = {} PROVE told'
    <3>1. CASE file = NoFile
      BY <1>1, <2>5, <3>1 DEF Found
    <3>2. CASE file # NoFile
      BY <1>1, <2>1, <2>5, <3>2 DEF Found, Readable
    <3> QED BY <3>1, <3>2
  <2>6. Keeps(items', saved')
    BY <1>1, <2>1 DEF Keeps
  <2>7. ShownKeeps'
    BY <1>1, <2>4, <2>5, <2>6 DEF ShownKeeps
  <2> QED BY <2>2, <2>3, <2>7
<1> QED BY <1>1, <1>3, <1>4 DEF PresetInv

LEMMA QuitKeeps ==
  ASSUME PresetInv, Quit PROVE PresetInv'
<1>1. /\ \E source \in Sources : filter' = NewLogFilter(source)
      /\ running' = FALSE /\ items' = <<>> /\ told' = FALSE /\ saves' = {}
      /\ saved' = IF saves = {} THEN saved ELSE Lost
      /\ UNCHANGED <<file, legacy, count>>
  BY DEF Quit
<1>2. filter' \in Filter
  BY <1>1, FilterTypes
<1>3. PresetTypes'
  BY <1>1, <1>2, EmptyMap DEF PresetInv, PresetTypes
<1>4. ASSUME saved' # Lost PROVE DiskKeeps' /\ SaveKeeps' /\ ShownKeeps'
  <2>1. saves = {} /\ saved' = saved
    BY <1>1, <1>4
  <2>2. DiskKeeps
    BY <1>4, <2>1 DEF PresetInv
  <2>3. Readable' = Readable
    BY <1>1 DEF Readable, Found
  <2>4. DiskKeeps'
    BY <1>1, <2>1, <2>2, <2>3 DEF DiskKeeps, Keeps
  <2> QED BY <1>1, <2>4 DEF SaveKeeps, ShownKeeps
<1> QED BY <1>1, <1>3, <1>4 DEF PresetInv

LEMMA PresetStep == PresetInv /\ [PresetsNext]_presetVars => PresetInv'
<1> SUFFICES ASSUME PresetInv, [PresetsNext]_presetVars PROVE PresetInv'
  OBVIOUS
<1>1. CASE Start
  BY <1>1, StartKeeps
<1>2. CASE running /\ (\E l \in Levels : ToggleLevel(l))
  BY <1>2, KeysKeep
<1>3. CASE running /\ (SetText \/ ClearFilter \/ SwitchSource)
  BY <1>3, KeysKeep
<1>4. CASE running /\ KeySavePreset
  BY <1>4, SaveKeyKeeps
<1>5. CASE running /\ \E c \in saves : Create(c) \/ Encode(c) \/ FailSave(c)
  BY <1>5, CreateKeeps, EncodeKeeps, FailSaveKeeps
<1>6. CASE running /\ \E slot \in Slots : KeyLoadPreset(slot)
  BY <1>6, KeysKeep
<1>7. CASE running /\ Quit
  BY <1>7, QuitKeeps
<1>8. CASE UNCHANGED presetVars
  <2>1. Readable' = Readable
    BY <1>8 DEF presetVars, Readable, Found
  <2> QED BY <1>8, <2>1
          DEF presetVars, PresetInv, PresetTypes, DiskKeeps, SaveKeeps, ShownKeeps, Keeps
<1> QED BY <1>1, <1>2, <1>3, <1>4, <1>5, <1>6, <1>7, <1>8 DEF PresetsNext

------------------------------------------------------------------------------
(***************************************************************************)
(* The rows that a filter shows.                                           *)
(***************************************************************************)
Row == [level : STRING, texts : SUBSET STRING, client : STRING, pin : BOOLEAN]

\* The first n rows have been tried.
Tried(out, f) ==
  out = [n \in 0..Len(Rows) |->
           IF n = 0 THEN <<>>
           ELSE IF Match(f, Rows[n]) THEN Append(out[n - 1], Rows[n]) ELSE out[n - 1]]

\* Those of them that match.
Matching(f, n) == {m \in 1..n : Match(f, Rows[m])}

\* s is what they leave.
ShowsMatching(s, f, n) ==
  /\ s \in Seq(Row)
  /\ Len(s) = Cardinality(Matching(f, n))
  /\ \A m \in Matching(f, n) : s[Cardinality(Matching(f, m))] = Rows[m]

LEMMA RowsType == Rows \in Seq(Row) /\ Len(Rows) \in Nat /\ \A n \in 1..Len(Rows) : Rows[n] \in Row
BY PresetsAssumption, LenProperties, ElementOfSeq DEF Row

LEMMA TriedExists == ASSUME NEW f PROVE \E out : Tried(out, f)
<1> DEFINE N == Len(Rows)
           step == [c \in (1..N) \X Seq(Row) |->
                      IF Match(f, Rows[c[1]]) THEN Append(c[2], Rows[c[1]]) ELSE c[2]]
<1>1. N \in Nat /\ <<>> \in Seq(Row)
  BY RowsType, EmptySeq
<1>2. step \in [(1..N) \X Seq(Row) -> Seq(Row)]
  <2>1. ASSUME NEW c \in (1..N) \X Seq(Row)
        PROVE  (IF Match(f, Rows[c[1]]) THEN Append(c[2], Rows[c[1]]) ELSE c[2]) \in Seq(Row)
    <3>1. c[1] \in 1..N /\ c[2] \in Seq(Row) /\ Rows[c[1]] \in Row
      BY RowsType
    <3>2. Append(c[2], Rows[c[1]]) \in Seq(Row)
      BY <3>1, AppendProperties
    <3> QED BY <3>1, <3>2
  <2> QED BY <2>1
<1>3. PICK out \in [0..N -> Seq(Row)] :
        out = [n \in 0..N |-> IF n = 0 THEN <<>> ELSE step[<<n, out[n - 1]>>]]
  <2> DEFINE V == Seq(Row)
             none == <<>>
  <2>1. N \in Nat /\ none \in V /\ step \in [(1..N) \X V -> V]
    BY <1>1, <1>2
  <2> HIDE DEF step, N, V, none
  <2>2. \E out \in [0..N -> V] : IsRecursion(out, N, none, step)
    BY <2>1, RecursionExists
  <2> QED BY <2>2 DEF V, none, IsRecursion
<1>4. ASSUME NEW n \in 0..N, n # 0
      PROVE  step[<<n, out[n - 1]>>]
               = IF Match(f, Rows[n]) THEN Append(out[n - 1], Rows[n]) ELSE out[n - 1]
  <2>1. n \in 1..N /\ n - 1 \in 0..N
    BY <1>1, <1>4
  <2>2. <<n, out[n - 1]>> \in (1..N) \X Seq(Row)
    BY <2>1
  <2> QED BY <2>2
<1> HIDE DEF step
<1>5. out = [n \in 0..N |-> IF n = 0 THEN <<>>
               ELSE IF Match(f, Rows[n]) THEN Append(out[n - 1], Rows[n]) ELSE out[n - 1]]
  BY <1>3, <1>4
<1> QED BY <1>5 DEF Tried

\* The next row.
LEMMA NextRow ==
  ASSUME NEW f, NEW n \in 1..Len(Rows), NEW s, ShowsMatching(s, f, n - 1)
  PROVE  ShowsMatching(IF Match(f, Rows[n]) THEN Append(s, Rows[n]) ELSE s, f, n)
<1> DEFINE B == Matching(f, n - 1)
<1>1. n \in Nat /\ n - 1 \in Nat /\ Rows[n] \in Row
  BY RowsType
<1>2. IsFiniteSet(B) /\ Cardinality(B) \in Nat
  <2>1. IsFiniteSet(1..(n - 1))
    BY <1>1, FS_Interval
  <2>2. B \subseteq 1..(n - 1)
    BY DEF Matching
  <2> QED BY <2>1, <2>2, FS_Subset, FS_CardinalityType
<1>3. /\ s \in Seq(Row) /\ Len(s) = Cardinality(B)
      /\ \A m \in B : s[Cardinality(Matching(f, m))] = Rows[m]
  BY DEF ShowsMatching
<1>4. \A m \in B : Cardinality(Matching(f, m)) \in 1..Len(s)
  <2> SUFFICES ASSUME NEW m \in B PROVE Cardinality(Matching(f, m)) \in 1..Len(s)
    OBVIOUS
  <2>1. m \in Matching(f, m) /\ Matching(f, m) \subseteq B
    BY <1>1 DEF Matching
  <2>2. /\ IsFiniteSet(Matching(f, m)) /\ Cardinality(Matching(f, m)) <= Cardinality(B)
        /\ Cardinality(Matching(f, m)) \in Nat
    BY <1>2, <2>1, FS_Subset, FS_CardinalityType
  <2>3. Cardinality(Matching(f, m)) # 0
    BY <2>1, <2>2, FS_EmptySet
  <2> QED BY <1>2, <1>3, <2>2, <2>3
<1>5. CASE Match(f, Rows[n])
  <2>1. Matching(f, n) = B \cup {n} /\ n \notin B
    BY <1>1, <1>5 DEF Matching
  <2>2. Cardinality(Matching(f, n)) = Cardinality(B) + 1
    BY <1>2, <2>1, FS_AddElement
  <2>3. /\ Append(s, Rows[n]) \in Seq(Row) /\ Len(Append(s, Rows[n])) = Len(s) + 1
        /\ \A i \in 1..Len(s) : Append(s, Rows[n])[i] = s[i]
        /\ Append(s, Rows[n])[Len(s) + 1] = Rows[n]
    BY <1>1, <1>3, AppendProperties
  <2>4. \A m \in Matching(f, n) : Append(s, Rows[n])[Cardinality(Matching(f, m))] = Rows[m]
    BY <1>3, <1>4, <2>1, <2>2, <2>3
  <2> QED BY <1>3, <1>5, <2>2, <2>3, <2>4 DEF ShowsMatching
<1>6. CASE ~Match(f, Rows[n])
  <2>1. Matching(f, n) = B
    BY <1>1, <1>6 DEF Matching
  <2> QED BY <1>3, <1>6, <2>1 DEF ShowsMatching
<1> QED BY <1>5, <1>6

LEMMA PassingShows == ASSUME NEW f PROVE ShowsMatching(Passing(f), f, Len(Rows))
<1> DEFINE N == Len(Rows)
           out == CHOOSE o : Tried(o, f)
           S == {n \in Nat : n <= N => ShowsMatching(out[n], f, n)}
<1>1. Tried(out, f)
  BY TriedExists
<1>2. Passing(f) = out[N]
  BY DEF Passing, Tried
<1> HIDE DEF out
<1>3. N \in Nat
  BY RowsType
<1>4. \A n \in 0..N : out[n] = IF n = 0 THEN <<>>
        ELSE IF Match(f, Rows[n]) THEN Append(out[n - 1], Rows[n]) ELSE out[n - 1]
  BY <1>1 DEF Tried
<1>5. 0 \in S
  <2>1. out[0] = <<>> /\ Matching(f, 0) = {}
    BY <1>3, <1>4 DEF Matching
  <2>2. Cardinality(Matching(f, 0)) = 0 /\ <<>> \in Seq(Row) /\ Len(<<>>) = 0
    BY <2>1, FS_EmptySet, EmptySeq
  <2> QED BY <2>1, <2>2 DEF ShowsMatching
<1>6. ASSUME NEW n \in S \cap Nat PROVE n + 1 \in S
  <2> SUFFICES ASSUME n + 1 <= N PROVE ShowsMatching(out[n + 1], f, n + 1)
    OBVIOUS
  <2>1. n + 1 \in 1..N /\ n + 1 \in 0..N /\ (n + 1) - 1 = n /\ n + 1 # 0
    BY <1>3
  <2>2. ShowsMatching(out[n], f, n)
    BY <1>3
  <2>3. ShowsMatching(IF Match(f, Rows[n + 1]) THEN Append(out[n], Rows[n + 1]) ELSE out[n], f, n + 1)
    <3> DEFINE k == n + 1
    <3>1. k \in 1..Len(Rows) /\ ShowsMatching(out[n], f, k - 1)
      BY <2>1, <2>2
    <3> HIDE DEF k
    <3>2. ShowsMatching(IF Match(f, Rows[k]) THEN Append(out[n], Rows[k]) ELSE out[n], f, k)
      BY <3>1, NextRow
    <3> QED BY <3>2 DEF k
  <2> QED BY <1>4, <2>1, <2>3
<1>7. N \in S
  <2> HIDE DEF S, N
  <2> QED BY <1>3, <1>5, <1>6, SetInduction
<1> QED BY <1>2, <1>3, <1>7

\* The shortcut: all rows match.
LEMMA AllMatch ==
  ASSUME NEW f \in Filter, ~Active(f), DOMAIN f.hide = {}
  PROVE  ShowsMatching(Rows, f, Len(Rows))
<1>1. Hidden(f) = {} /\ f.search = "" /\ f.client = "" /\ ~f.pin
  BY DEF Active, Hidden, Filter
<1>2. \A r : Match(f, r)
  BY <1>1 DEF Match
<1>3. ASSUME NEW n \in 0..Len(Rows) PROVE Matching(f, n) = 1..n /\ Cardinality(Matching(f, n)) = n
  <2>1. Matching(f, n) = 1..n /\ n \in Nat
    BY <1>2, RowsType DEF Matching
  <2>2. Cardinality(1..n) = n
    <3>1. Cardinality(1..n) = IF 1 > n THEN 0 ELSE n - 1 + 1
      BY <2>1, FS_Interval
    <3> QED BY <2>1, <3>1
  <2> QED BY <2>1, <2>2
<1>4. /\ Matching(f, Len(Rows)) = 1..Len(Rows) /\ Cardinality(Matching(f, Len(Rows))) = Len(Rows)
      /\ \A m \in 1..Len(Rows) : Cardinality(Matching(f, m)) = m
  BY <1>3, RowsType
<1> QED BY <1>4, RowsType DEF ShowsMatching

------------------------------------------------------------------------------
(***************************************************************************)
(* The theorems.                                                           *)
(***************************************************************************)

\* Through every restart, every overlap and every failure of saves the files
\* hold presets, or are broken; and while no saves overlap and none fails or is
\* cut off, the file on disk holds exactly the filters saved, no save but the
\* one of what the dashboard shows is under way, and it shows them too.
THEOREM PresetsInvariant == PresetsSpec => []PresetInv
<1>1. PresetsInit => PresetInv
  BY PresetInitial
<1>2. PresetInv /\ [PresetsNext]_presetVars => PresetInv'
  BY PresetStep
<1> QED BY <1>1, <1>2, PTL DEF PresetsSpec

\* Each slot brings back the filter saved in it, whatever happened between, the
\* pins apart (keySavePreset, Save, LoadPresets, filterToPreset, presetToFilter).
THEOREM PresetsReadBack == PresetsSpec => []ReadBack
<1>1. PresetInv => ReadBack
  <2> SUFFICES ASSUME PresetInv, running, saved # Lost
               PROVE  /\ DOMAIN items = DOMAIN saved
                      /\ \A s \in DOMAIN items :
                           LET f == PresetToFilter(items[s], filter)
                           IN  <<Hidden(f), f.search, f.client, f.pin>> = Kept(saved[s])
                      /\ told => legacy = Broken
                      /\ legacy = Broken /\ items = <<>> => told
    BY DEF ReadBack
  <2>1. Keeps(items, saved) /\ (told => legacy = Broken) /\ (legacy = Broken /\ DOMAIN items = {} => told)
    BY DEF PresetInv, ShownKeeps
  <2>2. DOMAIN items = DOMAIN saved /\ \A s \in DOMAIN items : items[s] = FilterToPreset(saved[s])
    BY <2>1 DEF Keeps
  <2>3. ASSUME NEW s \in DOMAIN items
        PROVE  LET f == PresetToFilter(items[s], filter)
               IN  <<Hidden(f), f.search, f.client, f.pin>> = Kept(saved[s])
    <3> DEFINE f == PresetToFilter(items[s], filter)
               p == items[s]
    <3>1. items[s] \in Preset /\ filter \in Filter
      BY PresetMapIs DEF PresetInv, PresetTypes
    <3>2. Hidden(f) = p.hide /\ f.search = p.search /\ f.client = p.client /\ f.pin = FALSE
      BY <3>1, PresetKept
    <3>3. p = [search |-> saved[s].search, client |-> saved[s].client, hide |-> Hidden(saved[s])]
      BY <2>2 DEF FilterToPreset
    <3> HIDE DEF f, p
    <3>4. <<Hidden(f), f.search, f.client, f.pin>> = <<Hidden(saved[s]), saved[s].search, saved[s].client, FALSE>>
      BY <3>2, <3>3
    <3> QED BY <3>4 DEF Kept, f
  <2>4. legacy = Broken /\ items = <<>> => told
    BY <2>1, EmptyMap
  <2> QED BY <2>1, <2>2, <2>3, <2>4
<1> QED BY <1>1, PresetsInvariant, PTL
\* The stream shows the rows that match, each once and in their order, whether
\* Filtered takes its shortcut or not (Filtered, Active, Match).
THEOREM PresetsFiltered == PresetsSpec => []FilteredIsMatch
<1>1. PresetInv => FilteredIsMatch
  <2> SUFFICES ASSUME PresetInv PROVE FilteredIsMatch
    OBVIOUS
  <2>1. filter \in Filter
    BY DEF PresetInv, PresetTypes
  <2>2. ShowsMatching(Filtered(filter), filter, Len(Rows))
    BY <2>1, AllMatch, PassingShows DEF Filtered
  <2> DEFINE matching == {n \in DOMAIN Rows : Match(filter, Rows[n])}
  <2>3. matching = Matching(filter, Len(Rows))
    BY RowsType DEF Matching
  <2>4. \A n \in matching : matching \cap (1..n) = Matching(filter, n)
    BY RowsType DEF Matching
  <2>5. /\ Len(Filtered(filter)) = Cardinality(matching)
        /\ \A n \in matching : Filtered(filter)[Cardinality(matching \cap (1..n))] = Rows[n]
    BY <2>2, <2>3, <2>4 DEF ShowsMatching
  <2> QED BY <2>5 DEF FilteredIsMatch
<1> QED BY <1>1, PresetsInvariant, PTL

==============================================================================
