---------------------------- MODULE Tailer_proofs ----------------------------
(***************************************************************************)
(* What the tailer promises, for every set of paths, every start of the    *)
(* disk and every way other programs change it while the tailer runs: a    *)
(* ref identifies an event for ever, a file's events are numbered in the   *)
(* file's order and none twice, the handler's state is of one generation,  *)
(* nothing follows close, hydrate returns an event's own line unless its   *)
(* path has moved on, and the backfill is complete.                        *)
(***************************************************************************)
EXTENDS Tailer, SequenceTheorems, FiniteSetTheorems, TLAPS

\* The goroutine is at work on the path at the head of todo.
Busy == {"consider", "rotation", "truncation", "drop", "open", "read", "flush", "mark"}

\* Where the goroutine is tells what its local variables hold: a path it is
\* at work on, an open file, and a batch that is empty outside readFrom.
ControlOK ==
  /\ pc \in Busy => todo # <<>>
  /\ pc \in {"read", "flush"} => fd \in Inodes
  /\ pc \notin {"read", "flush"} => batch = <<>>

------------------------------------------------------------------------------
(***************************************************************************)
(* Facts about the data.                                                   *)
(***************************************************************************)

\* A complete line has one or two cells, all inside the file.
LEMMA LineFacts ==
  ASSUME DiskTypeOK, NEW i \in Inodes, NEW off \in Nat, HasLine(i, off)
  PROVE  /\ LineSize(i, off) \in {1, 2}
         /\ content[i][off + 1].line \in Lines
<1>1. content[i] \in Seq(Cell)
  BY ElementOfSeq, LenProperties DEF DiskTypeOK, Inodes
<1>2. Len(content[i]) \in Nat /\ content[i] \in [1..Len(content[i]) -> Cell]
  BY <1>1, LenProperties
<1>3. off + 1 \in 1..Len(content[i])
  BY <1>2 DEF HasLine
<1>4. content[i][off + 1] \in Cell
  BY <1>2, <1>3
<1> QED BY <1>4 DEF LineSize, Cell

\* The file at work.
LEMMA FileInPaths ==
  ASSUME LocalTypeOK, todo # <<>>
  PROVE  file \in Paths /\ Head(todo) \in Paths /\ Tail(todo) \in Seq(Paths)
BY HeadTailProperties DEF LocalTypeOK, file

LEMMA SizeOfFile ==
  ASSUME DiskTypeOK, NEW p \in Paths, entry[p] # NoFile
  PROVE  /\ entry[p] \in Inodes
         /\ StatOf(p) \in [ino : Nat, size : Nat, recent : BOOLEAN]
<1>1. entry[p] \in Inodes
  BY DEF DiskTypeOK
<1>2. Inodes = 1..Len(content) /\ Len(content) \in Nat
  BY LenProperties DEF DiskTypeOK, Inodes
<1>3. content[entry[p]] \in Seq(Cell)
  BY <1>1, <1>2, ElementOfSeq DEF DiskTypeOK
<1>4. Len(content[entry[p]]) \in Nat
  BY <1>3, LenProperties
<1> QED BY <1>1, <1>2, <1>4 DEF StatOf

------------------------------------------------------------------------------
(***************************************************************************)
(* Types.                                                                  *)
(***************************************************************************)

\* A group of variables that a step leaves alone keeps its types.
LEMMA GroupsKept ==
  /\ UNCHANGED diskVars => (DiskTypeOK => DiskTypeOK') /\ Inodes' = Inodes
  /\ UNCHANGED tableVars => (TableTypeOK => TableTypeOK')
  /\ UNCHANGED localVars => (LocalTypeOK => LocalTypeOK')
  /\ UNCHANGED lifeVars => (LifeTypeOK => LifeTypeOK')
  /\ UNCHANGED storeVars => (StoreTypeOK => StoreTypeOK')
  /\ UNCHANGED histVars => (HistTypeOK => HistTypeOK')
  /\ UNCHANGED hydraVars => (HydraTypeOK => HydraTypeOK')
<1>1. UNCHANGED diskVars => (DiskTypeOK => DiskTypeOK') /\ Inodes' = Inodes
  BY DEF diskVars, DiskTypeOK, Inodes
<1>2. UNCHANGED tableVars => (TableTypeOK => TableTypeOK')
  BY DEF tableVars, TableTypeOK
<1>3. UNCHANGED localVars => (LocalTypeOK => LocalTypeOK')
  BY DEF localVars, LocalTypeOK
<1>4. UNCHANGED lifeVars => (LifeTypeOK => LifeTypeOK')
  BY DEF lifeVars, LifeTypeOK
<1>5. UNCHANGED storeVars => (StoreTypeOK => StoreTypeOK')
  BY DEF storeVars, StoreTypeOK
<1>6. UNCHANGED histVars => (HistTypeOK => HistTypeOK')
  BY DEF histVars, HistTypeOK
<1>7. UNCHANGED hydraVars => (HydraTypeOK => HydraTypeOK')
  BY DEF hydraVars, HydraTypeOK
<1> QED BY <1>1, <1>2, <1>3, <1>4, <1>5, <1>6, <1>7

\* Other programs write cells and link inodes; no inode ever goes away.
LEMMA EnvironmentTypes ==
  ASSUME DiskTypeOK, Environment
  PROVE  DiskTypeOK' /\ Inodes \subseteq Inodes'
<1>1. /\ Inodes = 1..Len(content)
      /\ Len(content) \in Nat
      /\ \A i \in Inodes : content[i] \in Seq(Cell)
      /\ MaxLines \in Nat /\ MaxOps \in Nat
  BY LenProperties, ElementOfSeq, TailerAssumption DEF DiskTypeOK, Inodes
<1>2. ASSUME NEW i \in Inodes, NEW cell \in Cell, WriteCell(i, cell),
             cell.part # "tail" => written < MaxLines
      PROVE  DiskTypeOK' /\ Inodes \subseteq Inodes'
  <2>1. Append(content[i], cell) \in Seq(Cell)
    BY <1>1, AppendProperties
  <2>2. /\ content' \in Seq(Seq(Cell))
        /\ Len(content') = Len(content)
    BY <1>1, <1>2, <2>1, ExceptSeq DEF DiskTypeOK, WriteCell
  <2>3. Inodes' = Inodes
    BY <1>1, <2>2, LenProperties DEF Inodes
  <2>4. written' \in 0..MaxLines
    BY <1>1, <1>2 DEF DiskTypeOK, WriteCell
  <2> QED BY <1>2, <2>2, <2>3, <2>4 DEF DiskTypeOK, WriteCell
<1>3. ASSUME NEW p \in Paths, entry[p] # NoFile, AppendTo(entry[p])
      PROVE  DiskTypeOK' /\ Inodes \subseteq Inodes'
  <2> DEFINE i == entry[p]
  <2>1. i \in Inodes
    BY <1>3 DEF DiskTypeOK
  <2>2. CASE /\ LastCellIs(i, {"head"})
             /\ WriteCell(i, [line |-> content[i][Len(content[i])].line, part |-> "tail"])
    <3>1. content[i] # <<>> /\ content[i] \in Seq(Cell)
      BY <1>1, <2>1, <2>2 DEF LastCellIs
    <3>2. content[i][Len(content[i])] \in Cell
      BY <3>1, EmptySeq, LenProperties, ElementOfSeq
    <3>3. [line |-> content[i][Len(content[i])].line, part |-> "tail"] \in Cell
      BY <3>2 DEF Cell
    <3> QED BY <1>2, <2>1, <2>2, <3>3
  <2>3. CASE /\ written < MaxLines
             /\ \E kind \in LineKinds :
                  WriteCell(i, [line |-> written + 1,
                                part |-> IF kind = "long" THEN "head" ELSE "short"])
    <3>1. PICK kind \in LineKinds :
             WriteCell(i, [line |-> written + 1,
                           part |-> IF kind = "long" THEN "head" ELSE "short"])
      BY <2>3
    <3>2. written + 1 \in Lines
      BY <1>1, <2>3 DEF DiskTypeOK, Lines
    <3>3. [line |-> written + 1, part |-> IF kind = "long" THEN "head" ELSE "short"] \in Cell
      BY <3>2 DEF Cell
    <3> QED BY <1>2, <2>1, <2>3, <3>1, <3>3
  <2> QED BY <1>3, <2>2, <2>3 DEF AppendTo
<1>4. ASSUME Operation
      PROVE  ops' \in 0..MaxOps
  BY <1>1, <1>4 DEF Operation, DiskTypeOK
<1>5. ASSUME NEW p \in Paths, Operation, Link(p)
      PROVE  DiskTypeOK' /\ Inodes \subseteq Inodes'
  <2>1. <<>> \in Seq(Cell)
    BY EmptySeq
  <2>2. /\ content' \in Seq(Seq(Cell))
        /\ Len(content') = Len(content) + 1
    BY <1>5, <2>1, AppendProperties DEF Link, DiskTypeOK
  <2>3. Inodes' = 1..(Len(content) + 1)
    BY <2>2, LenProperties DEF Inodes
  <2>4. Inodes \subseteq Inodes' /\ Len(content) + 1 \in Inodes'
    BY <1>1, <2>3
  <2>5. entry' \in [Paths -> Inodes' \cup {NoFile}]
    BY <1>5, <2>4 DEF Link, DiskTypeOK
  <2> QED BY <1>4, <1>5, <2>2, <2>4, <2>5 DEF Link, DiskTypeOK
<1>6. ASSUME NEW p \in Paths, Operation, entry' = [entry EXCEPT ![p] = NoFile],
             UNCHANGED <<content, recent, written>>
      PROVE  DiskTypeOK' /\ Inodes \subseteq Inodes'
  BY <1>4, <1>6 DEF DiskTypeOK, Inodes
<1>7. ASSUME NEW p \in Paths, Operation, entry[p] # NoFile,
             content' = [content EXCEPT ![entry[p]] = <<>>],
             recent' = recent \cup {entry[p]}, UNCHANGED <<entry, written>>
      PROVE  DiskTypeOK' /\ Inodes \subseteq Inodes'
  <2>1. entry[p] \in Inodes /\ <<>> \in Seq(Cell)
    BY <1>7, EmptySeq DEF DiskTypeOK
  <2>2. /\ content' \in Seq(Seq(Cell))
        /\ Len(content') = Len(content)
    BY <1>1, <1>7, <2>1, ExceptSeq DEF DiskTypeOK
  <2>3. Inodes' = Inodes
    BY <1>1, <2>2, LenProperties DEF Inodes
  <2> QED BY <1>4, <1>7, <2>1, <2>2, <2>3 DEF DiskTypeOK
<1> QED BY <1>3, <1>5, <1>6, <1>7 DEF Environment

\* Appending a batch: every new event is one of the batch under its number.
LEMMA AppendBatchTypes ==
  ASSUME TypeOK, todo # <<>>, AppendBatch
  PROVE  StoreTypeOK' /\ batch' = <<>> /\ batch' \in Seq(Parsed)
<1>1. file \in Paths
  BY FileInPaths DEF TypeOK
<1>2. /\ batch \in [1..Len(batch) -> Parsed]
      /\ DOMAIN batch = 1..Len(batch)
      /\ Len(batch) \in Nat
  BY LenProperties DEF TypeOK, LocalTypeOK
<1>3. nextSeq \in Nat
  BY DEF TypeOK, StoreTypeOK
<1>4. \A n \in DOMAIN batch :
        [seq |-> nextSeq + n - 1, file |-> file, gen |-> batch[n].gen,
         off |-> batch[n].off, size |-> batch[n].size, line |-> batch[n].line] \in Event
  <2> SUFFICES ASSUME NEW n \in DOMAIN batch
               PROVE  [seq |-> nextSeq + n - 1, file |-> file, gen |-> batch[n].gen,
                       off |-> batch[n].off, size |-> batch[n].size,
                       line |-> batch[n].line] \in Event
    OBVIOUS
  <2>1. batch[n] \in Parsed
    BY <1>2
  <2>2. nextSeq + n - 1 \in Nat
    BY <1>2, <1>3
  <2> QED BY <1>1, <2>1, <2>2 DEF Parsed, Event
<1>5. ingested' \subseteq Event /\ store' \subseteq ingested'
  BY <1>4 DEF AppendBatch, TypeOK, StoreTypeOK
<1>6. nextSeq' \in Nat /\ batch' = <<>>
  BY <1>2, <1>3 DEF AppendBatch
<1> QED BY <1>5, <1>6, EmptySeq DEF StoreTypeOK

LEMMA NewGenerationTypes ==
  ASSUME TableTypeOK, NEW p \in Paths, NEW i \in Nat, NewGeneration(p, i)
  PROVE  gen' \in [Paths -> Nat] /\ offset' \in [Paths -> Nat] /\ ino' \in [Paths -> Nat]
<1>1. gen[p] + 1 \in Nat /\ 0 \in Nat
  BY DEF TableTypeOK
<1> QED BY <1>1 DEF TableTypeOK, NewGeneration

\* Every step of the goroutine keeps the types and finds its locals in place.
LEMMA GoroutineTypes ==
  ASSUME TypeOK, ControlOK, Goroutine
  PROVE  TypeOK' /\ ControlOK'
<1>1. /\ todo # <<>> => file \in Paths /\ Head(todo) \in Paths /\ Tail(todo) \in Seq(Paths)
      /\ PathOrder \in Seq(Paths) /\ <<>> \in Seq(Paths)
  BY FileInPaths, TailerAssumption, EmptySeq DEF TypeOK
<1> USE DEF Busy
<1>2. CASE SelectStop \/ SelectDiscover \/ SelectPoll
  <2>1. LocalTypeOK'
    BY <1>1, <1>2 DEF SelectStop, SelectDiscover, SelectPoll, TypeOK, LocalTypeOK, TableTypeOK
  <2> QED BY <1>2, <2>1, GroupsKept DEF SelectStop, SelectDiscover, SelectPoll, TypeOK, ControlOK
<1>3. CASE DiscoverStat
  <2>1. StatOf(Head(todo)) \in [ino : Nat, size : Nat, recent : BOOLEAN]
        \/ entry[Head(todo)] = NoFile
    BY <1>1, <1>3, SizeOfFile DEF TypeOK, DiscoverStat
  <2>2. LocalTypeOK'
    BY <1>1, <1>3, <2>1 DEF DiscoverStat, TypeOK, LocalTypeOK
  <2> QED BY <1>3, <2>2, GroupsKept DEF DiscoverStat, TypeOK, ControlOK
<1>4. CASE Consider
  <2>1. Head(todo) \in Paths /\ Tail(todo) \in Seq(Paths)
    BY <1>1, <1>4 DEF Consider, ControlOK
  <2>2. Append(known, Head(todo)) \in Seq(Paths)
    BY <2>1, AppendProperties DEF TypeOK, TableTypeOK
  <2>3. TableTypeOK'
    <3>1. known' \in Seq(Paths) /\ gone' \in [Paths -> BOOLEAN]
      BY <1>4, <2>2 DEF Consider, TypeOK, TableTypeOK
    <3>2. gen' \in [Paths -> Nat] /\ ino' \in [Paths -> Nat] /\ offset' \in [Paths -> Nat]
      <4>1. fi.ino \in Nat
        BY DEF TypeOK, LocalTypeOK
      <4>2. CASE NewGeneration(Head(todo), fi.ino)
        BY <2>1, <4>1, <4>2, NewGenerationTypes DEF TypeOK
      <4>3. CASE ~NewGeneration(Head(todo), fi.ino)
        <5>1. UNCHANGED <<gen, offset>>
          BY <1>4, <4>3 DEF Consider
        <5>2. ino' = ino \/ ino' = [ino EXCEPT ![Head(todo)] = fi.ino]
          BY <1>4, <4>3 DEF Consider
        <5> QED BY <2>1, <4>1, <5>1, <5>2 DEF TypeOK, TableTypeOK
      <4> QED BY <4>2, <4>3
    <3> QED BY <1>4, <3>1, <3>2 DEF Consider, TypeOK, TableTypeOK
  <2>4. LocalTypeOK'
    BY <1>4, <2>1 DEF Consider, TypeOK, LocalTypeOK
  <2>5. HistTypeOK'
    BY <1>4, <2>1 DEF Consider, Reset, TypeOK, HistTypeOK
  <2> QED BY <1>4, <2>3, <2>4, <2>5, GroupsKept DEF Consider, TypeOK, ControlOK
<1>5. CASE DiscoverDone
  <2>1. LocalTypeOK'
    BY <1>5 DEF DiscoverDone, TypeOK, LocalTypeOK, TableTypeOK
  <2> QED BY <1>5, <2>1, GroupsKept DEF DiscoverDone, TypeOK, ControlOK
<1>6. CASE PollStop \/ PollSkip
  <2>1. LocalTypeOK'
    BY <1>1, <1>6 DEF PollStop, PollSkip, TypeOK, LocalTypeOK
  <2> QED BY <1>6, <2>1, GroupsKept DEF PollStop, PollSkip, TypeOK, ControlOK
<1>7. CASE PollStat
  <2>1. StatOf(file) \in [ino : Nat, size : Nat, recent : BOOLEAN] \/ entry[file] = NoFile
    BY <1>1, <1>7, SizeOfFile DEF TypeOK, PollStat
  <2>2. LocalTypeOK'
    BY <1>1, <1>7, <2>1 DEF PollStat, TypeOK, LocalTypeOK
  <2>3. TableTypeOK'
    BY <1>1, <1>7 DEF PollStat, TypeOK, TableTypeOK
  <2> QED BY <1>7, <2>2, <2>3, GroupsKept DEF PollStat, TypeOK, ControlOK
<1>8. CASE CheckRotation
  <2>1. file \in Paths /\ fi.ino \in Nat
    BY <1>1, <1>8 DEF CheckRotation, ControlOK, TypeOK, LocalTypeOK
  <2>2. TableTypeOK'
    <3>1. CASE NewGeneration(file, fi.ino)
      BY <1>8, <2>1, <3>1, NewGenerationTypes DEF CheckRotation, TypeOK, TableTypeOK
    <3>2. CASE ~NewGeneration(file, fi.ino)
      BY <1>8, <3>2 DEF CheckRotation, TypeOK, TableTypeOK
    <3> QED BY <3>1, <3>2
  <2>3. HistTypeOK'
    BY <1>8, <2>1 DEF CheckRotation, Reset, TypeOK, HistTypeOK
  <2>4. LocalTypeOK'
    BY <1>8 DEF CheckRotation, TypeOK, LocalTypeOK
  <2> QED BY <1>8, <2>2, <2>3, <2>4, GroupsKept DEF CheckRotation, TypeOK, ControlOK
<1>9. CASE CheckTruncation
  <2>1. file \in Paths
    BY <1>1, <1>9 DEF CheckTruncation, ControlOK
  <2>2. ino[file] \in Nat
    BY <2>1 DEF TypeOK, TableTypeOK
  <2>3. TableTypeOK'
    <3>1. CASE NewGeneration(file, ino[file])
      BY <1>9, <2>1, <2>2, <3>1, NewGenerationTypes DEF CheckTruncation, TypeOK, TableTypeOK
    <3>2. CASE ~NewGeneration(file, ino[file])
      BY <1>9, <3>2 DEF CheckTruncation, TypeOK, TableTypeOK
    <3> QED BY <3>1, <3>2
  <2>4. LocalTypeOK' /\ HistTypeOK'
    BY <1>9, <2>1 DEF CheckTruncation, ReadOrMark, TypeOK, LocalTypeOK, HistTypeOK
  <2> QED BY <1>9, <2>3, <2>4, GroupsKept DEF CheckTruncation, ReadOrMark, TypeOK, ControlOK
<1>10. CASE Drop
  <2>1. file \in Paths
    BY <1>1, <1>10 DEF Drop, ControlOK
  <2>2. StoreTypeOK' /\ LocalTypeOK' /\ HistTypeOK'
    BY <1>10, <2>1 DEF Drop, Reset, ReadOrMark, TypeOK, StoreTypeOK, LocalTypeOK, HistTypeOK
  <2> QED BY <1>10, <2>2, GroupsKept DEF Drop, ReadOrMark, TypeOK, ControlOK
<1>11. CASE Open
  <2>1. file \in Paths
    BY <1>1, <1>11 DEF Open, ControlOK
  <2>2. entry[file] # NoFile => entry[file] \in Inodes /\ entry[file] \in Nat
    BY <2>1, LenProperties DEF TypeOK, DiskTypeOK, Inodes
  <2>3. TableTypeOK' /\ LocalTypeOK'
    BY <1>11, <2>1, <2>2 DEF Open, TypeOK, TableTypeOK, LocalTypeOK
  <2> QED BY <1>11, <2>2, <2>3, GroupsKept DEF Open, TypeOK, ControlOK
<1>12. CASE ReadLine
  <2>1. file \in Paths /\ fd \in Inodes /\ offset[file] \in Nat /\ gen[file] \in Nat
    BY <1>1, <1>12 DEF ReadLine, ControlOK, TypeOK, TableTypeOK
  <2>2. /\ LineSize(fd, offset[file]) \in {1, 2}
        /\ content[fd][offset[file] + 1].line \in Lines
    BY <1>12, <2>1, LineFacts DEF ReadLine, TypeOK
  <2> DEFINE size   == LineSize(fd, offset[file])
             parsed == [gen |-> gen[file], off |-> offset[file], size |-> size,
                        line |-> content[fd][offset[file] + 1].line]
  <2>3. parsed \in Parsed
    BY <2>1, <2>2 DEF Parsed
  <2>4. /\ batch' = Append(batch, parsed) \/ batch' = batch
        /\ handled' = [handled EXCEPT ![file] = @ \cup {gen[file]}] \/ handled' = handled
        /\ offset' = [offset EXCEPT ![file] = @ + size]
        /\ pc' \in {"read", "flush"}
    BY <1>12 DEF ReadLine
  <2> HIDE DEF parsed, size
  <2>5. batch' \in Seq(Parsed)
    BY <2>3, <2>4, AppendProperties DEF TypeOK, LocalTypeOK
  <2>6. offset' \in [Paths -> Nat]
    BY <2>1, <2>2, <2>4 DEF TypeOK, TableTypeOK, size
  <2>7. HistTypeOK'
    BY <1>12, <2>1, <2>4 DEF ReadLine, TypeOK, HistTypeOK
  <2>8. TableTypeOK' /\ LocalTypeOK'
    BY <1>12, <2>4, <2>5, <2>6 DEF ReadLine, TypeOK, TableTypeOK, LocalTypeOK
  <2> QED BY <1>12, <2>1, <2>4, <2>7, <2>8, GroupsKept DEF ReadLine, TypeOK, ControlOK
<1>13. CASE Flush
  <2>1. StoreTypeOK' /\ batch' = <<>> /\ batch' \in Seq(Parsed)
    BY <1>13, AppendBatchTypes DEF Flush, ControlOK
  <2>2. LocalTypeOK'
    BY <1>13, <2>1 DEF Flush, TypeOK, LocalTypeOK
  <2> QED BY <1>13, <2>1, <2>2, GroupsKept DEF Flush, TypeOK, ControlOK
<1>14. CASE ReadEOF
  <2>1. StoreTypeOK' /\ batch' = <<>> /\ batch' \in Seq(Parsed)
    BY <1>14, AppendBatchTypes DEF ReadEOF, ControlOK
  <2>2. LocalTypeOK'
    BY <1>14, <2>1 DEF ReadEOF, TypeOK, LocalTypeOK
  <2> QED BY <1>14, <2>1, <2>2, GroupsKept DEF ReadEOF, TypeOK, ControlOK
<1>15. CASE MarkDone
  <2>1. file \in Paths /\ Tail(todo) \in Seq(Paths)
    BY <1>1, <1>15 DEF MarkDone, ControlOK
  <2>2. TableTypeOK' /\ LocalTypeOK'
    BY <1>15, <2>1 DEF MarkDone, TypeOK, TableTypeOK, LocalTypeOK
  <2> QED BY <1>15, <2>2, GroupsKept DEF MarkDone, TypeOK, ControlOK
<1>16. CASE PollDone
  <2>1. TableTypeOK' /\ LocalTypeOK'
    BY <1>16 DEF PollDone, TypeOK, TableTypeOK, LocalTypeOK
  <2> QED BY <1>16, <2>1, GroupsKept DEF PollDone, TypeOK, ControlOK
<1> QED BY <1>2, <1>3, <1>4, <1>5, <1>6, <1>7, <1>8, <1>9, <1>10, <1>11, <1>12, <1>13,
           <1>14, <1>15, <1>16 DEF Goroutine, Discovery, Polling

------------------------------------------------------------------------------
(***************************************************************************)
(* TypeOK is inductive together with ControlOK.                            *)
(***************************************************************************)
TypeInv == TypeOK /\ ControlOK /\ (~started => pc = "new")

LEMMA InitTypes == Init => TypeInv
<1> SUFFICES ASSUME Init PROVE TypeInv
  OBVIOUS
<1>1. Cardinality(StartLines) \in 0..MaxLines
  <2>1. PICK k \in 0..MaxLines : StartLines = 1..k
    BY TailerAssumption
  <2>2. k \in Nat /\ Cardinality(1..k) = IF 1 > k THEN 0 ELSE k - 1 + 1
    BY <2>1, TailerAssumption, FS_Interval
  <2> QED BY <2>1, <2>2
<1>2. Inodes = DOMAIN StartContent
  BY DEF Init, Inodes
<1>3. DiskTypeOK
  BY <1>1, <1>2, TailerAssumption DEF Init, DiskTypeOK
<1>4. TableTypeOK
  BY EmptySeq DEF Init, TableTypeOK
<1>5. LocalTypeOK
  BY EmptySeq DEF Init, LocalTypeOK
<1>6. LifeTypeOK /\ StoreTypeOK /\ HistTypeOK
  BY DEF Init, LifeTypeOK, StoreTypeOK, HistTypeOK
<1>7. HydraTypeOK
  BY TailerAssumption DEF Init, HydraTypeOK, Hydration
<1>8. ControlOK /\ (~started => pc = "new")
  BY DEF Init, ControlOK, Busy
<1> QED BY <1>3, <1>4, <1>5, <1>6, <1>7, <1>8 DEF TypeInv, TypeOK

LEMMA NextTypes == TypeInv /\ [Next]_vars => TypeInv'
<1> SUFFICES ASSUME TypeInv, [Next]_vars PROVE TypeInv'
  OBVIOUS
<1> USE DEF TypeInv
<1>1. CASE Environment
  <2>1. DiskTypeOK' /\ Inodes \subseteq Inodes'
    BY <1>1, EnvironmentTypes DEF TypeOK
  <2>2. TypeOK'
    BY <1>1, <2>1, GroupsKept DEF Environment, TypeOK
  <2>3. ControlOK' /\ (~started' => pc' = "new")
    BY <1>1, <2>1 DEF Environment, localVars, lifeVars, ControlOK
  <2> QED BY <2>2, <2>3
<1>2. CASE Start
  <2>1. LifeTypeOK'
    BY <1>2 DEF Start, TypeOK, LifeTypeOK
  <2>2. LocalTypeOK'
    BY <1>2, TailerAssumption DEF Start, TypeOK, LocalTypeOK
  <2>3. ControlOK'
    BY <1>2 DEF Start, ControlOK, Busy, diskVars, Inodes
  <2>4. started'
    BY <1>2 DEF Start
  <2> QED BY <1>2, <2>1, <2>2, <2>3, <2>4, GroupsKept DEF Start, TypeOK
<1>3. CASE Goroutine
  <2>1. started' = started /\ pc # "new"
    BY <1>3 DEF Goroutine, Discovery, Polling, SelectStop, SelectDiscover, SelectPoll,
       DiscoverStat, Consider, DiscoverDone, PollStop, PollSkip, PollStat, CheckRotation,
       CheckTruncation, Drop, Open, ReadLine, Flush, ReadEOF, MarkDone, PollDone, lifeVars
  <2> QED BY <1>3, <2>1, GoroutineTypes
<1>4. ASSUME NEW c \in Closers, Close(c)
      PROVE  TypeInv'
  <2>1. LifeTypeOK'
    BY <1>4 DEF Close, CloseBegin, CloseEnd, TypeOK, LifeTypeOK
  <2>2. ControlOK' /\ (~started' => pc' = "new")
    BY <1>4 DEF Close, CloseBegin, CloseEnd, localVars, diskVars, ControlOK, Inodes
  <2> QED BY <1>4, <2>1, <2>2, GroupsKept DEF Close, CloseBegin, CloseEnd, TypeOK
<1>5. CASE HydrateCheck \/ HydrateRead
  <2>1. ControlOK' /\ (~started' => pc' = "new")
    BY <1>5 DEF HydrateCheck, HydrateRead, localVars, diskVars, lifeVars, ControlOK, Inodes
  <2>2. HydraTypeOK'
    <3>1. CASE HydrateCheck
      <4>1. PICK e \in ingested :
              hydrate' = IF gen[e.file] = e.gen
                           THEN [pc |-> "checked", of |-> e, at |-> <<entry[e.file], ino[e.file]>>]
                           ELSE [pc |-> "noted", of |-> e]
        BY <3>1 DEF HydrateCheck
      <4>2. e \in Event /\ e.file \in Paths
        BY DEF TypeOK, StoreTypeOK, Event
      <4>3. entry[e.file] \in Nat \cup {NoFile} /\ ino[e.file] \in Nat
        BY <4>2, LenProperties DEF TypeOK, DiskTypeOK, TableTypeOK, Inodes
      <4>4. hydrate' \in Hydration
        BY <4>1, <4>2, <4>3 DEF Hydration
      <4>5. hydrates' \in 0..MaxHydrates
        BY <3>1, TailerAssumption DEF HydrateCheck, TypeOK, HydraTypeOK
      <4> QED BY <4>4, <4>5 DEF HydraTypeOK
    <3>2. CASE HydrateRead
      <4> DEFINE e     == hydrate.of
                 lines == IF entry[e.file] = NoFile THEN {}
                            ELSE LinesAt(entry[e.file], e.off, e.size)
      <4>1. e \in Event
        BY <3>2 DEF HydrateRead, TypeOK, HydraTypeOK, Hydration
      <4>2. lines \subseteq Lines
        <5>1. e.file \in Paths /\ e.off \in Nat /\ e.size \in {1, 2}
          BY <4>1 DEF Event
        <5>2. SUFFICES ASSUME entry[e.file] # NoFile,
                              e.off + e.size <= Len(content[entry[e.file]])
                       PROVE  content[entry[e.file]][e.off + 1] \in Cell
          BY DEF LinesAt, Cell
        <5>3. entry[e.file] \in Inodes
          BY <5>1, <5>2 DEF TypeOK, DiskTypeOK
        <5>4. content[entry[e.file]] \in Seq(Cell)
          BY <5>3, ElementOfSeq, LenProperties DEF TypeOK, DiskTypeOK, Inodes
        <5>5. /\ Len(content[entry[e.file]]) \in Nat
              /\ content[entry[e.file]] \in [1..Len(content[entry[e.file]]) -> Cell]
          BY <5>4, LenProperties
        <5>6. e.off + 1 \in 1..Len(content[entry[e.file]])
          BY <5>1, <5>2, <5>5
        <5> QED BY <5>5, <5>6
      <4>3. /\ hydrates' = hydrates
            /\ \/ hydrate' = [pc |-> "noted", of |-> e]
               \/ \E l \in lines : hydrate' = [pc |-> "read", of |-> e, line |-> l]
        BY <3>2 DEF HydrateRead
      <4> HIDE DEF e, lines
      <4> QED BY <4>1, <4>2, <4>3 DEF TypeOK, HydraTypeOK, Hydration
    <3> QED BY <1>5, <3>1, <3>2
  <2> QED BY <1>5, <2>1, <2>2, GroupsKept DEF HydrateCheck, HydrateRead, TypeOK
<1>6. CASE UNCHANGED vars
  <2>1. TypeOK'
    BY <1>6, GroupsKept DEF vars, TypeOK
  <2> QED BY <1>6, <2>1 DEF vars, localVars, diskVars, lifeVars, ControlOK, Inodes
<1> QED BY <1>1, <1>2, <1>3, <1>4, <1>5, <1>6 DEF Next

\* TypeOK: every variable keeps its type, whatever the disk does.
THEOREM TailerTypes == Spec => []TypeOK
<1>1. Spec => []TypeInv
  BY InitTypes, NextTypes, PTL DEF Spec
<1>2. TypeInv => TypeOK
  BY DEF TypeInv
<1> QED BY <1>1, <1>2, PTL

------------------------------------------------------------------------------
(***************************************************************************)
(* Positions.  Within a generation the offset only grows, and a file that  *)
(* starts over does so in a new generation: every event lies before the    *)
(* reading position of its file, and the batch between the two.            *)
(***************************************************************************)
Consumed ==
  \A e \in ingested :
    /\ e.seq < nextSeq
    /\ e.gen < gen[e.file] \/ (e.gen = gen[e.file] /\ e.off < offset[e.file])

BatchAhead ==
  \A n \in DOMAIN batch :
    /\ batch[n].gen = gen[file]
    /\ batch[n].off < offset[file]
    /\ \A m \in DOMAIN batch : m < n => batch[m].off < batch[n].off
    /\ \A e \in ingested :
         e.file = file /\ e.gen = gen[file] => e.off < batch[n].off

NumbersIdentify == \A e, f \in ingested : e.seq = f.seq => e = f

PositionInv == Consumed /\ BatchAhead /\ NumbersIdentify /\ IngestionOrder

\* What the lemmas use of the types.
LEMMA PositionTypes ==
  ASSUME TypeInv
  PROVE  /\ gen \in [Paths -> Nat] /\ offset \in [Paths -> Nat] /\ ino \in [Paths -> Nat]
         /\ ingested \subseteq Event
         /\ \A e \in ingested : e.seq \in Nat /\ e.file \in Paths /\ e.gen \in Nat /\ e.off \in Nat
         /\ nextSeq \in Nat
         /\ Len(batch) \in Nat /\ DOMAIN batch = 1..Len(batch)
         /\ \A n \in DOMAIN batch : batch[n] \in Parsed
         /\ todo # <<>> => file \in Paths
<1>1. /\ Len(batch) \in Nat /\ DOMAIN batch = 1..Len(batch)
      /\ \A n \in DOMAIN batch : batch[n] \in Parsed
  BY LenProperties, ElementOfSeq DEF TypeInv, TypeOK, LocalTypeOK
<1>2. todo # <<>> => file \in Paths
  BY FileInPaths DEF TypeInv, TypeOK
<1> QED BY <1>1, <1>2 DEF TypeInv, TypeOK, TableTypeOK, StoreTypeOK, Event

\* A step that moves no position, and the file at work only without a batch.
LEMMA QuietStep ==
  ASSUME PositionInv, UNCHANGED <<gen, offset, ingested, nextSeq, batch>>,
         batch = <<>> \/ todo' = todo
  PROVE  PositionInv'
<1>1. BatchAhead'
  <2>1. CASE batch = <<>>
    BY <2>1 DEF BatchAhead
  <2>2. CASE todo' = todo
    BY <2>2 DEF PositionInv, BatchAhead, file
  <2> QED BY <2>1, <2>2
<1> QED BY <1>1 DEF PositionInv, Consumed, NumbersIdentify, IngestionOrder

\* A new generation lies beyond every event of its file.
LEMMA NewGenerationStep ==
  ASSUME TypeInv, PositionInv, NEW p \in Paths, NEW i \in Nat, NewGeneration(p, i),
         batch = <<>>, UNCHANGED <<ingested, nextSeq, batch>>
  PROVE  PositionInv'
<1>1. Consumed'
  <2> SUFFICES ASSUME NEW e \in ingested
               PROVE  /\ e.seq < nextSeq
                      /\ \/ e.gen < gen'[e.file]
                         \/ e.gen = gen'[e.file] /\ e.off < offset'[e.file]
    BY DEF Consumed
  <2>1. e.gen \in Nat /\ e.file \in Paths /\ gen \in [Paths -> Nat] /\ offset \in [Paths -> Nat]
    BY PositionTypes
  <2>2. /\ e.seq < nextSeq
        /\ e.gen < gen[e.file] \/ (e.gen = gen[e.file] /\ e.off < offset[e.file])
    BY DEF PositionInv, Consumed
  <2>3. CASE e.file = p
    <3>1. gen'[e.file] = gen[e.file] + 1
      BY <2>1, <2>3 DEF NewGeneration
    <3> QED BY <2>1, <2>2, <3>1
  <2>4. CASE e.file # p
    BY <2>1, <2>2, <2>4 DEF NewGeneration
  <2> QED BY <2>3, <2>4
<1>2. BatchAhead'
  BY DEF BatchAhead
<1> QED BY <1>1, <1>2 DEF PositionInv, NumbersIdentify, IngestionOrder

\* A line is read at the position, which then moves past it.
LEMMA ReadLineStep ==
  ASSUME TypeInv, PositionInv, ReadLine
  PROVE  PositionInv'
<1>1. /\ todo # <<>> /\ todo' = todo /\ file \in Paths /\ file' = file
      /\ UNCHANGED <<gen, ingested, nextSeq>>
  BY PositionTypes DEF ReadLine, TypeInv, ControlOK, Busy, storeVars, file
<1>2. LineSize(fd, offset[file]) \in {1, 2}
  <2>1. fd \in Inodes /\ offset[file] \in Nat
    BY <1>1, PositionTypes DEF ReadLine, TypeInv, ControlOK
  <2> QED BY <2>1, LineFacts DEF ReadLine, TypeInv, TypeOK
<1> DEFINE parsed == [gen |-> gen[file], off |-> offset[file],
                      size |-> LineSize(fd, offset[file]),
                      line |-> content[fd][offset[file] + 1].line]
<1>3. /\ offset' = [offset EXCEPT ![file] = @ + LineSize(fd, offset[file])]
      /\ batch' = batch \/ batch' = Append(batch, parsed)
  BY DEF ReadLine
<1>4. parsed.gen = gen[file] /\ parsed.off = offset[file]
  OBVIOUS
<1> HIDE DEF parsed
<1>5. /\ offset[file] \in Nat /\ offset'[file] \in Nat /\ offset[file] < offset'[file]
      /\ \A p \in Paths : p # file => offset'[p] = offset[p]
  BY <1>1, <1>2, <1>3, PositionTypes
<1>6. Consumed'
  <2> SUFFICES ASSUME NEW e \in ingested
               PROVE  /\ e.seq < nextSeq
                      /\ \/ e.gen < gen[e.file]
                         \/ e.gen = gen[e.file] /\ e.off < offset'[e.file]
    BY <1>1 DEF Consumed
  <2>1. e.off \in Nat /\ e.file \in Paths
    BY PositionTypes
  <2>2. /\ e.seq < nextSeq
        /\ e.gen < gen[e.file] \/ (e.gen = gen[e.file] /\ e.off < offset[e.file])
    BY DEF PositionInv, Consumed
  <2>3. e.off < offset[e.file] => e.off < offset'[e.file]
    BY <1>5, <2>1
  <2> QED BY <2>2, <2>3
<1>7. BatchAhead'
  <2>1. /\ Len(batch) \in Nat /\ DOMAIN batch = 1..Len(batch)
        /\ \A n \in DOMAIN batch : batch[n].off \in Nat
    BY PositionTypes DEF Parsed
  <2>2. \A n \in DOMAIN batch :
          /\ batch[n].gen = gen[file]
          /\ batch[n].off < offset[file]
          /\ \A m \in DOMAIN batch : m < n => batch[m].off < batch[n].off
          /\ \A e \in ingested :
               e.file = file /\ e.gen = gen[file] => e.off < batch[n].off
    BY DEF PositionInv, BatchAhead
  <2>3. CASE batch' = batch
    BY <1>1, <1>5, <2>1, <2>2, <2>3 DEF BatchAhead
  <2>4. CASE batch' = Append(batch, parsed)
    <3>1. /\ Len(batch') = Len(batch) + 1
          /\ DOMAIN batch' = 1..(Len(batch) + 1)
          /\ \A n \in DOMAIN batch : batch'[n] = batch[n]
          /\ batch'[Len(batch) + 1] = parsed
      <4>1. batch \in Seq(Parsed \cup {parsed}) /\ parsed \in Parsed \cup {parsed}
        BY DEF TypeInv, TypeOK, LocalTypeOK
      <4> QED BY <2>1, <2>4, <4>1, AppendProperties, LenProperties
    <3>2. \A e \in ingested : e.file = file /\ e.gen = gen[file] => e.off < offset[file]
      <4> SUFFICES ASSUME NEW e \in ingested, e.file = file, e.gen = gen[file]
                   PROVE  e.off < offset[file]
        OBVIOUS
      <4>1. e.gen < gen[file] \/ e.off < offset[file]
        BY DEF PositionInv, Consumed
      <4>2. e.gen \in Nat
        BY PositionTypes
      <4> QED BY <4>1, <4>2
    <3> SUFFICES ASSUME NEW n \in DOMAIN batch'
                 PROVE  /\ batch'[n].gen = gen[file]
                        /\ batch'[n].off < offset'[file]
                        /\ \A m \in DOMAIN batch' : m < n => batch'[m].off < batch'[n].off
                        /\ \A e \in ingested :
                             e.file = file /\ e.gen = gen[file] => e.off < batch'[n].off
      BY <1>1 DEF BatchAhead
    <3>3. CASE n \in DOMAIN batch
      <4>1. \A m \in DOMAIN batch' : m < n => m \in DOMAIN batch
        BY <2>1, <3>1, <3>3
      <4> QED BY <1>5, <2>1, <2>2, <3>1, <3>3, <4>1
    <3>4. CASE n = Len(batch) + 1
      <4>1. \A m \in DOMAIN batch' : m < n => m \in DOMAIN batch
        BY <2>1, <3>1, <3>4
      <4> QED BY <1>4, <1>5, <2>2, <3>1, <3>2, <3>4, <4>1
    <3> QED BY <2>1, <3>1, <3>3, <3>4
  <2> QED BY <1>3, <2>3, <2>4
<1> QED BY <1>1, <1>6, <1>7 DEF PositionInv, NumbersIdentify, IngestionOrder

\* The batch joins the events under the next numbers, in its order.
LEMMA AppendBatchStep ==
  ASSUME TypeInv, PositionInv, todo # <<>>, AppendBatch, UNCHANGED <<gen, offset, todo>>
  PROVE  PositionInv'
<1> DEFINE ev(n) == [seq |-> nextSeq + n - 1, file |-> file, gen |-> batch[n].gen,
                     off |-> batch[n].off, size |-> batch[n].size, line |-> batch[n].line]
<1>1. /\ Len(batch) \in Nat /\ DOMAIN batch = 1..Len(batch)
      /\ \A n \in DOMAIN batch : batch[n].off \in Nat
      /\ nextSeq \in Nat
      /\ gen[file] \in Nat /\ offset[file] \in Nat
  BY PositionTypes DEF Parsed
<1>2. /\ ingested' = ingested \cup {ev(n) : n \in DOMAIN batch}
      /\ nextSeq' = nextSeq + Len(batch)
      /\ batch' = <<>>
  BY DEF AppendBatch
<1>3. \A n \in DOMAIN batch :
        /\ batch[n].gen = gen[file]
        /\ batch[n].off < offset[file]
        /\ \A m \in DOMAIN batch : m < n => batch[m].off < batch[n].off
        /\ \A e \in ingested :
             e.file = file /\ e.gen = gen[file] => e.off < batch[n].off
  BY DEF PositionInv, BatchAhead
<1>4. \A n \in DOMAIN batch :
        /\ ev(n).seq = nextSeq + n - 1 /\ ev(n).file = file
        /\ ev(n).gen = gen[file] /\ ev(n).off = batch[n].off
  BY <1>3
<1> HIDE DEF ev
<1>5. \A e \in ingested :
        /\ e.seq \in Nat /\ e.gen \in Nat /\ e.off \in Nat /\ e.seq < nextSeq
        /\ e.gen < gen[e.file] \/ (e.gen = gen[e.file] /\ e.off < offset[e.file])
  BY PositionTypes DEF PositionInv, Consumed
<1>6. Consumed'
  <2> SUFFICES ASSUME NEW e \in ingested'
               PROVE  /\ e.seq < nextSeq'
                      /\ e.gen < gen[e.file] \/ (e.gen = gen[e.file] /\ e.off < offset[e.file])
    BY DEF Consumed
  <2>1. CASE e \in ingested
    BY <1>1, <1>2, <1>5, <2>1
  <2>2. ASSUME NEW n \in DOMAIN batch, e = ev(n)
        PROVE  /\ e.seq < nextSeq'
               /\ e.gen = gen[e.file] /\ e.off < offset[e.file]
    BY <1>1, <1>2, <1>3, <1>4, <2>2
  <2> QED BY <1>2, <2>1, <2>2
<1>7. BatchAhead'
  BY <1>2 DEF BatchAhead
\* An old event and a new one, and two new ones.
<1>8. ASSUME NEW e \in ingested, NEW n \in DOMAIN batch
      PROVE  /\ e.seq < ev(n).seq /\ ev(n).seq \in Nat
             /\ ~(ev(n).seq < e.seq)
             /\ e.file = ev(n).file =>
                  /\ e.gen < ev(n).gen \/ (e.gen = ev(n).gen /\ e.off < ev(n).off)
                  /\ ~(ev(n).gen < e.gen \/ (ev(n).gen = e.gen /\ ev(n).off < e.off))
  <2>1. e.seq < ev(n).seq /\ ev(n).seq \in Nat /\ ~(ev(n).seq < e.seq)
    BY <1>1, <1>4, <1>5
  <2>2. ASSUME e.file = ev(n).file
        PROVE  e.gen < gen[file] \/ (e.gen = gen[file] /\ e.off < batch[n].off)
    BY <1>3, <1>4, <1>5, <2>2
  <2> QED BY <1>1, <1>4, <1>5, <2>1, <2>2
<1>9. ASSUME NEW m \in DOMAIN batch, NEW n \in DOMAIN batch
      PROVE  /\ ev(m).seq = ev(n).seq => m = n
             /\ ev(m).seq < ev(n).seq <=>
                  ev(m).gen < ev(n).gen \/ (ev(m).gen = ev(n).gen /\ ev(m).off < ev(n).off)
  <2>1. m < n <=> batch[m].off < batch[n].off
    <3>1. m < n \/ m = n \/ n < m
      BY <1>1
    <3> QED BY <1>1, <1>3, <3>1
  <2> QED BY <1>1, <1>4, <2>1
<1>10. NumbersIdentify'
  <2> SUFFICES ASSUME NEW e \in ingested', NEW f \in ingested', e.seq = f.seq
               PROVE  e = f
    BY DEF NumbersIdentify
  <2>1. CASE e \in ingested /\ f \in ingested
    BY <2>1 DEF PositionInv, NumbersIdentify
  <2>2. ASSUME NEW n \in DOMAIN batch, e = ev(n) PROVE e = f
    BY <1>2, <1>5, <1>8, <1>9, <2>2
  <2>3. ASSUME NEW n \in DOMAIN batch, f = ev(n) PROVE e = f
    BY <1>2, <1>5, <1>8, <1>9, <2>3
  <2> QED BY <1>2, <2>1, <2>2, <2>3
<1>11. IngestionOrder'
  <2> SUFFICES ASSUME NEW e \in ingested', NEW f \in ingested', e.file = f.file
               PROVE  e.seq < f.seq <=> e.gen < f.gen \/ (e.gen = f.gen /\ e.off < f.off)
    BY DEF IngestionOrder
  <2>1. CASE e \in ingested /\ f \in ingested
    BY <2>1 DEF PositionInv, IngestionOrder
  <2>2. ASSUME NEW n \in DOMAIN batch, f = ev(n), e \in ingested
        PROVE  e.seq < f.seq <=> e.gen < f.gen \/ (e.gen = f.gen /\ e.off < f.off)
    BY <1>8, <2>2
  <2>3. ASSUME NEW n \in DOMAIN batch, e = ev(n), f \in ingested
        PROVE  e.seq < f.seq <=> e.gen < f.gen \/ (e.gen = f.gen /\ e.off < f.off)
    BY <1>8, <2>3
  <2>4. ASSUME NEW m \in DOMAIN batch, NEW n \in DOMAIN batch, e = ev(m), f = ev(n)
        PROVE  e.seq < f.seq <=> e.gen < f.gen \/ (e.gen = f.gen /\ e.off < f.off)
    BY <1>9, <2>4
  <2> QED BY <1>2, <2>1, <2>2, <2>3, <2>4
<1> QED BY <1>6, <1>7, <1>10, <1>11 DEF PositionInv

LEMMA NextPositions == TypeInv /\ PositionInv /\ [Next]_vars => PositionInv'
<1> SUFFICES ASSUME TypeInv, PositionInv, [Next]_vars PROVE PositionInv'
  OBVIOUS
<1>1. pc \notin {"read", "flush"} => batch = <<>>
  BY DEF TypeInv, ControlOK
<1>2. CASE \/ Environment \/ Start \/ (\E c \in Closers : Close(c))
           \/ HydrateCheck \/ HydrateRead \/ UNCHANGED vars
  <2>1. UNCHANGED <<gen, offset, ingested, nextSeq, batch>>
    BY <1>2 DEF Environment, Start, Close, CloseBegin, CloseEnd, HydrateCheck, HydrateRead,
                vars, tableVars, storeVars, localVars
  <2>2. batch = <<>> \/ todo' = todo
    <3>1. Start => batch = <<>>
      BY <1>1 DEF Start, TypeInv
    <3> QED BY <1>2, <3>1 DEF Environment, Close, CloseBegin, CloseEnd, HydrateCheck,
                HydrateRead, vars, localVars
  <2> QED BY <2>1, <2>2, QuietStep
<1>3. CASE \/ SelectStop \/ SelectDiscover \/ SelectPoll \/ DiscoverStat \/ DiscoverDone
           \/ PollStop \/ PollSkip \/ PollStat \/ Drop \/ Open \/ MarkDone \/ PollDone
  <2>1. /\ UNCHANGED <<gen, offset, ingested, nextSeq, batch>>
        /\ pc \notin {"read", "flush"}
    BY <1>3 DEF SelectStop, SelectDiscover, SelectPoll, DiscoverStat, DiscoverDone, PollStop,
                PollSkip, PollStat, Drop, Open, MarkDone, PollDone, tableVars, storeVars
  <2> QED BY <1>1, <2>1, QuietStep
<1>4. CASE Consider \/ CheckRotation
  <2>1. /\ UNCHANGED <<ingested, nextSeq, batch>>
        /\ batch = <<>>
        /\ todo # <<>>
    BY <1>1, <1>4 DEF Consider, CheckRotation, storeVars, TypeInv, ControlOK, Busy
  <2>2. fi.ino \in Nat /\ file \in Paths
    BY <2>1, PositionTypes DEF TypeInv, TypeOK, LocalTypeOK
  <2>3. NewGeneration(file, fi.ino) \/ UNCHANGED <<gen, offset>>
    BY <1>4 DEF Consider, CheckRotation, file
  <2> QED BY <2>1, <2>2, <2>3, NewGenerationStep, QuietStep
<1>5. CASE CheckTruncation
  <2>1. /\ UNCHANGED <<ingested, nextSeq, batch>>
        /\ batch = <<>>
        /\ todo # <<>>
    BY <1>1, <1>5 DEF CheckTruncation, storeVars, TypeInv, ControlOK, Busy
  <2>2. ino[file] \in Nat /\ file \in Paths
    BY <2>1, PositionTypes
  <2>3. NewGeneration(file, ino[file]) \/ UNCHANGED <<gen, offset>>
    BY <1>5 DEF CheckTruncation
  <2> QED BY <2>1, <2>2, <2>3, NewGenerationStep, QuietStep
<1>6. CASE ReadLine
  BY <1>6, ReadLineStep
<1>7. CASE Flush \/ ReadEOF
  <2>1. /\ AppendBatch
        /\ UNCHANGED <<gen, offset, todo>>
        /\ todo # <<>>
    BY <1>7 DEF Flush, ReadEOF, tableVars, TypeInv, ControlOK, Busy
  <2> QED BY <2>1, AppendBatchStep
<1> QED BY <1>2, <1>3, <1>4, <1>5, <1>6, <1>7 DEF Next, Goroutine, Discovery, Polling

LEMMA Positions == Spec => [](TypeInv /\ PositionInv)
<1>1. Init => PositionInv
  BY DEF Init, PositionInv, Consumed, BatchAhead, NumbersIdentify, IngestionOrder
<1> QED BY <1>1, InitTypes, NextTypes, NextPositions, PTL DEF Spec

\* IngestionOrder: events of a file are numbered in the file's order, over
\* every rotation and truncation (tailer.readFrom, store.appendBatch).
THEOREM TailerIngestionOrder == Spec => []IngestionOrder
<1>1. TypeInv /\ PositionInv => IngestionOrder
  BY DEF PositionInv
<1> QED BY <1>1, Positions, PTL

\* RefIdentifies: no ref ever names two events (eventRef, refID).
THEOREM TailerRefIdentifies == Spec => []RefIdentifies
<1>1. TypeInv /\ PositionInv => RefIdentifies
  <2> SUFFICES ASSUME TypeInv, PositionInv, NEW e \in ingested, NEW f \in ingested,
                      e.file = f.file, e.gen = f.gen, e.off = f.off
               PROVE  e = f
    BY DEF RefIdentifies
  <2>1. e.seq \in Nat /\ f.seq \in Nat /\ e.gen \in Nat /\ e.off \in Nat
    BY PositionTypes
  <2>2. ~(e.seq < f.seq) /\ ~(f.seq < e.seq)
    BY <2>1 DEF PositionInv, IngestionOrder
  <2>3. e.seq = f.seq
    BY <2>1, <2>2
  <2> QED BY <2>3 DEF PositionInv, NumbersIdentify
<1> QED BY <1>1, Positions, PTL

------------------------------------------------------------------------------
(***************************************************************************)
(* The handler.  What it holds of a file comes from the generation being   *)
(* followed, but for the moment between the bump of a truncated file's     *)
(* generation and the reset, which are not under one lock.                 *)
(***************************************************************************)
Behind(p) == pc = "drop" /\ p = file

HandlerCurrent ==
  \A p \in Paths : \A g \in handled[p] : g = IF Behind(p) THEN gen[p] - 1 ELSE gen[p]

LEMMA HandlerQuiet ==
  ASSUME HandlerCurrent, UNCHANGED <<gen, handled>>, pc # "drop", pc' # "drop"
  PROVE  HandlerCurrent'
BY DEF HandlerCurrent, Behind

\* A file rotated away: its handler state goes with its generation.
LEMMA HandlerRotated ==
  ASSUME TypeInv, HandlerCurrent, NEW p \in Paths, NEW i \in Nat, NewGeneration(p, i), Reset(p),
         pc # "drop", pc' # "drop"
  PROVE  HandlerCurrent'
<1> SUFFICES ASSUME NEW q \in Paths, NEW g \in handled'[q]
             PROVE  g = gen'[q]
  BY DEF HandlerCurrent, Behind
<1>1. gen \in [Paths -> Nat] /\ handled \in [Paths -> SUBSET Nat]
  BY PositionTypes DEF TypeInv, TypeOK, HistTypeOK
<1>2. q # p
  BY <1>1 DEF Reset
<1> QED BY <1>1, <1>2 DEF Reset, NewGeneration, HandlerCurrent, Behind

LEMMA NextHandler == TypeInv /\ HandlerCurrent /\ [Next]_vars => HandlerCurrent'
<1> SUFFICES ASSUME TypeInv, HandlerCurrent, [Next]_vars PROVE HandlerCurrent'
  OBVIOUS
<1>1. gen \in [Paths -> Nat] /\ handled \in [Paths -> SUBSET Nat]
  BY PositionTypes DEF TypeInv, TypeOK, HistTypeOK
<1>2. CASE \/ Environment \/ (\E c \in Closers : Close(c))
           \/ HydrateCheck \/ HydrateRead \/ UNCHANGED vars
  <2>1. UNCHANGED <<gen, handled, pc, todo>>
    BY <1>2 DEF Environment, Close, CloseBegin, CloseEnd, HydrateCheck, HydrateRead,
                vars, tableVars, histVars, localVars
  <2> QED BY <2>1 DEF HandlerCurrent, Behind, file
<1>3. CASE \/ Start \/ SelectStop \/ SelectDiscover \/ SelectPoll \/ DiscoverStat
           \/ DiscoverDone \/ PollStop \/ PollSkip \/ PollStat \/ Open \/ MarkDone
           \/ PollDone \/ Flush \/ ReadEOF
  <2>1. /\ UNCHANGED <<gen, handled>>
        /\ pc # "drop" /\ pc' # "drop"
    BY <1>3 DEF Start, TypeInv, SelectStop, SelectDiscover, SelectPoll, DiscoverStat,
                DiscoverDone, PollStop, PollSkip, PollStat, Open, MarkDone, PollDone, Flush,
                ReadEOF, tableVars, histVars
  <2> QED BY <2>1, HandlerQuiet
<1>4. CASE Consider \/ CheckRotation
  <2>1. pc # "drop" /\ pc' # "drop" /\ todo # <<>>
    BY <1>4 DEF Consider, CheckRotation, TypeInv, ControlOK, Busy
  <2>2. fi.ino \in Nat /\ file \in Paths
    BY <2>1, PositionTypes DEF TypeInv, TypeOK, LocalTypeOK
  <2>3. (NewGeneration(file, fi.ino) /\ Reset(file)) \/ UNCHANGED <<gen, handled>>
    BY <1>4 DEF Consider, CheckRotation, file
  <2> QED BY <2>1, <2>2, <2>3, HandlerRotated, HandlerQuiet
<1>5. CASE CheckTruncation
  <2>1. pc = "truncation" /\ todo # <<>> /\ todo' = todo /\ file' = file /\ handled' = handled
    BY <1>5 DEF CheckTruncation, TypeInv, ControlOK, Busy, file
  <2>2. file \in Paths
    BY <2>1, PositionTypes
  <2>3. CASE NewGeneration(file, ino[file]) /\ pc' = "drop"
    <3> SUFFICES ASSUME NEW p \in Paths, NEW g \in handled[p]
                 PROVE  g = IF p = file THEN gen'[p] - 1 ELSE gen'[p]
      BY <2>1, <2>3 DEF HandlerCurrent, Behind
    <3>1. g = gen[p]
      BY <2>1 DEF HandlerCurrent, Behind
    <3>2. gen'[p] = IF p = file THEN gen[p] + 1 ELSE gen[p]
      BY <1>1, <2>3 DEF NewGeneration
    <3> QED BY <1>1, <3>1, <3>2
  <2>4. CASE gen' = gen /\ pc' # "drop"
    BY <2>1, <2>4, HandlerQuiet
  <2> QED BY <1>5, <2>3, <2>4 DEF CheckTruncation, ReadOrMark
<1>6. CASE Drop
  <2>1. /\ pc = "drop" /\ pc' # "drop" /\ gen' = gen
        /\ handled' = [handled EXCEPT ![file] = {}]
    BY <1>6 DEF Drop, ReadOrMark, Reset, tableVars
  <2> QED BY <1>1, <2>1 DEF HandlerCurrent, Behind
<1>7. CASE ReadLine
  <2>1. /\ pc # "drop" /\ pc' # "drop" /\ gen' = gen
        /\ \/ handled' = [handled EXCEPT ![file] = @ \cup {gen[file]}]
           \/ handled' = handled
    BY <1>7 DEF ReadLine
  <2> QED BY <1>1, <2>1 DEF HandlerCurrent, Behind
<1> QED BY <1>2, <1>3, <1>4, <1>5, <1>6, <1>7 DEF Next, Goroutine, Discovery, Polling

\* HandlerOneGeneration: a rotated or truncated file's lines are never folded
\* together with those before (the calls of handler.reset).
THEOREM TailerHandlerOneGeneration == Spec => []HandlerOneGeneration
<1>1. Init => HandlerCurrent
  BY DEF Init, HandlerCurrent
<1>2. HandlerCurrent => HandlerOneGeneration
  BY DEF HandlerCurrent, HandlerOneGeneration
<1> QED BY <1>1, <1>2, InitTypes, NextTypes, NextHandler, PTL DEF Spec

------------------------------------------------------------------------------
(***************************************************************************)
(* Closing.  A caller of close that has returned found the goroutine gone, *)
(* or never started; and it cannot be started any more.                    *)
(***************************************************************************)
CloseOK ==
  \A c \in Closers :
    /\ closer[c] # "idle" => stopped
    /\ closer[c] = "returned" => pc = "exited" \/ ~started

LEMMA NextClose == TypeInv /\ CloseOK /\ [Next]_vars => CloseOK'
<1> SUFFICES ASSUME TypeInv, CloseOK, [Next]_vars PROVE CloseOK'
  OBVIOUS
<1>1. CASE Environment \/ HydrateCheck \/ HydrateRead \/ UNCHANGED vars
  BY <1>1 DEF Environment, HydrateCheck, HydrateRead, vars, lifeVars, localVars, CloseOK
<1>2. CASE Start
  BY <1>2 DEF Start, CloseOK
<1>3. CASE Goroutine
  <2>1. UNCHANGED lifeVars /\ pc # "exited" /\ pc # "new"
    BY <1>3 DEF Goroutine, Discovery, Polling, SelectStop, SelectDiscover, SelectPoll,
       DiscoverStat, Consider, DiscoverDone, PollStop, PollSkip, PollStat, CheckRotation,
       CheckTruncation, Drop, Open, ReadLine, Flush, ReadEOF, MarkDone, PollDone
  <2> QED BY <2>1 DEF lifeVars, CloseOK, TypeInv
<1>4. ASSUME NEW c \in Closers, Close(c) PROVE CloseOK'
  <2>1. closer \in [Closers -> {"idle", "waiting", "returned"}]
    BY DEF TypeInv, TypeOK, LifeTypeOK
  <2> QED BY <1>4, <2>1 DEF Close, CloseBegin, CloseEnd, localVars, CloseOK
<1> QED BY <1>1, <1>2, <1>3, <1>4 DEF Next

\* NothingAfterClose: no event is appended, and none dropped, once close has
\* returned to anyone (tailer.close).
THEOREM TailerNothingAfterClose == Spec => NothingAfterClose
<1>1. Init => CloseOK
  BY DEF Init, CloseOK
<1>2. TypeInv /\ CloseOK /\ [Next]_vars
        => [(\E c \in Closers : closer[c] = "returned") => UNCHANGED storeVars]_vars
  <2> SUFFICES ASSUME TypeInv, CloseOK, [Next]_vars,
                      NEW c \in Closers, closer[c] = "returned"
               PROVE  UNCHANGED storeVars
    OBVIOUS
  <2>1. pc = "exited" \/ pc = "new"
    BY DEF CloseOK, TypeInv
  <2>2. ~Goroutine
    BY <2>1 DEF Goroutine, Discovery, Polling, SelectStop, SelectDiscover, SelectPoll,
       DiscoverStat, Consider, DiscoverDone, PollStop, PollSkip, PollStat, CheckRotation,
       CheckTruncation, Drop, Open, ReadLine, Flush, ReadEOF, MarkDone, PollDone
  <2> QED BY <2>2 DEF Next, Environment, Start, Close, CloseBegin, CloseEnd, HydrateCheck,
                      HydrateRead, vars
<1> QED BY <1>1, <1>2, InitTypes, NextTypes, NextClose, PTL DEF Spec, NothingAfterClose

------------------------------------------------------------------------------
(***************************************************************************)
(* Lines on disk.  A line is written once, so it begins at one place at    *)
(* most, whatever is truncated, replaced and removed; and an event was     *)
(* read where its line begins.                                             *)
(***************************************************************************)
\* Line l begins at cell k of inode i.
Begins(i, k, l) ==
  /\ i \in DOMAIN content /\ k \in DOMAIN content[i]
  /\ content[i][k].line = l /\ content[i][k].part # "tail"

LinesInv ==
  /\ \A i \in DOMAIN content : WholeLines(content[i])
  /\ \A i \in DOMAIN content : \A k \in DOMAIN content[i] : content[i][k].line <= written
  /\ \A i, j \in DOMAIN content : \A k \in DOMAIN content[i], m \in DOMAIN content[j] :
       /\ content[i][k].line = content[j][m].line
       /\ content[i][k].part # "tail" /\ content[j][m].part # "tail"
       => i = j /\ k = m

\* The places where lines were read: of the events, and of the batch that is
\* to become events.
Place(p, e) == [file |-> p, gen |-> e.gen, off |-> e.off, line |-> e.line]

Seen == {Place(e.file, e) : e \in ingested} \cup {Place(file, batch[n]) : n \in DOMAIN batch}

SeenInv ==
  \A s \in Seen :
    /\ s.line <= written
    /\ \A i, k \in Nat : Begins(i, k, s.line) => k = s.off + 1
    /\ \A t \in Seen : s.line = t.line => s.off = t.off

\* Cell k of inode i was there before the step.
Stays(i, k) ==
  i \in DOMAIN content /\ k \in DOMAIN content[i] /\ content'[i][k] = content[i][k]

\* One cell is new at most: the beginning of the next line, or the end of
\* the line that was the last one of its file.
NewCell(i, k) ==
  \/ /\ content'[i][k].part # "tail"
     /\ content'[i][k].line = written + 1 /\ written' = written + 1
     /\ k - 1 \in DOMAIN content[i] => content[i][k - 1].part # "head"
  \/ /\ content'[i][k].part = "tail"
     /\ k - 1 \in DOMAIN content[i]
     /\ content[i][k - 1] = [content'[i][k] EXCEPT !.part = "head"]

Writes(i, k) ==
  /\ i \in DOMAIN content /\ k = Len(content[i]) + 1
  /\ DOMAIN content' = DOMAIN content
  /\ DOMAIN content'[i] = 1..k
  /\ \A m \in 1..(k - 1) : content'[i][m] = content[i][m]
  /\ \A j \in DOMAIN content : j # i => content'[j] = content[j]
  /\ NewCell(i, k)

\* Or there is none, but a file that is empty now, or a new empty file.
WritesNothing ==
  /\ \A j \in DOMAIN content' : content'[j] = <<>> \/ (j \in DOMAIN content /\ content'[j] = content[j])

LEMMA ContentTypes ==
  ASSUME DiskTypeOK
  PROVE  /\ DOMAIN content = 1..Len(content) /\ Len(content) \in Nat
         /\ \A i \in DOMAIN content :
              /\ content[i] \in Seq(Cell)
              /\ DOMAIN content[i] = 1..Len(content[i]) /\ Len(content[i]) \in Nat
              /\ \A k \in DOMAIN content[i] : content[i][k] \in Cell
BY LenProperties, ElementOfSeq DEF DiskTypeOK

LEMMA DiskStep ==
  ASSUME DiskTypeOK, Environment
  PROVE  /\ written' \in {written, written + 1}
         /\ \/ \E i \in Nat, k \in Nat : Writes(i, k)
            \/ WritesNothing
<1>1. ASSUME NEW i \in DOMAIN content, NEW cell \in Cell, WriteCell(i, cell),
             \/ /\ cell.part = "tail" /\ LastCellIs(i, {"head"})
                /\ content[i][Len(content[i])] = [cell EXCEPT !.part = "head"]
             \/ cell.part # "tail" /\ cell.line = written + 1 /\ ~LastCellIs(i, {"head"})
      PROVE  \E k \in Nat : Writes(i, k)
  <2> DEFINE n == Len(content[i])
  <2>1. n \in Nat /\ content[i] \in Seq(Cell) /\ DOMAIN content[i] = 1..n
    BY ContentTypes
  <2>2. content' = [content EXCEPT ![i] = Append(content[i], cell)]
    BY <1>1 DEF WriteCell
  <2>3. /\ DOMAIN content' = DOMAIN content
        /\ content'[i] = Append(content[i], cell)
        /\ \A j \in DOMAIN content : j # i => content'[j] = content[j]
    BY <2>2
  <2>4. /\ content'[i] \in Seq(Cell) /\ Len(content'[i]) = n + 1
        /\ \A m \in 1..n : content'[i][m] = content[i][m]
        /\ content'[i][n + 1] = cell
    BY <2>1, <2>3, AppendProperties
  <2>5. DOMAIN content'[i] = 1..(n + 1)
    BY <2>4, LenProperties
  <2>6. NewCell(i, n + 1)
    <3>1. (n + 1) - 1 = n
      BY <2>1
    <3>2. CASE cell.part = "tail"
      <4>1. content[i] # <<>> /\ content[i][n] = [cell EXCEPT !.part = "head"]
        BY <1>1, <3>2 DEF LastCellIs
      <4>2. n \in DOMAIN content[i]
        BY <2>1, <4>1, EmptySeq
      <4> QED BY <2>4, <3>1, <3>2, <4>1, <4>2 DEF NewCell
    <3>3. CASE cell.part # "tail"
      <4>1. written' = written + 1 /\ cell.line = written + 1
        BY <1>1, <3>3 DEF WriteCell
      <4>2. n \in DOMAIN content[i] => content[i][n].part # "head"
        BY <1>1, <2>1, <3>3 DEF LastCellIs
      <4> QED BY <2>4, <3>1, <3>3, <4>1, <4>2 DEF NewCell
    <3> QED BY <3>2, <3>3
  <2>7. \A m \in 1..((n + 1) - 1) : content'[i][m] = content[i][m]
    BY <2>1, <2>4
  <2> QED BY <2>1, <2>3, <2>5, <2>6, <2>7 DEF Writes
<1>2. ASSUME NEW p \in Paths, entry[p] # NoFile, AppendTo(entry[p])
      PROVE  /\ written' \in {written, written + 1}
             /\ \E i \in Nat, k \in Nat : Writes(i, k)
  <2> DEFINE i == entry[p]
  <2>1. i \in DOMAIN content /\ i \in Nat /\ content[i] \in Seq(Cell)
    BY <1>2, ContentTypes DEF DiskTypeOK, Inodes
  <2>2. CASE /\ LastCellIs(i, {"head"})
             /\ WriteCell(i, [line |-> content[i][Len(content[i])].line, part |-> "tail"])
    <3> DEFINE cell == [line |-> content[i][Len(content[i])].line, part |-> "tail"]
    <3>1. content[i][Len(content[i])] \in Cell /\ content[i][Len(content[i])].part = "head"
      <4>1. content[i] # <<>>
        BY <2>2 DEF LastCellIs
      <4> QED BY <2>1, <2>2, <4>1, EmptySeq, LenProperties, ElementOfSeq DEF LastCellIs
    <3>2. cell \in Cell /\ content[i][Len(content[i])] = [cell EXCEPT !.part = "head"]
      BY <3>1 DEF Cell
    <3>3. written' = written
      BY <2>2 DEF WriteCell
    <3> QED BY <1>1, <2>1, <2>2, <3>2, <3>3
  <2>3. CASE /\ ~LastCellIs(i, {"head"})
             /\ written < MaxLines
             /\ \E kind \in LineKinds :
                  WriteCell(i, [line |-> written + 1,
                                part |-> IF kind = "long" THEN "head" ELSE "short"])
    <3>1. PICK kind \in LineKinds :
             WriteCell(i, [line |-> written + 1,
                           part |-> IF kind = "long" THEN "head" ELSE "short"])
      BY <2>3
    <3>2. written + 1 \in Lines
      BY <2>3, TailerAssumption DEF DiskTypeOK, Lines
    <3>3. [line |-> written + 1, part |-> IF kind = "long" THEN "head" ELSE "short"] \in Cell
      BY <3>2 DEF Cell
    <3>4. written' = written + 1
      BY <3>1 DEF WriteCell
    <3> QED BY <1>1, <2>1, <2>3, <3>1, <3>3, <3>4
  <2> QED BY <1>2, <2>2, <2>3 DEF AppendTo
<1>3. ASSUME NEW p \in Paths, Link(p)
      PROVE  WritesNothing /\ written' = written
  <2>1. content' = Append(content, <<>>) /\ written' = written
    BY <1>3 DEF Link
  <2>2. /\ content \in Seq(Seq(Cell)) /\ <<>> \in Seq(Cell)
        /\ DOMAIN content = 1..Len(content) /\ Len(content) \in Nat
    BY ContentTypes, EmptySeq DEF DiskTypeOK
  <2>3. /\ content' \in Seq(Seq(Cell)) /\ Len(content') = Len(content) + 1
        /\ \A j \in 1..Len(content) : content'[j] = content[j]
        /\ content'[Len(content) + 1] = <<>>
    BY <2>1, <2>2, AppendProperties
  <2>4. DOMAIN content' = 1..(Len(content) + 1)
    BY <2>3, LenProperties
  <2> QED BY <2>1, <2>2, <2>3, <2>4 DEF WritesNothing
<1>4. ASSUME UNCHANGED <<content, written>> PROVE WritesNothing /\ written' = written
  BY <1>4 DEF WritesNothing
<1>5. ASSUME NEW i \in DOMAIN content, content' = [content EXCEPT ![i] = <<>>], UNCHANGED written
      PROVE  WritesNothing /\ written' = written
  BY <1>5 DEF WritesNothing
<1>6. \A p \in Paths : entry[p] # NoFile => entry[p] \in DOMAIN content
  BY DEF DiskTypeOK, Inodes
<1> QED BY <1>2, <1>3, <1>4, <1>5, <1>6 DEF Environment

\* Every cell there is after the step was there before, or is the new one.
LEMMA CellFate ==
  ASSUME DiskTypeOK, NEW i0 \in Nat, NEW k0 \in Nat, Writes(i0, k0) \/ WritesNothing,
         NEW i \in DOMAIN content', NEW k \in DOMAIN content'[i]
  PROVE  Stays(i, k) \/ (Writes(i0, k0) /\ i = i0 /\ k = k0 /\ NewCell(i, k))
<1>1. CASE WritesNothing
  <2>1. content'[i] # <<>>
    OBVIOUS
  <2> QED BY <1>1, <2>1 DEF WritesNothing, Stays
<1>2. CASE Writes(i0, k0)
  <2>1. CASE i = i0 /\ k = k0
    BY <1>2, <2>1 DEF Writes
  <2>2. CASE i = i0 /\ k # k0
    <3>1. k \in 1..(k0 - 1) /\ i \in DOMAIN content /\ DOMAIN content[i] = 1..(k0 - 1)
      BY <1>2, <2>2, ContentTypes DEF Writes
    <3> QED BY <1>2, <2>2, <3>1 DEF Writes, Stays
  <2>3. CASE i # i0
    BY <1>2, <2>3 DEF Writes, Stays
  <2> QED BY <2>1, <2>2, <2>3
<1> QED BY <1>1, <1>2

LEMMA LinesStep ==
  ASSUME DiskTypeOK, DiskTypeOK', LinesInv, Environment
  PROVE  LinesInv' /\ written <= written'
<1>1. /\ written \in Nat /\ written' \in {written, written + 1}
      /\ \/ \E i \in Nat, k \in Nat : Writes(i, k)
         \/ WritesNothing
  BY DiskStep, TailerAssumption DEF DiskTypeOK
<1>2. PICK i0 \in Nat, k0 \in Nat : Writes(i0, k0) \/ WritesNothing
  BY <1>1
<1>3. \A i \in DOMAIN content' : \A k \in DOMAIN content'[i] :
        /\ k \in Nat /\ content'[i][k] \in Cell
        /\ Stays(i, k) \/ (Writes(i0, k0) /\ i = i0 /\ k = k0 /\ NewCell(i, k))
  <2>1. \A i \in DOMAIN content' : \A k \in DOMAIN content'[i] :
          k \in Nat /\ content'[i][k] \in Cell
    BY LenProperties, ElementOfSeq DEF DiskTypeOK
  <2> QED BY <1>2, <2>1, CellFate
<1>4. \A i \in DOMAIN content : \A k \in DOMAIN content[i] : content[i][k].line <= written
  BY DEF LinesInv
<1>5. \A i \in DOMAIN content : \A k \in DOMAIN content[i] : content[i][k].line \in Nat
  BY ContentTypes DEF Cell, Lines
<1>6. ASSUME NEW i \in DOMAIN content', NEW k \in DOMAIN content'[i]
      PROVE  content'[i][k].line <= written'
  <2>1. CASE Stays(i, k)
    BY <1>1, <1>4, <1>5, <2>1 DEF Stays
  <2>2. CASE i = i0 /\ k = k0 /\ NewCell(i, k) /\ Writes(i0, k0)
    <3>1. i \in DOMAIN content
      BY <2>2 DEF Writes
    <3>2. CASE content'[i][k].line = written + 1 /\ written' = written + 1
      BY <1>1, <3>2
    <3>3. CASE k - 1 \in DOMAIN content[i]
               /\ content[i][k - 1] = [content'[i][k] EXCEPT !.part = "head"]
      <4>1. content'[i][k].line = content[i][k - 1].line
        BY <1>3, <3>3 DEF Cell
      <4>2. content[i][k - 1].line \in Nat /\ content[i][k - 1].line <= written
        BY <1>4, <1>5, <3>1, <3>3
      <4>3. ASSUME NEW l \in Nat, l <= written PROVE l <= written'
        BY <1>1, <4>3
      <4> QED BY <4>1, <4>2, <4>3
    <3> QED BY <2>2, <3>2, <3>3 DEF NewCell
  <2> QED BY <1>3, <2>1, <2>2
<1>7. ASSUME NEW i \in DOMAIN content' PROVE WholeLines(content'[i])
  <2>1. CASE content'[i] = <<>>
    BY <2>1 DEF WholeLines
  <2>2. CASE i \in DOMAIN content /\ content'[i] = content[i]
    BY <2>2 DEF LinesInv
  <2>3. CASE Writes(i0, k0) /\ i = i0
    <3>1. /\ i \in DOMAIN content /\ k0 = Len(content[i]) + 1
          /\ DOMAIN content'[i] = 1..k0 /\ DOMAIN content[i] = 1..(k0 - 1)
          /\ \A m \in 1..(k0 - 1) : content'[i][m] = content[i][m]
          /\ NewCell(i, k0) /\ k0 \in Nat \ {0}
      BY <2>3, ContentTypes DEF Writes
    <3>2. WholeLines(content[i])
      BY <3>1 DEF LinesInv
    <3>3. ASSUME NEW k \in 1..k0, content'[i][k].part = "tail"
          PROVE  k - 1 \in 1..k0 /\ content'[i][k - 1] = [content'[i][k] EXCEPT !.part = "head"]
      <4>1. CASE k < k0
        <5>1. k \in 1..(k0 - 1) /\ content'[i][k] = content[i][k]
          BY <3>1, <4>1
        <5>2. k - 1 \in 1..(k0 - 1) /\ content[i][k - 1] = [content[i][k] EXCEPT !.part = "head"]
          BY <3>1, <3>2, <3>3, <5>1 DEF WholeLines
        <5> QED BY <3>1, <5>1, <5>2
      <4>2. CASE k = k0
        <5>1. k - 1 \in 1..(k0 - 1) /\ content[i][k - 1] = [content'[i][k] EXCEPT !.part = "head"]
          BY <3>1, <3>3, <4>2 DEF NewCell
        <5> QED BY <3>1, <5>1
      <4> QED BY <3>1, <4>1, <4>2
    <3>4. ASSUME NEW k \in 1..k0, content'[i][k].part = "head", k + 1 \in 1..k0
          PROVE  content'[i][k + 1] = [content'[i][k] EXCEPT !.part = "tail"]
      <4>1. k \in 1..(k0 - 1) /\ content'[i][k] = content[i][k]
        BY <3>1, <3>4
      <4>2. CASE k + 1 < k0
        <5>1. k + 1 \in 1..(k0 - 1) /\ content'[i][k + 1] = content[i][k + 1]
          BY <3>1, <4>2
        <5>2. k \in DOMAIN content[i] /\ k + 1 \in DOMAIN content[i] /\ content[i][k].part = "head"
          BY <3>1, <3>4, <4>1, <5>1
        <5>3. content[i][k + 1] = [content[i][k] EXCEPT !.part = "tail"]
          BY <3>2, <5>2 DEF WholeLines
        <5> QED BY <4>1, <5>1, <5>3, Zenon
      <4>3. CASE k + 1 = k0
        <5>1. k0 - 1 = k
          <6>1. k \in Nat /\ k0 \in Nat
            BY <3>1
          <6> QED BY <4>3, <6>1
        <5>2. /\ content'[i][k0].part = "tail"
              /\ content[i][k] = [content'[i][k0] EXCEPT !.part = "head"]
          BY <3>1, <3>4, <4>1, <5>1 DEF NewCell
        <5>3. content'[i][k0] \in Cell
          BY <1>3, <3>1
        <5>4. content'[i][k0] = [content[i][k] EXCEPT !.part = "tail"]
          BY <5>2, <5>3 DEF Cell
        <5> QED BY <4>1, <4>3, <5>4
      <4>4. k + 1 < k0 \/ k + 1 = k0
        BY <3>1, <3>4, <4>1
      <4> QED BY <4>2, <4>3, <4>4
    <3> QED BY <3>1, <3>3, <3>4 DEF WholeLines
  <2> QED BY <1>2, <2>1, <2>2, <2>3 DEF WritesNothing, Writes
<1>8. ASSUME NEW i \in DOMAIN content', NEW j \in DOMAIN content',
             NEW k \in DOMAIN content'[i], NEW m \in DOMAIN content'[j],
             content'[i][k].line = content'[j][m].line,
             content'[i][k].part # "tail", content'[j][m].part # "tail"
      PROVE  i = j /\ k = m
  <2>1. CASE Stays(i, k) /\ Stays(j, m)
    BY <1>8, <2>1 DEF LinesInv, Stays
  <2>2. CASE Stays(i, k) /\ NewCell(j, m)
    <3>1. content[i][k].line = written + 1 /\ content[i][k].line <= written
      BY <1>4, <1>8, <2>2 DEF Stays, NewCell
    <3> QED BY <1>1, <3>1
  <2>3. CASE NewCell(i, k) /\ Stays(j, m)
    <3>1. content[j][m].line = written + 1 /\ content[j][m].line <= written
      BY <1>4, <1>8, <2>3 DEF Stays, NewCell
    <3> QED BY <1>1, <3>1
  <2> QED BY <1>3, <2>1, <2>2, <2>3
<1>9. LinesInv'
  BY <1>6, <1>7, <1>8 DEF LinesInv
<1> QED BY <1>1, <1>9

LEMMA InitLines == Init => LinesInv /\ SeenInv
<1> SUFFICES ASSUME Init PROVE LinesInv /\ SeenInv
  OBVIOUS
<1>1. content = StartContent /\ written = Cardinality(StartLines)
  BY DEF Init
<1>2. \A i \in DOMAIN content : \A k \in DOMAIN content[i] : content[i][k].line <= written
  <2>1. PICK n \in 0..MaxLines : StartLines = 1..n
    BY TailerAssumption
  <2>2. n \in Nat /\ Cardinality(1..n) = IF 1 > n THEN 0 ELSE n - 1 + 1
    BY <2>1, TailerAssumption, FS_Interval
  <2>3. \A i \in DOMAIN StartContent : \A k \in DOMAIN StartContent[i] :
          StartContent[i][k].line \in StartLines
    BY DEF StartLines
  <2> QED BY <1>1, <2>1, <2>2, <2>3
<1>3. LinesInv
  BY <1>1, <1>2, StartAssumption DEF LinesInv
<1>4. Seen = {}
  BY DEF Init, Seen
<1> QED BY <1>3, <1>4 DEF SeenInv

\* A line there was before the step begins where it did, or no more.
LEMMA BeginsBefore ==
  ASSUME TypeInv, LinesInv, [Next]_vars, NEW i \in Nat, NEW k \in Nat,
         NEW l \in Nat, l <= written, Begins(i, k, l)'
  PROVE  Begins(i, k, l)
<1>1. CASE Environment
  <2>1. DiskTypeOK /\ written \in Nat
    BY TailerAssumption DEF TypeInv, TypeOK, DiskTypeOK
  <2>2. PICK i0 \in Nat, k0 \in Nat : Writes(i0, k0) \/ WritesNothing
    BY <1>1, <2>1, DiskStep
  <2>3. i \in DOMAIN content' /\ k \in DOMAIN content'[i]
        /\ content'[i][k].line = l /\ content'[i][k].part # "tail"
    BY DEF Begins
  <2>4. CASE Stays(i, k)
    BY <2>3, <2>4 DEF Stays, Begins
  <2>5. CASE NewCell(i, k)
    <3>1. l = written + 1
      BY <2>3, <2>5 DEF NewCell
    <3> QED BY <2>1, <3>1
  <2> QED BY <2>1, <2>2, <2>3, <2>4, <2>5, CellFate
<1>2. CASE ~Environment
  <2>1. content' = content
    BY <1>2 DEF Next, Start, Goroutine, Discovery, Polling, SelectStop, SelectDiscover,
       SelectPoll, DiscoverStat, Consider, DiscoverDone, PollStop, PollSkip, PollStat,
       CheckRotation, CheckTruncation, Drop, Open, ReadLine, Flush, ReadEOF, MarkDone, PollDone,
       Close, CloseBegin, CloseEnd, HydrateCheck, HydrateRead, vars, diskVars
  <2> QED BY <2>1 DEF Begins
<1> QED BY <1>1, <1>2

LEMMA NextLines == TypeInv /\ LinesInv /\ [Next]_vars => LinesInv' /\ written <= written'
<1> SUFFICES ASSUME TypeInv, LinesInv, [Next]_vars PROVE LinesInv' /\ written <= written'
  OBVIOUS
<1>1. CASE Environment
  <2>1. DiskTypeOK /\ DiskTypeOK'
    BY <1>1, EnvironmentTypes DEF TypeInv, TypeOK
  <2> QED BY <1>1, <2>1, LinesStep
<1>2. CASE ~Environment
  <2>1. content' = content /\ written' = written
    BY <1>2 DEF Next, Start, Goroutine, Discovery, Polling, SelectStop, SelectDiscover,
       SelectPoll, DiscoverStat, Consider, DiscoverDone, PollStop, PollSkip, PollStat,
       CheckRotation, CheckTruncation, Drop, Open, ReadLine, Flush, ReadEOF, MarkDone, PollDone,
       Close, CloseBegin, CloseEnd, HydrateCheck, HydrateRead, vars, diskVars
  <2>2. written \in Nat
    BY TailerAssumption DEF TypeInv, TypeOK, DiskTypeOK
  <2> QED BY <2>1, <2>2 DEF LinesInv
<1> QED BY <1>1, <1>2

\* Places read from are of paths and lines there are.
LEMMA SeenTypes ==
  ASSUME TypeInv, NEW s \in Seen
  PROVE  s.file \in Paths /\ s.gen \in Nat /\ s.off \in Nat /\ s.line \in Nat
<1>1. ASSUME NEW e \in ingested, s = Place(e.file, e)
      PROVE  s.file \in Paths /\ s.gen \in Nat /\ s.off \in Nat /\ s.line \in Nat
  <2>1. e \in Event
    BY DEF TypeInv, TypeOK, StoreTypeOK
  <2> QED BY <1>1, <2>1 DEF Event, Lines, Place
<1>2. ASSUME NEW n \in DOMAIN batch, s = Place(file, batch[n])
      PROVE  s.file \in Paths /\ s.gen \in Nat /\ s.off \in Nat /\ s.line \in Nat
  <2>1. batch[n] \in Parsed
    BY PositionTypes
  <2>2. batch # <<>>
    OBVIOUS
  <2>3. file \in Paths
    BY <2>2, PositionTypes DEF TypeInv, ControlOK, Busy
  <2> QED BY <1>2, <2>1, <2>3 DEF Parsed, Lines, Place
<1> QED BY <1>1, <1>2 DEF Seen

\* Only reading a line adds a place: appending the batch turns its places
\* into those of events.
LEMMA SeenKept ==
  ASSUME TypeInv, [Next]_vars
  PROVE  ReadLine \/ Seen' = Seen
<1>1. ASSUME UNCHANGED <<ingested, batch>>, batch = <<>> \/ todo' = todo
      PROVE  Seen' = Seen
  <2>1. CASE batch = <<>>
    BY <1>1, <2>1 DEF Seen, Place
  <2>2. CASE todo' = todo
    BY <1>1, <2>2 DEF Seen, Place, file
  <2> QED BY <1>1, <2>1, <2>2
<1>2. ASSUME AppendBatch, UNCHANGED todo
      PROVE  Seen' = Seen
  <2> DEFINE ev(n) == [seq |-> nextSeq + n - 1, file |-> file, gen |-> batch[n].gen,
                       off |-> batch[n].off, size |-> batch[n].size, line |-> batch[n].line]
  <2>1. ingested' = ingested \cup {ev(n) : n \in DOMAIN batch} /\ batch' = <<>>
    BY <1>2 DEF AppendBatch
  <2>2. \A n \in DOMAIN batch : Place(ev(n).file, ev(n)) = Place(file, batch[n])
    BY DEF Place
  <2> HIDE DEF ev
  <2>3. Seen' = {Place(e.file, e) : e \in ingested'}
    BY <2>1 DEF Seen, Place
  <2> QED BY <2>1, <2>2, <2>3 DEF Seen
<1>3. pc \notin {"read", "flush"} => batch = <<>>
  BY DEF TypeInv, ControlOK
<1>4. CASE \/ Environment \/ Start \/ (\E c \in Closers : Close(c))
           \/ HydrateCheck \/ HydrateRead \/ UNCHANGED vars
  <2>1. UNCHANGED <<ingested, batch>>
    BY <1>4 DEF Environment, Start, Close, CloseBegin, CloseEnd, HydrateCheck, HydrateRead,
                vars, storeVars, localVars
  <2>2. batch = <<>> \/ todo' = todo
    <3>1. Start => batch = <<>>
      BY <1>3 DEF Start, TypeInv
    <3> QED BY <1>4, <3>1 DEF Environment, Close, CloseBegin, CloseEnd, HydrateCheck,
                HydrateRead, vars, localVars
  <2> QED BY <1>1, <2>1, <2>2
<1>5. CASE \/ SelectStop \/ SelectDiscover \/ SelectPoll \/ DiscoverStat \/ DiscoverDone
           \/ PollStop \/ PollSkip \/ PollStat \/ Drop \/ Open \/ MarkDone \/ PollDone
           \/ Consider \/ CheckRotation \/ CheckTruncation
  <2>1. UNCHANGED <<ingested, batch>> /\ pc \notin {"read", "flush"}
    BY <1>5 DEF SelectStop, SelectDiscover, SelectPoll, DiscoverStat, DiscoverDone, PollStop,
                PollSkip, PollStat, Drop, Open, MarkDone, PollDone, Consider, CheckRotation,
                CheckTruncation, storeVars
  <2> QED BY <1>1, <1>3, <2>1
<1>6. CASE Flush \/ ReadEOF
  BY <1>2, <1>6 DEF Flush, ReadEOF
<1> QED BY <1>4, <1>5, <1>6 DEF Next, Goroutine, Discovery, Polling

\* Reading a line adds the place where it begins.
LEMMA SeenRead ==
  ASSUME TypeInv, ReadLine
  PROVE  \/ Seen' = Seen
         \/ \E l \in Nat :
              /\ Begins(fd, offset[file] + 1, l)
              /\ Seen' = Seen \cup {[file |-> file, gen |-> gen[file],
                                     off |-> offset[file], line |-> l]}
<1>1. /\ ingested' = ingested /\ todo' = todo /\ file' = file
      /\ fd \in DOMAIN content /\ content[fd] \in Seq(Cell)
      /\ offset[file] \in Nat
  <2>1. todo # <<>> /\ fd \in Inodes
    BY DEF ReadLine, TypeInv, ControlOK, Busy
  <2>2. file \in Paths /\ offset[file] \in Nat
    BY <2>1, PositionTypes
  <2> QED BY <2>1, <2>2, ContentTypes DEF ReadLine, storeVars, file, Inodes, TypeInv, TypeOK
<1>2. Len(content[fd]) \in Nat /\ DOMAIN content[fd] = 1..Len(content[fd])
  BY <1>1, LenProperties
<1>3. offset[file] + 1 \in DOMAIN content[fd]
  BY <1>1, <1>2 DEF ReadLine, HasLine
<1>4. content[fd][offset[file] + 1] \in Cell
  BY <1>1, <1>3, ElementOfSeq, LenProperties
<1> DEFINE l == content[fd][offset[file] + 1].line
           parsed == [gen |-> gen[file], off |-> offset[file],
                      size |-> LineSize(fd, offset[file]), line |-> l]
<1>5. CASE IsObject(fd, offset[file])
  <2>1. l \in Nat /\ Begins(fd, offset[file] + 1, l)
    BY <1>1, <1>3, <1>4, <1>5 DEF Begins, IsObject, Cell, Lines
  <2>2. batch' = Append(batch, parsed)
    BY <1>5 DEF ReadLine
  <2>3. Place(file, parsed) = [file |-> file, gen |-> gen[file], off |-> offset[file], line |-> l]
    BY DEF Place
  <2> HIDE DEF parsed, l
  <2>4. batch \in Seq(Parsed \cup {parsed}) /\ parsed \in Parsed \cup {parsed}
    BY DEF TypeInv, TypeOK, LocalTypeOK
  <2>5. /\ Len(batch) \in Nat /\ DOMAIN batch = 1..Len(batch)
        /\ DOMAIN batch' = 1..(Len(batch) + 1)
        /\ \A n \in DOMAIN batch : batch'[n] = batch[n]
        /\ batch'[Len(batch) + 1] = parsed
    BY <2>2, <2>4, AppendProperties, LenProperties
  <2>6. {Place(file, batch'[n]) : n \in DOMAIN batch'}
          = {Place(file, batch[n]) : n \in DOMAIN batch} \cup {Place(file, parsed)}
    <3>1. DOMAIN batch' = DOMAIN batch \cup {Len(batch) + 1}
      BY <2>5
    <3> QED BY <2>5, <3>1
  <2>7. Seen' = {Place(e.file, e) : e \in ingested} \cup {Place(file, batch'[n]) : n \in DOMAIN batch'}
    BY <1>1 DEF Seen, Place
  <2> QED BY <2>1, <2>3, <2>6, <2>7 DEF Seen
<1>6. CASE ~IsObject(fd, offset[file])
  BY <1>1, <1>6 DEF ReadLine, Seen, Place
<1> QED BY <1>5, <1>6

LEMMA NextSeen == TypeInv /\ LinesInv /\ SeenInv /\ [Next]_vars => SeenInv'
<1> SUFFICES ASSUME TypeInv, LinesInv, SeenInv, [Next]_vars PROVE SeenInv'
  OBVIOUS
<1>1. /\ written \in Nat /\ written' \in Nat /\ written <= written'
      /\ TypeInv'
  BY NextLines, NextTypes, TailerAssumption DEF TypeInv, TypeOK, DiskTypeOK
<1>2. \A s \in Seen : s.line \in Nat /\ s.off \in Nat
  BY SeenTypes
\* The places there were are good still.
<1>3. ASSUME NEW s \in Seen
      PROVE  /\ s.line <= written'
             /\ \A i, k \in Nat : Begins(i, k, s.line)' => k = s.off + 1
  <2>1. s.line <= written
    BY DEF SeenInv
  <2>2. PICK l \in Nat : l = s.line
    BY <1>2
  <2>3. l <= written
    BY <2>1, <2>2
  <2>4. \A i, k \in Nat : Begins(i, k, l)' => Begins(i, k, l)
    BY <2>3, BeginsBefore
  <2>5. \A i, k \in Nat : Begins(i, k, l) => k = s.off + 1
    BY <2>2 DEF SeenInv
  <2>6. l <= written'
    BY <1>1, <2>3
  <2>7. \A i, k \in Nat : Begins(i, k, s.line)' <=> Begins(i, k, l)'
    BY <2>2 DEF Begins
  <2> QED BY <2>2, <2>4, <2>5, <2>6, <2>7
<1>4. CASE Seen' = Seen
  BY <1>3, <1>4 DEF SeenInv, Begins
<1>5. CASE ReadLine /\ Seen' # Seen
  <2>1. PICK l \in Nat :
          /\ Begins(fd, offset[file] + 1, l)
          /\ Seen' = Seen \cup {[file |-> file, gen |-> gen[file], off |-> offset[file], line |-> l]}
    BY <1>5, SeenRead
  <2> DEFINE new == [file |-> file, gen |-> gen[file], off |-> offset[file], line |-> l]
  <2>2. new.line = l /\ new.off = offset[file]
    OBVIOUS
  <2>3. offset[file] \in Nat /\ fd \in Nat
    <3>1. todo # <<>> /\ fd \in Inodes
      BY <1>5 DEF ReadLine, TypeInv, ControlOK, Busy
    <3> QED BY <3>1, PositionTypes, ContentTypes DEF TypeInv, TypeOK, Inodes
  <2> HIDE DEF new
  <2>4. content' = content
    BY <1>5 DEF ReadLine, diskVars
  <2>5. \A i, k \in Nat : Begins(i, k, l) => i = fd /\ k = offset[file] + 1
    BY <2>1 DEF LinesInv, Begins
  <2>6. l <= written'
    <3>1. l <= written
      BY <2>1 DEF LinesInv, Begins
    <3> QED BY <1>1, <3>1
  <2>7. \A t \in Seen : t.line = l => t.off = offset[file]
    <3> SUFFICES ASSUME NEW t \in Seen, t.line = l PROVE t.off = offset[file]
      OBVIOUS
    <3>1. offset[file] + 1 = t.off + 1
      BY <2>1, <2>3 DEF SeenInv
    <3> QED BY <1>2, <2>3, <3>1
  <2>8. \A i, k \in Nat : Begins(i, k, l)' => k = offset[file] + 1
    BY <2>4, <2>5 DEF Begins
  <2>9. \A s \in Seen' : s \in Seen \/ s = new
    BY <2>1 DEF new
  <2>10. \A s \in Seen' :
           /\ s.line <= written'
           /\ \A i, k \in Nat : Begins(i, k, s.line)' => k = s.off + 1
    BY <1>3, <2>2, <2>6, <2>8, <2>9 DEF Begins
  <2>11. \A s, t \in Seen' : s.line = t.line => s.off = t.off
    BY <2>2, <2>7, <2>9 DEF SeenInv
  <2> QED BY <2>10, <2>11 DEF SeenInv, Begins
<1> QED BY <1>4, <1>5, SeenKept

LEMMA LinesSeen == Spec => [](TypeInv /\ LinesInv /\ SeenInv)
BY InitTypes, InitLines, NextTypes, NextLines, NextSeen, PTL DEF Spec

\* OncePerGeneration: within a generation no line of a file is ingested twice,
\* whatever is appended, cut off or replaced while it is read (readFrom).
THEOREM TailerOncePerGeneration == Spec => []OncePerGeneration
<1>1. SeenInv /\ RefIdentifies => OncePerGeneration
  <2> SUFFICES ASSUME SeenInv, RefIdentifies, NEW e \in ingested, NEW f \in ingested,
                      e.line = f.line, e.file = f.file, e.gen = f.gen
               PROVE  e = f
    BY DEF OncePerGeneration
  <2>1. Place(e.file, e) \in Seen /\ Place(f.file, f) \in Seen
    BY DEF Seen
  <2>2. e.off = f.off
    <3>1. Place(e.file, e).line = Place(f.file, f).line
      BY DEF Place
    <3>2. Place(e.file, e).off = Place(f.file, f).off
      BY <2>1, <3>1 DEF SeenInv
    <3> QED BY <3>2 DEF Place
  <2> QED BY <2>2 DEF RefIdentifies
<1> QED BY <1>1, LinesSeen, TailerRefIdentifies, PTL

------------------------------------------------------------------------------
(***************************************************************************)
(* Hydrating.  A path never goes back to an inode it has left, so the      *)
(* inode the table holds for it is never ahead of the one the path names,  *)
(* and the lines read in a file's present generation are in inodes between *)
(* these two.  When the two are the same, so is the inode with the line.   *)
(***************************************************************************)
Past(p, i) == i <= Len(content) /\ (entry[p] # NoFile => i <= entry[p])

TablePast == \A p \in Paths : Past(p, ino[p])

LocalPast ==
  /\ pc \in {"consider", "rotation"} => Past(file, fi.ino)
  /\ pc \in {"read", "flush"} => Past(file, fd) /\ ino[file] <= fd

Pass == {"poll", "rotation", "truncation", "drop", "open", "read", "flush", "mark"}

\* A pass is over registered files.
PassKnown == pc \in Pass => \A n \in DOMAIN todo : IsKnown(todo[n])

SeenPast ==
  \A s \in Seen :
    /\ IsKnown(s.file)
    /\ \A i, k \in Nat :
         Begins(i, k, s.line) => Past(s.file, i) /\ (s.gen = gen[s.file] => ino[s.file] <= i)

TracksInv == TablePast /\ LocalPast /\ PassKnown /\ SeenPast

LEMMA PastKept ==
  ASSUME TypeInv, [Next]_vars, NEW p \in Paths, NEW i \in Nat, Past(p, i)
  PROVE  Past(p, i)'
<1>1. /\ Len(content) \in Nat /\ entry \in [Paths -> Inodes \cup {NoFile}]
      /\ Inodes = 1..Len(content) /\ NoFile \notin Nat
  BY LenProperties, TailerAssumption DEF TypeInv, TypeOK, DiskTypeOK, Inodes
<1>2. CASE Environment
  <2>1. Inodes' = 1..Len(content') /\ Len(content') \in Nat /\ Inodes \subseteq Inodes'
    <3>1. DiskTypeOK' /\ Inodes \subseteq Inodes'
      BY <1>2, EnvironmentTypes DEF TypeInv, TypeOK
    <3> QED BY <3>1, LenProperties DEF DiskTypeOK, Inodes
  <2>2. Len(content) <= Len(content')
    <3>1. Len(content) = 0 \/ Len(content) \in 1..Len(content')
      BY <1>1, <2>1
    <3> QED BY <1>1, <2>1, <3>1
  <2>3. entry'[p] \in {entry[p], NoFile, Len(content) + 1}
    BY <1>1, <1>2 DEF Environment, AppendTo, WriteCell, Link
  <2>4. i <= Len(content')
    BY <1>1, <2>1, <2>2 DEF Past
  <2>5. entry'[p] = Len(content) + 1 => i <= entry'[p]
    BY <1>1 DEF Past
  <2> QED BY <2>3, <2>4, <2>5 DEF Past
<1>3. CASE ~Environment
  <2>1. content' = content /\ entry' = entry
    BY <1>3 DEF Next, Start, Goroutine, Discovery, Polling, SelectStop, SelectDiscover,
       SelectPoll, DiscoverStat, Consider, DiscoverDone, PollStop, PollSkip, PollStat,
       CheckRotation, CheckTruncation, Drop, Open, ReadLine, Flush, ReadEOF, MarkDone, PollDone,
       Close, CloseBegin, CloseEnd, HydrateCheck, HydrateRead, vars, diskVars
  <2> QED BY <2>1 DEF Past
<1> QED BY <1>2, <1>3

\* Where a path leads now is past everywhere it led.
LEMMA PastEntry ==
  ASSUME TypeInv, NEW p \in Paths, entry[p] # NoFile
  PROVE  Past(p, entry[p]) /\ entry[p] \in Nat
BY LenProperties DEF TypeInv, TypeOK, DiskTypeOK, Inodes, Past

LEMMA KnownKept ==
  ASSUME TypeInv, [Next]_vars, NEW p \in Paths, IsKnown(p)
  PROVE  IsKnown(p)'
<1>1. CASE known' = known
  BY <1>1 DEF IsKnown
<1>2. CASE Consider /\ known' = Append(known, file)
  <2>1. known \in Seq(Paths) /\ file \in Paths
    BY <1>2, PositionTypes DEF TypeInv, TypeOK, TableTypeOK, Consider, ControlOK, Busy
  <2>2. /\ DOMAIN known = 1..Len(known) /\ Len(known) \in Nat
        /\ DOMAIN known' = 1..(Len(known) + 1)
        /\ \A n \in 1..Len(known) : known'[n] = known[n]
    BY <1>2, <2>1, AppendProperties, LenProperties
  <2> QED BY <2>2 DEF IsKnown
<1>3. known' = known \/ (Consider /\ known' = Append(known, file))
  BY DEF Next, Environment, Start, Goroutine, Discovery, Polling, SelectStop, SelectDiscover,
       SelectPoll, DiscoverStat, Consider, DiscoverDone, PollStop, PollSkip, PollStat,
       CheckRotation, CheckTruncation, Drop, Open, ReadLine, Flush, ReadEOF, MarkDone, PollDone,
       Close, CloseBegin, CloseEnd, HydrateCheck, HydrateRead, vars, tableVars, file
<1> QED BY <1>1, <1>2, <1>3

\* What a step does to the inode and the generation of a path.
LEMMA TableStep ==
  ASSUME TypeInv, [Next]_vars, NEW p \in Paths
  PROVE  \/ ino'[p] = ino[p] /\ gen'[p] \in {gen[p], gen[p] + 1}
         \/ /\ pc \in {"consider", "rotation"} /\ p = file /\ ino'[p] = fi.ino
            /\ gen'[p] = gen[p] + 1 \/ ~IsKnown(p)
<1>1. /\ gen \in [Paths -> Nat] /\ offset \in [Paths -> Nat] /\ ino \in [Paths -> Nat]
      /\ pc \in Busy => file \in Paths
  BY PositionTypes DEF TypeInv, ControlOK
<1>2. CASE Consider
  <2>1. pc = "consider" /\ file \in Paths
    BY <1>1, <1>2 DEF Consider, Busy
  <2>2. CASE ~IsKnown(file) /\ ino' = [ino EXCEPT ![file] = fi.ino] /\ gen' = gen
    BY <1>1, <2>1, <2>2
  <2>3. CASE NewGeneration(file, fi.ino)
    BY <1>1, <2>1, <2>3 DEF NewGeneration
  <2>4. CASE UNCHANGED <<gen, ino>>
    BY <2>4
  <2> QED BY <1>2, <2>2, <2>3, <2>4 DEF Consider, file
<1>3. CASE CheckRotation
  <2>1. pc = "rotation" /\ file \in Paths
    BY <1>1, <1>3 DEF CheckRotation, Busy
  <2>2. CASE NewGeneration(file, fi.ino)
    BY <1>1, <2>1, <2>2 DEF NewGeneration
  <2> QED BY <1>3, <2>2 DEF CheckRotation
<1>4. CASE CheckTruncation
  <2>1. file \in Paths
    BY <1>1, <1>4 DEF CheckTruncation, Busy
  <2>2. CASE NewGeneration(file, ino[file])
    BY <1>1, <2>1, <2>2 DEF NewGeneration
  <2> QED BY <1>4, <2>2 DEF CheckTruncation
<1>5. CASE ~(Consider \/ CheckRotation \/ CheckTruncation)
  <2>1. UNCHANGED <<gen, ino>>
    BY <1>5 DEF Next, Environment, Start, Goroutine, Discovery, Polling, SelectStop,
       SelectDiscover, SelectPoll, DiscoverStat, DiscoverDone, PollStop, PollSkip, PollStat,
       Drop, Open, ReadLine, Flush, ReadEOF, MarkDone, PollDone,
       Close, CloseBegin, CloseEnd, HydrateCheck, HydrateRead, vars, tableVars
  <2> QED BY <2>1
<1> QED BY <1>2, <1>3, <1>4, <1>5

\* What a step does to the goroutine's stat and open file.
LEMMA LocalStep ==
  ASSUME TypeInv, [Next]_vars
  PROVE  /\ pc' \in {"consider", "rotation"} =>
              \/ UNCHANGED <<pc, todo, fi>>
              \/ /\ todo # <<>> /\ todo' = todo /\ entry' = entry
                 /\ entry[file] # NoFile /\ fi'.ino = entry[file]
         /\ pc' \in {"read", "flush"} =>
              \/ pc \in {"read", "flush"} /\ UNCHANGED <<todo, fd, ino>>
              \/ /\ todo # <<>> /\ todo' = todo /\ ino' = ino /\ entry' = entry
                 /\ entry[file] # NoFile /\ fd' = entry[file]
<1>1. CASE DiscoverStat
  BY <1>1 DEF DiscoverStat, StatOf, file, diskVars
<1>2. CASE PollStat
  BY <1>2 DEF PollStat, StatOf, file, diskVars
<1>3. CASE Open
  BY <1>3 DEF Open, file, diskVars, TypeInv, ControlOK, Busy
<1>4. CASE ReadLine \/ Flush \/ ReadEOF
  BY <1>4 DEF ReadLine, Flush, ReadEOF, tableVars
<1>5. CASE Environment \/ (\E c \in Closers : Close(c)) \/ HydrateCheck \/ HydrateRead \/ UNCHANGED vars
  BY <1>5 DEF Environment, Close, CloseBegin, CloseEnd, HydrateCheck, HydrateRead, vars,
              localVars, tableVars
<1>6. CASE \/ Start \/ SelectStop \/ SelectDiscover \/ SelectPoll \/ Consider \/ DiscoverDone
           \/ PollStop \/ PollSkip \/ CheckRotation \/ CheckTruncation \/ Drop \/ MarkDone
           \/ PollDone
  <2>1. pc' \notin {"consider", "rotation", "read", "flush"}
    BY <1>6 DEF Start, SelectStop, SelectDiscover, SelectPoll, Consider, DiscoverDone,
                PollStop, PollSkip, CheckRotation, CheckTruncation, Drop, MarkDone, PollDone,
                ReadOrMark
  <2> QED BY <2>1
<1> QED BY <1>1, <1>2, <1>3, <1>4, <1>5, <1>6 DEF Next, Goroutine, Discovery, Polling

\* What a step does to the pass.
LEMMA PassStep ==
  ASSUME TypeInv, [Next]_vars, pc' \in Pass
  PROVE  \/ pc \in Pass /\ (todo' = todo \/ (todo # <<>> /\ todo' = Tail(todo)))
         \/ todo' = known /\ known' = known
<1> USE DEF Pass
<1>1. CASE DiscoverDone \/ SelectPoll
  BY <1>1 DEF DiscoverDone, SelectPoll, tableVars
<1>2. CASE Environment \/ (\E c \in Closers : Close(c)) \/ HydrateCheck \/ HydrateRead \/ UNCHANGED vars
  BY <1>2 DEF Environment, Close, CloseBegin, CloseEnd, HydrateCheck, HydrateRead, vars, localVars
<1>3. CASE \/ PollSkip \/ PollStat \/ CheckRotation \/ CheckTruncation \/ Drop \/ Open \/ ReadLine
           \/ Flush \/ ReadEOF
  BY <1>3 DEF PollSkip, PollStat, CheckRotation, CheckTruncation, Drop, Open, ReadLine,
              Flush, ReadEOF
<1>4. CASE MarkDone
  BY <1>4 DEF MarkDone, TypeInv, ControlOK, Busy
<1>5. CASE Start \/ SelectStop \/ SelectDiscover \/ DiscoverStat \/ Consider \/ PollStop \/ PollDone
  <2>1. pc' \notin Pass
    BY <1>5 DEF Start, SelectStop, SelectDiscover, DiscoverStat, Consider, PollStop, PollDone
  <2> QED BY <2>1
<1> QED BY <1>1, <1>2, <1>3, <1>4, <1>5 DEF Next, Goroutine, Discovery, Polling

LEMMA NextPassKnown ==
  ASSUME TypeInv, PassKnown, [Next]_vars
  PROVE  PassKnown'
<1> SUFFICES ASSUME pc' \in Pass, NEW n \in DOMAIN todo'
             PROVE  \E m \in DOMAIN known' : known'[m] = todo'[n]
  BY DEF PassKnown, IsKnown
<1>1. todo \in Seq(Paths) /\ known \in Seq(Paths)
  BY DEF TypeInv, TypeOK, LocalTypeOK, TableTypeOK
<1>2. CASE pc \in Pass /\ todo' = todo
  <2>1. PICK p \in Paths : p = todo[n]
    BY <1>1, <1>2, ElementOfSeq, LenProperties
  <2> QED BY <1>2, <2>1, KnownKept DEF PassKnown, IsKnown
<1>3. CASE pc \in Pass /\ todo # <<>> /\ todo' = Tail(todo)
  <2>1. n + 1 \in DOMAIN todo /\ todo'[n] = todo[n + 1]
    BY <1>1, <1>3, HeadTailProperties, LenProperties
  <2>2. PICK p \in Paths : p = todo[n + 1]
    BY <1>1, <2>1, ElementOfSeq, LenProperties
  <2> QED BY <1>3, <2>1, <2>2, KnownKept DEF PassKnown, IsKnown
<1>4. CASE todo' = known /\ known' = known
  BY <1>4 DEF IsKnown
<1> QED BY <1>2, <1>3, <1>4, PassStep

\* Lines are never read in a generation to come.
LEMMA SeenGenerations ==
  ASSUME TypeInv, PositionInv, NEW s \in Seen
  PROVE  s.gen <= gen[s.file]
<1>1. ASSUME NEW e \in ingested, s = Place(e.file, e) PROVE s.gen <= gen[s.file]
  <2>1. e.gen \in Nat /\ gen[e.file] \in Nat
    BY PositionTypes
  <2>2. e.gen < gen[e.file] \/ e.gen = gen[e.file]
    BY DEF PositionInv, Consumed
  <2>3. s.gen = e.gen /\ s.file = e.file
    BY <1>1 DEF Place
  <2> QED BY <2>1, <2>2, <2>3
<1>2. ASSUME NEW n \in DOMAIN batch, s = Place(file, batch[n]) PROVE s.gen <= gen[s.file]
  <2>1. s.gen = gen[s.file]
    BY <1>2 DEF PositionInv, BatchAhead, Place
  <2> QED BY <2>1, SeenTypes
<1> QED BY <1>1, <1>2 DEF Seen

LEMMA NextTracks ==
  ASSUME TypeInv, PositionInv, LinesInv, SeenInv, TracksInv, [Next]_vars
  PROVE  TracksInv'
<1>1. /\ pc \in Busy => file \in Paths
      /\ ino \in [Paths -> Nat] /\ gen \in [Paths -> Nat] /\ fi.ino \in Nat /\ fd \in Nat
  BY PositionTypes DEF TypeInv, TypeOK, LocalTypeOK, ControlOK
<1>2. TablePast'
  <2> SUFFICES ASSUME NEW p \in Paths PROVE Past(p, ino[p])'
    BY DEF TablePast
  <2>1. CASE ino'[p] = ino[p]
    <3>1. PICK i \in Nat : i = ino[p]
      BY <1>1
    <3>2. Past(p, i)
      BY <3>1 DEF TracksInv, TablePast
    <3> QED BY <2>1, <3>1, <3>2, PastKept DEF Past
  <2>2. CASE pc \in {"consider", "rotation"} /\ p = file /\ ino'[p] = fi.ino
    <3>1. PICK i \in Nat : i = fi.ino
      BY <1>1
    <3>2. Past(p, i)
      BY <2>2, <3>1 DEF TracksInv, LocalPast
    <3> QED BY <2>2, <3>1, <3>2, PastKept DEF Past
  <2> QED BY <2>1, <2>2, TableStep
<1>3. LocalPast'
  <2>1. ASSUME pc' \in {"consider", "rotation"}
        PROVE  Past(file, fi.ino)'
    <3>1. CASE UNCHANGED <<pc, todo, fi>>
      <4>1. PICK p \in Paths : p = file
        BY <1>1, <2>1, <3>1 DEF Busy
      <4>2. PICK i \in Nat : i = fi.ino
        BY <1>1
      <4>3. Past(p, i)
        BY <2>1, <3>1, <4>1, <4>2 DEF TracksInv, LocalPast
      <4>4. Past(p, i)'
        BY <4>3, PastKept
      <4> QED BY <3>1, <4>1, <4>2, <4>4 DEF Past, file
    <3>2. CASE /\ todo # <<>> /\ todo' = todo /\ entry' = entry
               /\ entry[file] # NoFile /\ fi'.ino = entry[file]
      <4>1. PICK p \in Paths : p = file
        BY <3>2, PositionTypes
      <4>2. Past(p, entry[p]) /\ entry[p] \in Nat
        BY <3>2, <4>1, PastEntry
      <4>3. PICK i \in Nat : i = entry[p]
        BY <4>2
      <4>4. Past(p, i)'
        BY <4>2, <4>3, PastKept
      <4> QED BY <3>2, <4>1, <4>3, <4>4 DEF Past, file
    <3> QED BY <2>1, <3>1, <3>2, LocalStep
  <2>2. ASSUME pc' \in {"read", "flush"}
        PROVE  (Past(file, fd) /\ ino[file] <= fd)'
    <3>1. CASE pc \in {"read", "flush"} /\ UNCHANGED <<todo, fd, ino>>
      <4>1. PICK p \in Paths : p = file
        BY <1>1, <3>1 DEF Busy
      <4>2. PICK i \in Nat : i = fd
        BY <1>1
      <4>3. Past(p, i) /\ ino[p] <= i
        BY <3>1, <4>1, <4>2 DEF TracksInv, LocalPast
      <4>4. Past(p, i)'
        BY <4>3, PastKept
      <4> QED BY <3>1, <4>1, <4>2, <4>3, <4>4 DEF Past, file
    <3>2. CASE /\ todo # <<>> /\ todo' = todo /\ ino' = ino /\ entry' = entry
               /\ entry[file] # NoFile /\ fd' = entry[file]
      <4>1. PICK p \in Paths : p = file
        BY <3>2, PositionTypes
      <4>2. Past(p, entry[p]) /\ entry[p] \in Nat
        BY <3>2, <4>1, PastEntry
      <4>3. PICK i \in Nat : i = entry[p]
        BY <4>2
      <4>4. Past(p, i)'
        BY <4>2, <4>3, PastKept
      <4>5. ino[p] <= i
        BY <3>2, <4>1, <4>3 DEF TracksInv, TablePast, Past
      <4> QED BY <3>2, <4>1, <4>3, <4>4, <4>5 DEF Past, file
    <3> QED BY <2>2, <3>1, <3>2, LocalStep
  <2> QED BY <2>1, <2>2 DEF LocalPast
<1>4. PassKnown'
  BY NextPassKnown DEF TracksInv
\* The places there were.
<1>5. ASSUME NEW s \in Seen
      PROVE  /\ IsKnown(s.file)'
             /\ \A i, k \in Nat : Begins(i, k, s.line)' =>
                  Past(s.file, i)' /\ (s.gen = gen'[s.file] => ino'[s.file] <= i)
  <2>1. PICK p \in Paths : p = s.file
    BY SeenTypes
  <2>2. PICK l \in Nat : l = s.line
    BY SeenTypes
  <2>3. s.gen \in Nat /\ s.gen <= gen[p] /\ gen[p] \in Nat
    BY <1>1, <2>1, SeenGenerations, SeenTypes
  <2>4. IsKnown(p) /\ IsKnown(p)'
    BY <2>1, KnownKept DEF TracksInv, SeenPast
  <2>5. l <= written
    BY <2>2 DEF SeenInv
  <2> SUFFICES ASSUME NEW i \in Nat, NEW k \in Nat, Begins(i, k, l)'
               PROVE  Past(p, i)' /\ (s.gen = gen'[p] => ino'[p] <= i)
    BY <2>1, <2>2, <2>4 DEF IsKnown, Begins, Past
  <2>6. Begins(i, k, l)
    BY <2>5, BeginsBefore
  <2>7. Past(p, i) /\ (s.gen = gen[p] => ino[p] <= i)
    BY <2>1, <2>2, <2>6 DEF TracksInv, SeenPast
  <2>8. gen'[p] # gen[p] + 1 => ino'[p] = ino[p] /\ gen'[p] = gen[p]
    BY <2>4, TableStep
  <2>9. gen'[p] = gen[p] + 1 => s.gen # gen'[p]
    BY <2>3
  <2> QED BY <2>7, <2>8, <2>9, PastKept
<1>6. SeenPast'
  <2>1. CASE Seen' = Seen
    BY <1>5, <2>1 DEF SeenPast, IsKnown, Begins, Past
  <2>2. CASE ReadLine /\ Seen' # Seen
    <3>1. PICK l \in Nat :
            /\ Begins(fd, offset[file] + 1, l)
            /\ Seen' = Seen \cup {[file |-> file, gen |-> gen[file],
                                   off |-> offset[file], line |-> l]}
      BY <2>2, SeenRead
    <3>2. PICK new : new = [file |-> file, gen |-> gen[file], off |-> offset[file], line |-> l]
      OBVIOUS
    <3>3. \A s \in Seen' : s \in Seen \/ s = new
      BY <3>1, <3>2
    <3>4. /\ UNCHANGED <<content, entry, known, ino>> /\ pc \in {"read", "flush"} /\ todo # <<>>
      BY <2>2 DEF ReadLine, diskVars, TypeInv, ControlOK, Busy
    <3>5. PICK p \in Paths : p = file
      BY <3>4, PositionTypes
    <3>6. offset[p] \in Nat
      BY PositionTypes
    <3>7. \A i, k \in Nat : Begins(i, k, l)' => i = fd
      BY <3>1, <3>4 DEF LinesInv, Begins
    <3>8. Past(p, fd) /\ ino[p] <= fd
      BY <3>4, <3>5 DEF TracksInv, LocalPast
    <3>9. IsKnown(p)
      <4>1. 1 \in DOMAIN todo /\ todo[1] = p
        BY <3>4, <3>5, LenProperties, EmptySeq DEF file, TypeInv, TypeOK, LocalTypeOK
      <4> QED BY <3>4, <4>1 DEF TracksInv, PassKnown, Pass
    <3>10. /\ IsKnown(new.file)'
           /\ \A i, k \in Nat : Begins(i, k, new.line)' =>
                Past(new.file, i)' /\ (new.gen = gen'[new.file] => ino'[new.file] <= i)
      <4>1. new.file = p /\ new.line = l
        BY <3>2, <3>5
      <4>2. IsKnown(p)'
        BY <3>9, KnownKept
      <4>3. \A i, k \in Nat : Begins(i, k, l)' => Past(p, i)' /\ ino'[p] <= i
        BY <3>4, <3>7, <3>8 DEF Past
      <4> QED BY <4>1, <4>2, <4>3
    <3> QED BY <1>5, <3>3, <3>10 DEF SeenPast, IsKnown, Begins, Past
  <2> QED BY <2>1, <2>2, SeenKept
<1> QED BY <1>2, <1>3, <1>4, <1>6 DEF TracksInv

\* The line of an event that hydrate goes for is where hydrate will look.
HydrateInv ==
  hydrate.pc = "checked" =>
    /\ hydrate.of \in ingested
    /\ hydrate.at[1] = hydrate.at[2] =>
         \A i, k \in Nat : Begins(i, k, hydrate.of.line) => i = hydrate.at[1]

LEMMA NextHydrate ==
  ASSUME TypeInv, LinesInv, SeenInv, TracksInv, HydrateInv, [Next]_vars
  PROVE  HydrateInv'
<1>1. CASE HydrateCheck /\ hydrate'.pc = "checked"
  <2>1. PICK e \in ingested :
          hydrate' = IF gen[e.file] = e.gen
                       THEN [pc |-> "checked", of |-> e, at |-> <<entry[e.file], ino[e.file]>>]
                       ELSE [pc |-> "noted", of |-> e]
    BY <1>1 DEF HydrateCheck
  <2>2. /\ gen[e.file] = e.gen
        /\ hydrate'.of = e
        /\ hydrate'.at[1] = entry[e.file] /\ hydrate'.at[2] = ino[e.file]
    BY <1>1, <2>1
  <2>3. UNCHANGED <<content, ingested>>
    BY <1>1 DEF HydrateCheck, diskVars, storeVars
  <2>4. ASSUME entry[e.file] = ino[e.file], NEW i \in Nat, NEW k \in Nat, Begins(i, k, e.line)
        PROVE  i = entry[e.file]
    <3>1. PICK s \in Seen : s = Place(e.file, e)
      BY DEF Seen
    <3>2. s.file = e.file /\ s.gen = e.gen /\ s.line = e.line
      BY <3>1 DEF Place
    <3>3. Past(e.file, i) /\ ino[e.file] <= i
      BY <2>2, <2>4, <3>2 DEF TracksInv, SeenPast
    <3>4. ino[e.file] \in Nat /\ NoFile \notin Nat
      BY PositionTypes, TailerAssumption
    <3>5. i <= entry[e.file]
      BY <2>4, <3>3, <3>4 DEF Past
    <3> QED BY <2>4, <3>3, <3>4, <3>5
  <2> QED BY <2>2, <2>3, <2>4 DEF HydrateInv, Begins
<1>2. CASE hydrate' = hydrate
  <2>1. SUFFICES ASSUME hydrate.pc = "checked"
                 PROVE  /\ hydrate.of \in ingested'
                        /\ hydrate.at[1] = hydrate.at[2] =>
                             \A i, k \in Nat : Begins(i, k, hydrate.of.line)' => i = hydrate.at[1]
    BY <1>2 DEF HydrateInv, Begins
  <2>2. PICK e \in ingested : e = hydrate.of
    BY <2>1 DEF HydrateInv
  <2>3. PICK l \in Nat : l = e.line
    BY DEF TypeInv, TypeOK, StoreTypeOK, Event, Lines
  <2>4. ingested \subseteq ingested'
    BY DEF Next, Environment, Start, Goroutine, Discovery, Polling, SelectStop, SelectDiscover,
       SelectPoll, DiscoverStat, Consider, DiscoverDone, PollStop, PollSkip, PollStat,
       CheckRotation, CheckTruncation, Drop, Open, ReadLine, Flush, ReadEOF, MarkDone, PollDone,
       Close, CloseBegin, CloseEnd, HydrateCheck, HydrateRead, vars, storeVars, AppendBatch
  <2>5. l <= written
    <3>1. Place(e.file, e) \in Seen /\ Place(e.file, e).line = l
      BY <2>3 DEF Seen, Place
    <3> QED BY <3>1 DEF SeenInv
  <2>6. \A i, k \in Nat : Begins(i, k, l)' => Begins(i, k, l)
    BY <2>5, BeginsBefore
  <2>7. hydrate.at[1] = hydrate.at[2] => \A i, k \in Nat : Begins(i, k, l) => i = hydrate.at[1]
    BY <2>1, <2>2, <2>3 DEF HydrateInv
  <2>8. \A i, k \in Nat : Begins(i, k, hydrate.of.line)' <=> Begins(i, k, l)'
    BY <1>2, <2>2, <2>3 DEF Begins
  <2> QED BY <1>2, <2>2, <2>4, <2>6, <2>7, <2>8
<1>3. hydrate' = hydrate \/ HydrateCheck \/ HydrateRead
  BY DEF Next, Environment, Start, Goroutine, Discovery, Polling, SelectStop, SelectDiscover,
       SelectPoll, DiscoverStat, Consider, DiscoverDone, PollStop, PollSkip, PollStat,
       CheckRotation, CheckTruncation, Drop, Open, ReadLine, Flush, ReadEOF, MarkDone, PollDone,
       Close, CloseBegin, CloseEnd, vars, hydraVars
<1>4. HydrateRead => hydrate'.pc # "checked"
  BY DEF HydrateRead
<1> QED BY <1>1, <1>2, <1>3, <1>4 DEF HydrateInv

\* The bytes of a line lie where the line begins.
LEMMA BeginsSomewhere ==
  ASSUME TypeInv, LinesInv, NEW i \in DOMAIN content, NEW k \in DOMAIN content[i]
  PROVE  \E m \in Nat : Begins(i, m, content[i][k].line)
<1>1. content[i][k] \in Cell /\ i \in Nat /\ k \in Nat
  BY ContentTypes DEF TypeInv, TypeOK
<1>2. CASE content[i][k].part # "tail"
  BY <1>1, <1>2 DEF Begins
<1>3. CASE content[i][k].part = "tail"
  <2>1. /\ k - 1 \in DOMAIN content[i]
        /\ content[i][k - 1] = [content[i][k] EXCEPT !.part = "head"]
    BY <1>3 DEF LinesInv, WholeLines
  <2>2. content[i][k - 1].line = content[i][k].line /\ content[i][k - 1].part = "head"
    BY <1>1, <2>1 DEF Cell
  <2>3. k - 1 \in Nat
    BY <2>1, ContentTypes DEF TypeInv, TypeOK
  <2> QED BY <2>1, <2>2, <2>3 DEF Begins
<1> QED BY <1>2, <1>3

LEMMA HydrateStep ==
  ASSUME TypeInv, LinesInv, SeenInv, HydrateInv, HydrateRead,
         hydrate'.pc = "read", hydrate.at[1] = hydrate.at[2],
         entry[hydrate.of.file] = hydrate.at[1],
         NEW i \in DOMAIN content, NEW k \in DOMAIN content[i],
         content[i][k].line = hydrate.of.line
  PROVE  hydrate'.line = hydrate.of.line
<1>1. hydrate.pc = "checked"
  BY DEF HydrateRead
<1>2. PICK e \in ingested : e = hydrate.of
  BY <1>1 DEF HydrateInv
<1>3. e.off \in Nat /\ e.file \in Paths
  BY PositionTypes
<1>4. PICK j : j = entry[e.file]
  OBVIOUS
<1>5. j # NoFile /\ hydrate'.line \in LinesAt(j, e.off, e.size)
  BY <1>2, <1>4 DEF HydrateRead
<1>6. hydrate'.line = content[j][e.off + 1].line
  BY <1>5 DEF LinesAt
<1>7. PICK m \in Nat : Begins(i, m, e.line)
  BY <1>2, BeginsSomewhere
<1>8. i = j
  <2>1. i \in Nat
    BY ContentTypes DEF TypeInv, TypeOK
  <2> QED BY <1>1, <1>2, <1>4, <1>7, <2>1 DEF HydrateInv
<1>9. m = e.off + 1
  <2>1. PICK s \in Seen : s = Place(e.file, e)
    BY DEF Seen
  <2>2. s.line = e.line /\ s.off = e.off
    BY <2>1 DEF Place
  <2>3. i \in Nat
    BY ContentTypes DEF TypeInv, TypeOK
  <2> QED BY <1>7, <2>2, <2>3 DEF SeenInv
<1> QED BY <1>2, <1>6, <1>7, <1>8, <1>9 DEF Begins

LEMMA InitTracks == Init => TracksInv /\ HydrateInv
<1> SUFFICES ASSUME Init PROVE TracksInv /\ HydrateInv
  OBVIOUS
<1>1. TypeInv
  BY InitTypes
<1>2. TablePast
  <2> SUFFICES ASSUME NEW p \in Paths PROVE Past(p, 0)
    BY DEF TablePast, Init
  <2>1. entry[p] # NoFile => entry[p] \in Nat
    BY <1>1, PastEntry
  <2>2. Len(content) \in Nat
    BY <1>1, ContentTypes DEF TypeInv, TypeOK
  <2> QED BY <2>1, <2>2 DEF Past
<1>3. LocalPast /\ PassKnown /\ HydrateInv
  BY DEF Init, LocalPast, PassKnown, Pass, HydrateInv
<1>4. Seen = {}
  BY DEF Init, Seen
<1> QED BY <1>2, <1>3, <1>4 DEF TracksInv, SeenPast

LEMMA Tracking ==
  Spec => [](TypeInv /\ PositionInv /\ LinesInv /\ SeenInv /\ TracksInv /\ HydrateInv)
<1>1. TypeInv /\ TracksInv /\ HydrateInv /\ PositionInv /\ LinesInv /\ SeenInv /\ [Next]_vars
        => TracksInv' /\ HydrateInv'
  BY NextTracks, NextHydrate
<1> QED BY <1>1, InitTracks, Positions, LinesSeen, PTL DEF Spec

\* HydrateLagsOnly: as long as the path names the file it was compared to be,
\* hydrate returns the event's own line, or finds it nowhere on disk (hydrate).
THEOREM TailerHydrateLagsOnly == Spec => HydrateLagsOnly
<1> DEFINE OwnLine ==
      hydrate'.pc = "read" /\ hydrate.pc = "checked" =>
        \/ hydrate'.line = hydrate.of.line
        \/ hydrate.at[1] # hydrate.at[2]
        \/ entry[hydrate.of.file] # hydrate.at[1]
        \/ \A i \in DOMAIN content : \A k \in DOMAIN content[i] :
             content[i][k].line # hydrate.of.line
<1>1. TypeInv /\ LinesInv /\ SeenInv /\ HydrateInv /\ [Next]_vars => [OwnLine]_vars
  <2> SUFFICES ASSUME TypeInv, LinesInv, SeenInv, HydrateInv, [Next]_vars,
                      hydrate'.pc = "read", hydrate.pc = "checked",
                      hydrate.at[1] = hydrate.at[2], entry[hydrate.of.file] = hydrate.at[1],
                      NEW i \in DOMAIN content, NEW k \in DOMAIN content[i],
                      content[i][k].line = hydrate.of.line
               PROVE  hydrate'.line = hydrate.of.line
    OBVIOUS
  <2>1. HydrateRead
    <3>1. hydrate' # hydrate
      OBVIOUS
    <3>2. ~HydrateCheck
      BY DEF HydrateCheck
    <3> QED BY <3>1, <3>2 DEF Next, Environment, Start, Goroutine, Discovery, Polling,
       SelectStop, SelectDiscover, SelectPoll, DiscoverStat, Consider, DiscoverDone, PollStop,
       PollSkip, PollStat, CheckRotation, CheckTruncation, Drop, Open, ReadLine, Flush, ReadEOF,
       MarkDone, PollDone, Close, CloseBegin, CloseEnd, vars, hydraVars
  <2> QED BY <2>1, HydrateStep
<1> QED BY <1>1, Tracking, PTL DEF Spec, HydrateLagsOnly

------------------------------------------------------------------------------
(***************************************************************************)
(* The backfill.  A file there was at the start that is still under its    *)
(* path, and was only appended to, is followed from its first cell: it is  *)
(* registered by the first discovery, never starts over, and what lies     *)
(* before its offset is in the store or in the batch.                      *)
(***************************************************************************)
StartMax == Cardinality(StartLines)

\* Inode j still begins with what it held at the start; or it holds nothing
\* of it any more.
Old(j) ==
  /\ j \in DOMAIN StartContent /\ j \in DOMAIN content /\ StartContent[j] # <<>>
  /\ \A k \in DOMAIN StartContent[j] :
       k \in DOMAIN content[j] /\ content[j][k] = StartContent[j][k]
  /\ \A k \in DOMAIN content[j] :
       k \notin DOMAIN StartContent[j] /\ content[j][k].part # "tail"
         => content[j][k].line > StartMax

Renewed(j) == \A k \in DOMAIN content[j] : content[j][k].line > StartMax

StartDiskInv ==
  /\ StartMax <= written
  /\ Len(StartContent) <= Len(content)
  /\ \A i \in DOMAIN content : Old(i) \/ Renewed(i)
  /\ \A p \in Paths : entry[p] \in {StartEntry[p], NoFile} \/ entry[p] > Len(StartContent)
  /\ (DOMAIN StartContent) \ StartOld \subseteq recent

\* Path p still leads to the file of the backfill it led to at the start.
Kept(p) ==
  /\ StartEntry[p] \notin StartOld \cup {NoFile}
  /\ entry[p] = StartEntry[p]
  /\ Old(StartEntry[p])

LEMMA StartFacts ==
  /\ StartMax \in Nat
  /\ Len(StartContent) \in Nat /\ DOMAIN StartContent = 1..Len(StartContent)
  /\ \A i \in DOMAIN StartContent :
       /\ StartContent[i] \in Seq(Cell)
       /\ Len(StartContent[i]) \in Nat /\ DOMAIN StartContent[i] = 1..Len(StartContent[i])
       /\ \A k \in DOMAIN StartContent[i] :
            /\ StartContent[i][k] \in Cell
            /\ StartContent[i][k].line <= StartMax
<1>1. StartContent \in Seq(Seq(Cell))
  BY TailerAssumption
<1>2. /\ Len(StartContent) \in Nat /\ DOMAIN StartContent = 1..Len(StartContent)
      /\ \A i \in DOMAIN StartContent : StartContent[i] \in Seq(Cell)
  BY <1>1, LenProperties, ElementOfSeq
<1>3. \A i \in DOMAIN StartContent :
        /\ Len(StartContent[i]) \in Nat /\ DOMAIN StartContent[i] = 1..Len(StartContent[i])
        /\ \A k \in DOMAIN StartContent[i] : StartContent[i][k] \in Cell
  BY <1>2, LenProperties, ElementOfSeq
<1>4. PICK n \in 0..MaxLines : StartLines = 1..n
  BY TailerAssumption
<1>5. n \in Nat /\ Cardinality(1..n) = IF 1 > n THEN 0 ELSE n - 1 + 1
  BY <1>4, TailerAssumption, FS_Interval
<1>6. StartMax = n
  BY <1>4, <1>5 DEF StartMax
<1>7. \A i \in DOMAIN StartContent : \A k \in DOMAIN StartContent[i] :
        StartContent[i][k].line \in StartLines
  BY DEF StartLines
<1> QED BY <1>2, <1>3, <1>4, <1>5, <1>6, <1>7

LEMMA NotBoth ==
  ASSUME NEW j
  PROVE  ~(Old(j) /\ Renewed(j)) /\ ~(Old(j)' /\ Renewed(j)')
<1>1. ASSUME j \in DOMAIN StartContent, StartContent[j] # <<>>
      PROVE  1 \in DOMAIN StartContent[j] /\ ~(StartContent[j][1].line > StartMax)
  <2>1. 1 \in DOMAIN StartContent[j]
    BY <1>1, StartFacts, EmptySeq
  <2>2. StartContent[j][1].line \in Nat /\ StartContent[j][1].line <= StartMax
    BY <1>1, <2>1, StartFacts DEF Cell, Lines
  <2> QED BY <2>1, <2>2, StartFacts
<1> QED BY <1>1 DEF Old, Renewed

\* What other programs do to an inode: what is left of the start stays where
\* it was, or all of it goes.
LEMMA InodeFate ==
  ASSUME TypeInv, LinesInv, StartDiskInv, Environment, NEW i \in DOMAIN content'
  PROVE  \/ Renewed(i)'
         \/ /\ Old(i) /\ Old(i)'
            /\ \A k \in DOMAIN content[i] :
                 k \in DOMAIN content'[i] /\ content'[i][k] = content[i][k]
<1>1. DiskTypeOK /\ DiskTypeOK' /\ written \in Nat
  BY EnvironmentTypes, TailerAssumption DEF TypeInv, TypeOK, DiskTypeOK
<1>2. PICK i0 \in Nat, k0 \in Nat : Writes(i0, k0) \/ WritesNothing
  BY <1>1, DiskStep
<1>3. CASE content'[i] = <<>>
  BY <1>3 DEF Renewed
<1>4. CASE i \in DOMAIN content /\ content'[i] = content[i]
  <2>1. Old(i) => Old(i)'
    BY <1>4 DEF Old
  <2>2. Renewed(i) => Renewed(i)'
    BY <1>4 DEF Renewed
  <2> QED BY <1>4, <2>1, <2>2 DEF StartDiskInv
<1>5. CASE Writes(i0, k0) /\ i = i0
  <2>1. /\ i \in DOMAIN content /\ k0 = Len(content[i]) + 1
        /\ DOMAIN content'[i] = 1..k0 /\ DOMAIN content[i] = 1..(k0 - 1)
        /\ \A m \in 1..(k0 - 1) : content'[i][m] = content[i][m]
        /\ NewCell(i, k0) /\ k0 \in Nat \ {0}
    BY <1>1, <1>5, ContentTypes DEF Writes
  <2>2. content'[i][k0] \in Cell
    BY <1>1, <2>1, LenProperties, ElementOfSeq DEF DiskTypeOK
  <2>3. content'[i][k0].part # "tail" => content'[i][k0].line > StartMax
    <3>1. content'[i][k0].part # "tail" => content'[i][k0].line = written + 1
      BY <2>1 DEF NewCell
    <3> QED BY <1>1, <3>1, StartFacts DEF StartDiskInv
  <2>4. \A k \in DOMAIN content'[i] : k \in DOMAIN content[i] \/ k = k0
    BY <2>1
  <2>5. CASE Renewed(i)
    <3>1. content'[i][k0].line > StartMax
      <4>1. CASE content'[i][k0].part = "tail"
        <5>1. /\ k0 - 1 \in DOMAIN content[i]
              /\ content[i][k0 - 1] = [content'[i][k0] EXCEPT !.part = "head"]
          BY <2>1, <4>1 DEF NewCell
        <5>2. content'[i][k0].line = content[i][k0 - 1].line
          BY <2>2, <5>1 DEF Cell
        <5> QED BY <2>5, <5>1, <5>2 DEF Renewed
      <4> QED BY <2>3, <4>1
    <3> QED BY <2>1, <2>4, <2>5, <3>1 DEF Renewed
  <2>6. CASE Old(i)
    <3>1. \A k \in DOMAIN content[i] : k \in DOMAIN content'[i] /\ content'[i][k] = content[i][k]
      BY <2>1
    <3>2. i \in DOMAIN content'
      BY <1>5, <2>1 DEF Writes
    <3> QED BY <2>3, <2>4, <2>6, <3>1, <3>2 DEF Old
  <2> QED BY <2>1, <2>5, <2>6 DEF StartDiskInv
<1> QED BY <1>2, <1>3, <1>4, <1>5 DEF Writes, WritesNothing

LEMMA StartDiskKept ==
  ASSUME TypeInv, LinesInv, StartDiskInv, [Next]_vars
  PROVE  /\ StartDiskInv'
         /\ \A p \in Paths : Kept(p)' =>
              /\ Kept(p)
              /\ \A k \in DOMAIN content[StartEntry[p]] :
                   /\ k \in DOMAIN content'[StartEntry[p]]
                   /\ content'[StartEntry[p]][k] = content[StartEntry[p]][k]
<1>1. /\ Len(content) \in Nat /\ Inodes = 1..Len(content)
      /\ entry \in [Paths -> Inodes \cup {NoFile}] /\ NoFile \notin Nat
      /\ written \in Nat /\ written' \in Nat /\ written <= written'
  BY NextTypes, NextLines, LenProperties, TailerAssumption DEF TypeInv, TypeOK, DiskTypeOK, Inodes
<1>2. CASE Environment
  <2>1. Inodes' = 1..Len(content') /\ Len(content') \in Nat /\ Inodes \subseteq Inodes'
    <3>1. DiskTypeOK' /\ Inodes \subseteq Inodes'
      BY <1>2, EnvironmentTypes DEF TypeInv, TypeOK
    <3> QED BY <3>1, LenProperties DEF DiskTypeOK, Inodes
  <2>2. Len(content) <= Len(content')
    <3>1. Len(content) = 0 \/ Len(content) \in 1..Len(content')
      BY <1>1, <2>1
    <3> QED BY <1>1, <2>1, <3>1
  <2>3. \A p \in Paths : entry'[p] \in {entry[p], NoFile, Len(content) + 1}
    BY <1>1, <1>2 DEF Environment, AppendTo, WriteCell, Link
  <2>4. recent \subseteq recent'
    BY <1>2 DEF Environment, AppendTo, WriteCell, Link
  <2>5. StartMax <= written' /\ Len(StartContent) <= Len(content')
    BY <1>1, <2>1, <2>2, StartFacts DEF StartDiskInv
  <2>6. \A p \in Paths : entry'[p] \in {entry[p], NoFile} \/ entry'[p] > Len(StartContent)
    BY <1>1, <2>3, StartFacts DEF StartDiskInv
  <2>7. StartDiskInv'
    <3>1. \A i \in DOMAIN content' : Old(i)' \/ Renewed(i)'
      BY <1>2, InodeFate
    <3>2. \A p \in Paths : entry'[p] \in {StartEntry[p], NoFile} \/ entry'[p] > Len(StartContent)
      BY <2>6 DEF StartDiskInv
    <3> QED BY <2>4, <2>5, <3>1, <3>2 DEF StartDiskInv
  <2>8. ASSUME NEW p \in Paths, Kept(p)'
        PROVE  /\ Kept(p)
               /\ \A k \in DOMAIN content[StartEntry[p]] :
                    /\ k \in DOMAIN content'[StartEntry[p]]
                    /\ content'[StartEntry[p]][k] = content[StartEntry[p]][k]
    <3> DEFINE j == StartEntry[p]
    <3>1. entry'[p] = j /\ j \notin StartOld \cup {NoFile} /\ Old(j)'
      BY <2>8 DEF Kept
    <3>2. j \in DOMAIN StartContent /\ j \in DOMAIN content'
      BY <3>1 DEF Old
    <3>3. j \in Nat /\ ~(j > Len(StartContent))
      BY <3>2, StartFacts
    <3>4. entry[p] = j
      BY <2>6, <3>1, <3>3
    <3>5. /\ Old(j)
          /\ \A k \in DOMAIN content[j] : k \in DOMAIN content'[j] /\ content'[j][k] = content[j][k]
      BY <1>2, <3>1, <3>2, InodeFate, NotBoth
    <3> QED BY <3>1, <3>4, <3>5 DEF Kept
  <2> QED BY <2>7, <2>8
<1>3. CASE ~Environment
  <2>1. UNCHANGED diskVars
    BY <1>3 DEF Next, Start, Goroutine, Discovery, Polling, SelectStop, SelectDiscover,
       SelectPoll, DiscoverStat, Consider, DiscoverDone, PollStop, PollSkip, PollStat,
       CheckRotation, CheckTruncation, Drop, Open, ReadLine, Flush, ReadEOF, MarkDone, PollDone,
       Close, CloseBegin, CloseEnd, HydrateCheck, HydrateRead, vars
  <2>2. StartDiskInv'
    BY <2>1 DEF diskVars, StartDiskInv, Old, Renewed
  <2>3. \A p \in Paths : Kept(p)' => Kept(p)
    BY <2>1 DEF diskVars, Kept, Old
  <2> QED BY <2>1, <2>2, <2>3 DEF diskVars
<1> QED BY <1>2, <1>3

\* The goroutine is at path p.
At(p, S) == pc \in S /\ file = p

InTodo(p) == \E n \in DOMAIN todo : todo[n] = p

\* Line l was taken from path p: it is in the store, or in the batch.
Stored(p, l) == \E e \in store : e.file = p /\ e.line = l

Held(p, l) == Stored(p, l) \/ (file = p /\ \E n \in DOMAIN batch : batch[n].line = l)

\* Every line of inode j that was complete at the start was stored.
AllStored(p, j) ==
  \A k \in DOMAIN StartContent[j] :
    StartContent[j][k].part # "head" => Stored(p, StartContent[j][k].line)

\* p, which leads to inode j, is followed there, and never starts over.
Followed(p, j) ==
  /\ ~gone[p] /\ ~unreadable[p]
  /\ IsKnown(p) => ino[p] = j
  /\ offset[p] <= Len(content[j])
  /\ At(p, {"consider", "rotation"}) => fi.ino = j
  /\ At(p, {"rotation", "truncation"}) =>
       offset[p] <= fi.size /\ Len(StartContent[j]) <= fi.size
  /\ ~At(p, {"drop"})
  /\ At(p, {"read", "flush"}) => fd = j

Reaped(p, j) ==
  \A k \in DOMAIN content[j] :
    k <= offset[p] /\ content[j][k].part # "tail" => Held(p, content[j][k].line)

\* Unless the tailer is being closed, p is on its way to be read to its end.
Underway(p, j) ==
  ~stopped =>
    /\ done[p] \/ At(p, {"mark"}) => AllStored(p, j)
    /\ pc \in {"discover", "consider"} => IsKnown(p) \/ InTodo(p)
    /\ pc \in Pass \cup {"select"} => IsKnown(p)
    /\ pc \in Pass /\ loading => done[p] \/ InTodo(p)
    /\ ~loading => done[p]

BackfillInv ==
  \A p \in Paths : Kept(p) =>
    Followed(p, StartEntry[p]) /\ Reaped(p, StartEntry[p]) /\ Underway(p, StartEntry[p])

\* What was stored of a path stays stored unless the path's file is dropped.
LEMMA StoredKept ==
  ASSUME TypeInv, [Next]_vars, NEW p \in Paths, NEW l, ~At(p, {"drop"})
  PROVE  /\ Stored(p, l) => Stored(p, l)'
         /\ Held(p, l) => Held(p, l)'
<1>1. Stored(p, l) => Stored(p, l)'
  <2>1. CASE Drop
    BY <2>1 DEF Drop, At, Stored
  <2>2. CASE ~Drop
    <3>1. store \subseteq store'
      BY <2>2 DEF Next, Environment, Start, Goroutine, Discovery, Polling, SelectStop,
       SelectDiscover, SelectPoll, DiscoverStat, Consider, DiscoverDone, PollStop, PollSkip,
       PollStat, CheckRotation, CheckTruncation, Open, ReadLine, Flush, ReadEOF, MarkDone,
       PollDone, Close, CloseBegin, CloseEnd, HydrateCheck, HydrateRead, vars, storeVars,
       AppendBatch
    <3> QED BY <3>1 DEF Stored
  <2> QED BY <2>1, <2>2
<1>2. ASSUME file = p, NEW n \in DOMAIN batch, batch[n].line = l
      PROVE  Held(p, l)'
  <2>1. pc \in {"read", "flush"}
    BY DEF TypeInv, ControlOK
  <2>2. CASE Flush \/ ReadEOF
    <3>1. PICK e : e = [seq |-> nextSeq + n - 1, file |-> file, gen |-> batch[n].gen,
                        off |-> batch[n].off, size |-> batch[n].size, line |-> batch[n].line]
      OBVIOUS
    <3>2. e \in store'
      BY <2>2, <3>1 DEF Flush, ReadEOF, AppendBatch
    <3>3. e.file = p /\ e.line = l
      BY <1>2, <3>1
    <3> QED BY <3>2, <3>3 DEF Held, Stored
  <2>3. CASE ReadLine
    <3>1. todo' = todo
      BY <2>3 DEF ReadLine
    <3>2. n \in DOMAIN batch' /\ batch'[n] = batch[n]
      <4>1. batch \in Seq(Parsed)
        BY DEF TypeInv, TypeOK, LocalTypeOK
      <4>2. CASE batch' = batch
        BY <4>2
      <4>3. ASSUME NEW parsed, batch' = Append(batch, parsed)
            PROVE  n \in DOMAIN batch' /\ batch'[n] = batch[n]
        <5>1. batch \in Seq(Parsed \cup {parsed}) /\ parsed \in Parsed \cup {parsed}
          BY <4>1
        <5> QED BY <4>3, <5>1, AppendProperties, LenProperties
      <4> QED BY <2>3, <4>2, <4>3 DEF ReadLine
    <3> QED BY <1>2, <3>1, <3>2 DEF Held, file
  <2>4. CASE ~(Flush \/ ReadEOF \/ ReadLine)
    <3>1. UNCHANGED <<todo, batch>>
      BY <2>1, <2>4 DEF Next, Environment, Start, Goroutine, Discovery, Polling, SelectStop,
       SelectDiscover, SelectPoll, DiscoverStat, Consider, DiscoverDone, PollStop, PollSkip,
       PollStat, CheckRotation, CheckTruncation, Drop, Open, MarkDone, PollDone, Close,
       CloseBegin, CloseEnd, HydrateCheck, HydrateRead, vars, localVars, TypeInv
    <3> QED BY <1>2, <3>1 DEF Held, file
  <2> QED BY <2>2, <2>3, <2>4
<1> QED BY <1>1, <1>2 DEF Held

\* Once a file is read to its end, all that was complete at the start is held.
LEMMA ReapedAll ==
  ASSUME TypeInv, LinesInv, NEW p \in Paths, NEW j, Old(j), Reaped(p, j), batch = <<>>,
         offset[p] >= Len(StartContent[j])
  PROVE  AllStored(p, j)
<1> SUFFICES ASSUME NEW k \in DOMAIN StartContent[j], StartContent[j][k].part # "head"
             PROVE  Stored(p, StartContent[j][k].line)
  BY DEF AllStored
<1>1. offset[p] \in Nat
  BY PositionTypes
<1>2. k \in Nat /\ k <= offset[p] /\ StartContent[j][k] \in Cell
  BY <1>1, StartFacts DEF Old
<1>3. \A l : Held(p, l) => Stored(p, l)
  BY DEF Held
<1>4. k \in DOMAIN content[j] /\ content[j][k] = StartContent[j][k]
  BY DEF Old
<1>5. CASE content[j][k].part # "tail"
  BY <1>2, <1>3, <1>4, <1>5 DEF Reaped
<1>6. CASE content[j][k].part = "tail"
  <2>1. /\ k - 1 \in DOMAIN content[j]
        /\ content[j][k - 1] = [content[j][k] EXCEPT !.part = "head"]
    BY <1>4, <1>6 DEF LinesInv, WholeLines, Old
  <2>2. content[j][k - 1].line = content[j][k].line /\ content[j][k - 1].part = "head"
    BY <1>2, <1>4, <2>1 DEF Cell
  <2>3. k - 1 <= offset[p]
    BY <1>1, <1>2
  <2> QED BY <1>3, <1>4, <2>1, <2>2, <2>3 DEF Reaped
<1> QED BY <1>5, <1>6

\* At the end of the file at most the head of a line is left, and that line
\* was not complete.
LEMMA ReapedEOF ==
  ASSUME TypeInv, LinesInv, NEW p \in Paths, NEW j, Old(j), Reaped(p, j),
         ~HasLine(j, offset[p]),
         NEW k \in DOMAIN StartContent[j], StartContent[j][k].part # "head"
  PROVE  Held(p, StartContent[j][k].line)
<1>1. /\ j \in DOMAIN content /\ Len(content[j]) \in Nat
      /\ DOMAIN content[j] = 1..Len(content[j])
      /\ \A n \in DOMAIN content[j] : content[j][n] \in Cell
      /\ WholeLines(content[j])
  BY ContentTypes DEF TypeInv, TypeOK, Old, LinesInv
<1>2. k \in DOMAIN content[j] /\ content[j][k] = StartContent[j][k]
  BY DEF Old
<1> DEFINE o == offset[p]
<1>3. o \in Nat
  BY PositionTypes
<1>4. k <= o
  <2> SUFFICES ASSUME k > o PROVE FALSE
    BY <1>1, <1>2, <1>3
  <2>1. o + 1 \in DOMAIN content[j] /\ o + 1 <= Len(content[j])
    BY <1>1, <1>2, <1>3
  <2>2. content[j][o + 1].part = "head"
    BY <2>1 DEF HasLine
  <2>3. k # o + 1
    BY <1>2, <2>2
  <2>4. o + 2 \in DOMAIN content[j] /\ o + 2 <= Len(content[j]) /\ (o + 1) + 1 = o + 2
    BY <1>1, <1>2, <1>3, <2>3
  <2>5. content[j][o + 2] = [content[j][o + 1] EXCEPT !.part = "tail"]
    BY <1>1, <2>1, <2>2, <2>4 DEF WholeLines
  <2>6. content[j][o + 2].part = "tail"
    BY <1>1, <2>1, <2>5 DEF Cell
  <2> QED BY <2>4, <2>6 DEF HasLine
<1>5. CASE content[j][k].part # "tail"
  BY <1>2, <1>4, <1>5 DEF Reaped
<1>6. CASE content[j][k].part = "tail"
  <2>1. /\ k - 1 \in DOMAIN content[j]
        /\ content[j][k - 1] = [content[j][k] EXCEPT !.part = "head"]
    BY <1>1, <1>2, <1>6 DEF WholeLines
  <2>2. content[j][k - 1].line = content[j][k].line /\ content[j][k - 1].part = "head"
    BY <1>1, <1>2, <2>1 DEF Cell
  <2>3. k - 1 <= o
    BY <1>1, <1>2, <1>3, <1>4
  <2> QED BY <1>2, <2>1, <2>2, <2>3 DEF Reaped
<1> QED BY <1>5, <1>6

\* A step while path p leads to inode j, before and after it.
Stay(p, j) ==
  /\ j \in DOMAIN StartContent /\ j \notin StartOld /\ j # NoFile
  /\ entry[p] = j /\ entry'[p] = j
  /\ Old(j) /\ j \in recent
  /\ \A k \in DOMAIN content[j] : k \in DOMAIN content'[j] /\ content'[j][k] = content[j][k]

LEMMA StaySizes ==
  ASSUME TypeInv, [Next]_vars, NEW p \in Paths, NEW j, Stay(p, j)
  PROVE  /\ Len(content[j]) \in Nat /\ Len(content'[j]) \in Nat
         /\ DOMAIN content[j] = 1..Len(content[j])
         /\ Len(StartContent[j]) \in Nat
         /\ Len(content[j]) <= Len(content'[j])
         /\ Len(StartContent[j]) <= Len(content[j])
<1>1. TypeInv'
  BY NextTypes
<1>2. j \in DOMAIN content /\ j \in DOMAIN content'
  <2>1. /\ NoFile \notin Inodes' /\ entry' \in [Paths -> Inodes' \cup {NoFile}]
    BY <1>1, TailerAssumption, LenProperties DEF TypeInv, TypeOK, DiskTypeOK, Inodes
  <2> QED BY <2>1 DEF Stay, Old, Inodes
<1>3. /\ Len(content[j]) \in Nat /\ DOMAIN content[j] = 1..Len(content[j])
  BY <1>2, ContentTypes DEF TypeInv, TypeOK
<1>4. /\ Len(content'[j]) \in Nat /\ DOMAIN content'[j] = 1..Len(content'[j])
  BY <1>1, <1>2, LenProperties, ElementOfSeq DEF TypeInv, TypeOK, DiskTypeOK
<1>5. /\ Len(StartContent[j]) \in Nat /\ DOMAIN StartContent[j] = 1..Len(StartContent[j])
  BY StartFacts DEF Stay
<1>6. Len(content[j]) <= Len(content'[j])
  <2>1. Len(content[j]) = 0 \/ Len(content[j]) \in DOMAIN content[j]
    BY <1>3
  <2>2. Len(content[j]) = 0 \/ Len(content[j]) \in DOMAIN content'[j]
    BY <2>1 DEF Stay
  <2> QED BY <1>3, <1>4, <2>2
<1>7. Len(StartContent[j]) <= Len(content[j])
  <2>1. Len(StartContent[j]) = 0 \/ Len(StartContent[j]) \in DOMAIN StartContent[j]
    BY <1>5
  <2>2. Len(StartContent[j]) = 0 \/ Len(StartContent[j]) \in DOMAIN content[j]
    BY <2>1 DEF Stay, Old
  <2> QED BY <1>3, <1>5, <2>2
<1> QED BY <1>3, <1>4, <1>5, <1>6, <1>7

LEMMA FollowedStep ==
  ASSUME TypeInv, PassKnown, NEW p \in Paths, NEW j, Stay(p, j), Followed(p, j), [Next]_vars
  PROVE  Followed(p, j)'
<1>1. /\ Len(content[j]) \in Nat /\ Len(content'[j]) \in Nat
      /\ Len(StartContent[j]) \in Nat
      /\ Len(content[j]) <= Len(content'[j])
      /\ Len(StartContent[j]) <= Len(content[j])
  BY StaySizes
<1>2. /\ gen \in [Paths -> Nat] /\ offset \in [Paths -> Nat] /\ ino \in [Paths -> Nat]
      /\ gone \in [Paths -> BOOLEAN] /\ unreadable \in [Paths -> BOOLEAN]
      /\ todo # <<>> => file \in Paths
      /\ pc \in Busy => todo # <<>>
  BY PositionTypes DEF TypeInv, TypeOK, TableTypeOK, ControlOK
<1>3. /\ ~gone[p] /\ ~unreadable[p]
      /\ IsKnown(p) => ino[p] = j
      /\ offset[p] <= Len(content[j])
  BY DEF Followed
<1>4. offset[p] <= Len(content'[j])
  BY <1>1, <1>2, <1>3
<1>5. CASE UNCHANGED <<tableVars, localVars>>
  BY <1>4, <1>5 DEF Followed, At, file, IsKnown, tableVars, localVars
<1>6. CASE \/ Start \/ SelectStop \/ SelectDiscover \/ SelectPoll \/ DiscoverDone \/ PollStop
           \/ PollSkip \/ MarkDone \/ PollDone
  <2>1. /\ UNCHANGED <<known, ino, offset, gone, unreadable>>
        /\ pc' \notin {"consider", "rotation", "truncation", "drop", "read", "flush"}
    BY <1>6 DEF Start, SelectStop, SelectDiscover, SelectPoll, DiscoverDone, PollStop, PollSkip,
                MarkDone, PollDone, tableVars
  <2> QED BY <1>3, <1>4, <2>1 DEF Followed, At, IsKnown
<1>7. CASE DiscoverStat
  <2>1. /\ UNCHANGED <<known, ino, offset, gone, unreadable>>
        /\ \/ pc' = "discover"
           \/ pc' = "consider" /\ todo' = todo /\ fi'.ino = entry[file]
    BY <1>7 DEF DiscoverStat, StatOf, file, tableVars
  <2> QED BY <1>3, <1>4, <2>1 DEF Followed, At, IsKnown, file, Stay
<1>8. CASE Consider
  <2>1. /\ file \in Paths /\ pc = "consider" /\ pc' = "discover" /\ UNCHANGED <<unreadable>>
    BY <1>2, <1>8 DEF Consider, Busy
  <2>2. /\ ~gone'[p] /\ offset'[p] = offset[p]
        /\ IsKnown(p)' => ino'[p] = j
    <3>1. CASE ~IsKnown(file) /\ known' = Append(known, file) /\ ino' = [ino EXCEPT ![file] = fi.ino]
               /\ UNCHANGED <<offset, gone>>
      <4>1. CASE p = file
        BY <1>2, <1>3, <2>1, <3>1, <4>1 DEF Followed, At
      <4>2. CASE p # file
        <5>1. IsKnown(p)' => IsKnown(p)
          <6>1. known \in Seq(Paths)
            BY DEF TypeInv, TypeOK, TableTypeOK
          <6>2. /\ DOMAIN known = 1..Len(known) /\ Len(known) \in Nat
                /\ DOMAIN known' = 1..(Len(known) + 1)
                /\ \A n \in 1..Len(known) : known'[n] = known[n]
                /\ known'[Len(known) + 1] = file
            BY <2>1, <3>1, <6>1, AppendProperties, LenProperties
          <6>3. \A n \in DOMAIN known' : n \in DOMAIN known \/ n = Len(known) + 1
            BY <6>2
          <6> QED BY <4>2, <6>2, <6>3 DEF IsKnown
        <5> QED BY <1>2, <1>3, <3>1, <4>2, <5>1
      <4> QED BY <4>1, <4>2
    <3>2. CASE /\ gone[file] /\ gone' = [gone EXCEPT ![file] = FALSE] /\ known' = known
               /\ NewGeneration(file, fi.ino) \/ UNCHANGED <<offset, ino>>
      <4>1. p # file
        BY <1>3, <3>2
      <4> QED BY <1>2, <1>3, <3>2, <4>1 DEF NewGeneration, IsKnown
    <3>3. CASE UNCHANGED <<known, gone, offset, ino>>
      BY <1>3, <3>3 DEF IsKnown
    <3> QED BY <1>8, <3>1, <3>2, <3>3 DEF Consider, file
  <2> QED BY <1>3, <1>4, <2>1, <2>2 DEF Followed, At
<1>9. CASE PollStat
  <2>1. UNCHANGED <<known, ino, offset, unreadable>> /\ todo # <<>> /\ file \in Paths
    BY <1>2, <1>9 DEF PollStat
  <2>2. CASE entry[file] = NoFile
    <3>1. pc' = "poll" /\ gone' = [gone EXCEPT ![file] = TRUE] /\ p # file
      BY <1>9, <2>2 DEF PollStat, Stay
    <3> QED BY <1>2, <1>3, <1>4, <2>1, <3>1 DEF Followed, At, IsKnown
  <2>3. CASE entry[file] # NoFile
    <3>1. /\ pc' = "rotation" /\ gone' = gone /\ todo' = todo
          /\ fi'.ino = entry[file] /\ fi'.size = Len(content[entry[file]])
      BY <1>9, <2>3 DEF PollStat, StatOf
    <3> QED BY <1>1, <1>3, <1>4, <2>1, <3>1 DEF Followed, At, IsKnown, file, Stay
  <2> QED BY <2>2, <2>3
<1>10. CASE CheckRotation
  <2>1. /\ UNCHANGED <<known, gone, unreadable, todo, fi>> /\ pc = "rotation" /\ pc' = "truncation"
        /\ todo # <<>> /\ file \in Paths
    BY <1>2, <1>10 DEF CheckRotation, Busy
  <2>2. CASE p = file
    <3>1. IsKnown(p)
      <4>1. 1 \in DOMAIN todo /\ todo[1] = p
        BY <2>1, <2>2, LenProperties, EmptySeq DEF file, TypeInv, TypeOK, LocalTypeOK
      <4> QED BY <2>1, <4>1 DEF PassKnown, Pass
    <3>2. fi.ino = ino[file]
      BY <1>3, <2>1, <2>2, <3>1 DEF Followed, At
    <3>3. UNCHANGED <<offset, ino>>
      BY <1>10, <3>2 DEF CheckRotation
    <3> QED BY <1>3, <1>4, <2>1, <2>2, <3>3 DEF Followed, At, IsKnown, file
  <2>3. CASE p # file
    <3>1. NewGeneration(file, fi.ino) \/ UNCHANGED <<offset, ino>>
      BY <1>10 DEF CheckRotation
    <3>2. offset'[p] = offset[p] /\ ino'[p] = ino[p]
      BY <1>2, <2>1, <2>3, <3>1 DEF NewGeneration
    <3> QED BY <1>3, <1>4, <2>1, <2>3, <3>2 DEF Followed, At, IsKnown, file
  <2> QED BY <2>2, <2>3
<1>11. CASE CheckTruncation
  <2>1. /\ UNCHANGED <<known, gone, unreadable, todo, fi>> /\ pc = "truncation"
        /\ pc' \in {"drop", "open", "mark"} /\ todo # <<>> /\ file \in Paths
    BY <1>2, <1>11 DEF CheckTruncation, ReadOrMark, Busy
  <2>2. CASE p = file
    <3>1. offset[file] <= fi.size
      BY <2>1, <2>2 DEF Followed, At
    <3>2. fi.size \in Nat
      BY DEF TypeInv, TypeOK, LocalTypeOK
    <3>3. UNCHANGED <<offset, ino>> /\ pc' # "drop"
      BY <1>2, <1>11, <2>1, <3>1, <3>2 DEF CheckTruncation, ReadOrMark
    <3> QED BY <1>3, <1>4, <2>1, <3>3 DEF Followed, At, IsKnown
  <2>3. CASE p # file
    <3>1. NewGeneration(file, ino[file]) \/ UNCHANGED <<offset, ino>>
      BY <1>11 DEF CheckTruncation
    <3>2. offset'[p] = offset[p] /\ ino'[p] = ino[p]
      BY <1>2, <2>1, <2>3, <3>1 DEF NewGeneration
    <3> QED BY <1>3, <1>4, <2>1, <2>3, <3>2 DEF Followed, At, IsKnown, file
  <2> QED BY <2>2, <2>3
<1>12. CASE Drop
  <2>1. UNCHANGED <<known, ino, offset, gone, unreadable>> /\ pc' \in {"open", "mark"}
    BY <1>12 DEF Drop, ReadOrMark, tableVars
  <2> QED BY <1>3, <1>4, <2>1 DEF Followed, At, IsKnown
<1>13. CASE Open
  <2>1. /\ UNCHANGED <<known, ino, offset, gone, todo>> /\ file \in Paths
    BY <1>2, <1>13 DEF Open, Busy
  <2>2. CASE entry[file] = NoFile
    <3>1. pc' = "mark" /\ unreadable' = [unreadable EXCEPT ![file] = TRUE] /\ p # file
      BY <1>13, <2>2 DEF Open, Stay
    <3> QED BY <1>2, <1>3, <1>4, <2>1, <3>1 DEF Followed, At, IsKnown
  <2>3. CASE entry[file] # NoFile
    <3>1. pc' = "read" /\ unreadable' = unreadable /\ fd' = entry[file]
      BY <1>13, <2>3 DEF Open
    <3> QED BY <1>3, <1>4, <2>1, <3>1 DEF Followed, At, IsKnown, file, Stay
  <2> QED BY <2>2, <2>3
<1>14. CASE ReadLine
  <2>1. /\ UNCHANGED <<known, ino, gone, unreadable, todo, fd>> /\ file \in Paths
        /\ pc = "read" /\ pc' \in {"read", "flush"}
    BY <1>2, <1>14 DEF ReadLine, Busy
  <2>2. offset' = [offset EXCEPT ![file] = @ + LineSize(fd, offset[file])]
    BY <1>14 DEF ReadLine
  <2>3. offset'[p] <= Len(content'[j])
    <3>1. CASE p # file
      BY <1>4, <2>2, <3>1
    <3>2. CASE p = file
      <4>1. fd = j
        BY <2>1, <3>2 DEF Followed, At
      <4>2. offset[p] + LineSize(j, offset[p]) <= Len(content[j])
        <5>1. PICK n \in 1..2 : offset[p] + n <= Len(content[j])
                                /\ content[j][offset[p] + n].part # "head"
          BY <1>14, <3>2, <4>1 DEF ReadLine, HasLine
        <5>2. n = 1 \/ n = 2
          BY <5>1
        <5> QED BY <1>1, <1>2, <5>1, <5>2 DEF LineSize
      <4>3. offset'[p] = offset[p] + LineSize(j, offset[p])
        BY <1>2, <2>2, <3>2, <4>1
      <4>4. LineSize(j, offset[p]) \in Nat
        BY DEF LineSize
      <4> QED BY <1>1, <1>2, <4>2, <4>3, <4>4
    <3> QED BY <3>1, <3>2
  <2> QED BY <1>3, <2>1, <2>3 DEF Followed, At, IsKnown, file
<1>15. CASE Flush \/ ReadEOF
  <2>1. /\ UNCHANGED <<known, ino, offset, gone, unreadable, todo, fd>>
        /\ pc \in {"read", "flush"} /\ pc' \in {"read", "mark"}
    BY <1>15 DEF Flush, ReadEOF, tableVars
  <2> QED BY <1>3, <1>4, <2>1 DEF Followed, At, IsKnown, file
<1>16. CASE Environment \/ (\E c \in Closers : Close(c)) \/ HydrateCheck \/ HydrateRead \/ UNCHANGED vars
  <2>1. UNCHANGED <<tableVars, localVars>>
    BY <1>16 DEF Environment, Close, CloseBegin, CloseEnd, HydrateCheck, HydrateRead, vars
  <2> QED BY <1>5, <2>1
<1> QED BY <1>6, <1>7, <1>8, <1>9, <1>10, <1>11, <1>12, <1>13, <1>14, <1>15, <1>16
        DEF Next, Goroutine, Discovery, Polling

LEMMA ReapedStep ==
  ASSUME TypeInv, LinesInv, NEW p \in Paths, NEW j, Stay(p, j), Followed(p, j), Reaped(p, j),
         [Next]_vars
  PROVE  Reaped(p, j)'
<1>1. /\ Len(content[j]) \in Nat /\ DOMAIN content[j] = 1..Len(content[j])
      /\ offset \in [Paths -> Nat] /\ offset[p] <= Len(content[j])
      /\ \A k \in DOMAIN content'[j] : k \in Nat \ {0}
  <2>1. TypeInv'
    BY NextTypes
  <2>2. j \in DOMAIN content'
    <3>1. NoFile \notin Inodes' /\ entry' \in [Paths -> Inodes' \cup {NoFile}]
      BY <2>1, TailerAssumption, LenProperties DEF TypeInv, TypeOK, DiskTypeOK, Inodes
    <3> QED BY <3>1 DEF Stay, Inodes
  <2>3. \A k \in DOMAIN content'[j] : k \in Nat \ {0}
    BY <2>1, <2>2, LenProperties, ElementOfSeq DEF TypeInv, TypeOK, DiskTypeOK
  <2> QED BY <2>3, StaySizes, PositionTypes DEF Followed
\* The cells that were before the offset.
<1>2. ASSUME NEW k \in DOMAIN content'[j], k <= offset[p], content'[j][k].part # "tail",
             NEW l, l = content'[j][k].line
      PROVE  Held(p, l)'
  <2>1. k \in DOMAIN content[j] /\ content'[j][k] = content[j][k]
    BY <1>1, <1>2 DEF Stay
  <2>2. Held(p, l)
    BY <1>2, <2>1 DEF Reaped
  <2> QED BY <2>2, StoredKept DEF Followed
<1>3. CASE offset'[p] <= offset[p] /\ offset'[p] \in Nat
  <2>1. \A k \in DOMAIN content'[j] : k <= offset'[p] => k <= offset[p]
    BY <1>1, <1>3
  <2>2. ASSUME NEW k \in DOMAIN content'[j], k <= offset'[p], content'[j][k].part # "tail",
               NEW l, l = content'[j][k].line
        PROVE  Held(p, l)'
    BY <1>2, <2>1, <2>2
  <2> QED BY <2>2 DEF Reaped, Held, Stored
<1>4. CASE ReadLine /\ file = p
  <2> DEFINE o == offset[p]
             parsed == [gen |-> gen[file], off |-> offset[file],
                        size |-> LineSize(fd, offset[file]),
                        line |-> content[fd][offset[file] + 1].line]
  <2>1. /\ fd = j /\ o \in Nat /\ todo' = todo /\ file' = file /\ content' = content
        /\ HasLine(j, o)
    BY <1>1, <1>4 DEF Followed, At, ReadLine, file, diskVars
  <2>2. offset'[p] = o + LineSize(j, o)
    BY <1>1, <1>4, <2>1 DEF ReadLine
  <2>3. ASSUME content[j][o + 1].part # "tail", NEW l, l = content[j][o + 1].line
        PROVE  Held(p, l)'
    <3>1. batch' = Append(batch, parsed)
      BY <1>4, <2>1, <2>3 DEF ReadLine, IsObject
    <3>2. parsed.line = l
      BY <1>4, <2>1, <2>3
    <3> HIDE DEF parsed
    <3>3. batch \in Seq(Parsed \cup {parsed}) /\ parsed \in Parsed \cup {parsed}
      BY DEF TypeInv, TypeOK, LocalTypeOK
    <3>4. Len(batch) + 1 \in DOMAIN batch' /\ batch'[Len(batch) + 1] = parsed
      BY <3>1, <3>3, AppendProperties, LenProperties
    <3>5. \E n \in DOMAIN batch' : batch'[n].line = l
      BY <3>2, <3>4
    <3> QED BY <1>4, <2>1, <3>5 DEF Held
  <2>4. ASSUME NEW k \in DOMAIN content[j], k <= o + LineSize(j, o), ~(k <= o),
               content[j][k].part # "tail"
        PROVE  k = o + 1
    <3> SUFFICES ASSUME k # o + 1 PROVE FALSE
      OBVIOUS
    <3>1. LineSize(j, o) = 2 /\ k = (o + 1) + 1
      BY <1>1, <2>1, <2>4 DEF LineSize
    <3>2. content[j][o + 1].part = "head"
      BY <3>1 DEF LineSize
    <3>3. o + 1 \in DOMAIN content[j] /\ (o + 1) + 1 \in DOMAIN content[j]
      BY <1>1, <2>1, <2>4, <3>1
    <3>4. j \in DOMAIN content
      BY DEF Stay, Old
    <3>5. content[j][(o + 1) + 1] = [content[j][o + 1] EXCEPT !.part = "tail"]
      BY <3>2, <3>3, <3>4 DEF LinesInv, WholeLines
    <3>6. content[j][o + 1] \in Cell
      BY <3>3, <3>4, ContentTypes DEF TypeInv, TypeOK
    <3> QED BY <2>4, <3>1, <3>5, <3>6 DEF Cell
  <2> SUFFICES ASSUME NEW k \in DOMAIN content'[j], k <= offset'[p], content'[j][k].part # "tail",
                      NEW l, l = content'[j][k].line
               PROVE  Held(p, l)'
    BY DEF Reaped, Held, Stored
  <2>5. CASE k <= o
    BY <1>2, <2>5
  <2>6. CASE ~(k <= o)
    <3>1. k = o + 1
      BY <2>1, <2>2, <2>4, <2>6
    <3> QED BY <2>1, <2>3, <3>1
  <2> QED BY <2>5, <2>6
<1>5. offset'[p] \in Nat /\ (offset'[p] <= offset[p] \/ (ReadLine /\ file = p))
  <2>1. CASE ReadLine
    <3>1. CASE p # file
      BY <1>1, <2>1, <3>1 DEF ReadLine
    <3>2. CASE p = file
      <4>1. offset'[p] \in Nat
        BY NextTypes, PositionTypes DEF TypeInv, TypeOK, TableTypeOK
      <4> QED BY <2>1, <3>2, <4>1
    <3> QED BY <3>1, <3>2
  <2>2. ASSUME NEW q \in Paths, NEW i, NewGeneration(q, i)
        PROVE  offset'[p] \in Nat /\ offset'[p] <= offset[p]
    BY <1>1, <2>2 DEF NewGeneration
  <2>3. CASE offset' = offset
    BY <1>1, <2>3
  <2>4. CASE Consider \/ CheckRotation \/ CheckTruncation
    <3>1. file \in Paths
      BY <2>4, PositionTypes DEF Consider, CheckRotation, CheckTruncation, TypeInv, ControlOK, Busy
    <3> QED BY <2>2, <2>3, <2>4, <3>1 DEF Consider, CheckRotation, CheckTruncation, file
  <2>5. CASE ~(ReadLine \/ Consider \/ CheckRotation \/ CheckTruncation)
    <3>1. offset' = offset
      BY <2>5 DEF Next, Environment, Start, Goroutine, Discovery, Polling, SelectStop,
       SelectDiscover, SelectPoll, DiscoverStat, DiscoverDone, PollStop, PollSkip, PollStat,
       Drop, Open, Flush, ReadEOF, MarkDone, PollDone,
       Close, CloseBegin, CloseEnd, HydrateCheck, HydrateRead, vars, tableVars
    <3> QED BY <2>3, <3>1
  <2> QED BY <2>1, <2>4, <2>5
<1> QED BY <1>3, <1>4, <1>5

LEMMA TodoTail ==
  ASSUME TypeInv, NEW p \in Paths, todo # <<>>, todo' = Tail(todo), InTodo(p), p # file
  PROVE  InTodo(p)'
<1>1. PICK n \in DOMAIN todo : todo[n] = p
  BY DEF InTodo
<1>2. todo \in Seq(Paths)
  BY DEF TypeInv, TypeOK, LocalTypeOK
<1>3. /\ Len(todo) \in Nat /\ DOMAIN todo = 1..Len(todo) /\ file = todo[1]
      /\ DOMAIN todo' = 1..(Len(todo) - 1)
      /\ \A m \in 1..(Len(todo) - 1) : todo'[m] = todo[m + 1]
  BY <1>2, HeadTailProperties, LenProperties DEF file
<1>4. n - 1 \in 1..(Len(todo) - 1) /\ (n - 1) + 1 = n
  BY <1>1, <1>3
<1> QED BY <1>1, <1>3, <1>4 DEF InTodo

LEMMA UnderwayStep ==
  ASSUME TypeInv, LinesInv, NEW p \in Paths, NEW j, Stay(p, j), Followed(p, j), Reaped(p, j),
         Underway(p, j), [Next]_vars
  PROVE  Underway(p, j)'
<1> SUFFICES ASSUME ~stopped'
             PROVE  /\ done'[p] \/ At(p, {"mark"})' => AllStored(p, j)'
                    /\ pc' \in {"discover", "consider"} => IsKnown(p)' \/ InTodo(p)'
                    /\ pc' \in Pass \cup {"select"} => IsKnown(p)'
                    /\ pc' \in Pass /\ loading' => done'[p] \/ InTodo(p)'
                    /\ ~loading' => done'[p]
  BY DEF Underway, AllStored, Stored, At
<1>1. ~stopped
  BY DEF Next, Environment, Start, Goroutine, Discovery, Polling, SelectStop,
       SelectDiscover, SelectPoll, DiscoverStat, Consider, DiscoverDone, PollStop, PollSkip,
       PollStat, CheckRotation, CheckTruncation, Drop, Open, ReadLine, Flush, ReadEOF, MarkDone,
       PollDone, Close, CloseBegin, CloseEnd, HydrateCheck, HydrateRead, vars, lifeVars
<1>2. /\ done[p] \/ At(p, {"mark"}) => AllStored(p, j)
      /\ pc \in {"discover", "consider"} => IsKnown(p) \/ InTodo(p)
      /\ pc \in Pass \cup {"select"} => IsKnown(p)
      /\ pc \in Pass /\ loading => done[p] \/ InTodo(p)
      /\ ~loading => done[p]
  BY <1>1 DEF Underway
<1>3. AllStored(p, j) => AllStored(p, j)'
  BY StoredKept DEF AllStored, Followed
<1>4. IsKnown(p) => IsKnown(p)'
  BY KnownKept
<1>5. /\ pc \in Busy => todo # <<>>
      /\ todo # <<>> => file \in Paths
      /\ done \in [Paths -> BOOLEAN]
      /\ pc \notin {"read", "flush"} => batch = <<>>
  BY PositionTypes DEF TypeInv, TypeOK, TableTypeOK, ControlOK
<1>6. /\ ~gone[p] /\ ~unreadable[p] /\ ~At(p, {"drop"}) /\ entry[p] = j /\ j # NoFile /\ j \in recent
  BY DEF Followed, Stay
<1> USE DEF Pass
<1>7. CASE Environment \/ (\E c \in Closers : Close(c)) \/ HydrateCheck \/ HydrateRead \/ UNCHANGED vars
  <2>1. UNCHANGED <<tableVars, localVars>>
    BY <1>7 DEF Environment, Close, CloseBegin, CloseEnd, HydrateCheck, HydrateRead, vars
  <2>2. UNCHANGED <<pc, todo, done, loading>>
    BY <2>1 DEF tableVars, localVars
  <2> QED BY <1>2, <1>3, <1>4, <2>2 DEF At, InTodo, file
<1>8. CASE Start \/ SelectDiscover
  <2>1. UNCHANGED <<done, loading>> /\ pc' = "discover" /\ todo' = PathOrder
    BY <1>8 DEF Start, SelectDiscover, tableVars
  <2>2. InTodo(p)'
    BY <2>1, TailerAssumption DEF InTodo
  <2> QED BY <1>2, <1>3, <2>1, <2>2 DEF At
<1>9. CASE SelectPoll \/ DiscoverDone
  <2>1. UNCHANGED <<done, loading, known>> /\ pc' = "poll" /\ todo' = known
    BY <1>9 DEF SelectPoll, DiscoverDone, tableVars
  <2>2. IsKnown(p)
    <3>1. CASE SelectPoll
      BY <1>2, <3>1 DEF SelectPoll
    <3>2. CASE DiscoverDone
      <4>1. pc = "discover" /\ ~InTodo(p)
        BY <3>2 DEF DiscoverDone, InTodo
      <4> QED BY <1>2, <4>1
    <3> QED BY <1>9, <3>1, <3>2
  <2>3. InTodo(p)'
    BY <2>1, <2>2 DEF InTodo, IsKnown
  <2> QED BY <1>2, <1>3, <1>4, <2>1, <2>2, <2>3 DEF At
<1>10. CASE SelectStop \/ PollStop
  BY <1>1, <1>10 DEF SelectStop, PollStop
<1>11. CASE DiscoverStat
  <2>1. UNCHANGED <<done, loading, known>> /\ pc = "discover" /\ todo # <<>>
    BY <1>11 DEF DiscoverStat, tableVars
  <2>2. CASE todo' = Tail(todo) /\ pc' = "discover" /\ p # file
    <3>1. InTodo(p) => InTodo(p)'
      BY <2>1, <2>2, TodoTail
    <3> QED BY <1>2, <1>3, <1>4, <2>1, <2>2, <3>1 DEF At
  <2>3. CASE todo' = todo /\ pc' = "consider"
    BY <1>2, <1>3, <1>4, <2>1, <2>3 DEF At, InTodo
  <2> QED BY <1>6, <1>11, <2>2, <2>3 DEF DiscoverStat, StatOf, file
<1>12. CASE Consider
  <2>1. /\ UNCHANGED <<done, loading>> /\ pc = "consider" /\ pc' = "discover"
        /\ todo # <<>> /\ todo' = Tail(todo)
    BY <1>5, <1>12 DEF Consider, Busy
  <2>2. IsKnown(p)' \/ InTodo(p)'
    <3>1. CASE p = file
      <4>1. CASE IsKnown(p)
        BY <1>4, <4>1
      <4>2. CASE ~IsKnown(p)
        <5>1. known' = Append(known, file)
          BY <1>12, <3>1, <4>2 DEF Consider, file
        <5>2. known \in Seq(Paths) /\ file \in Paths
          BY <1>5, <2>1 DEF TypeInv, TypeOK, TableTypeOK
        <5>3. Len(known) + 1 \in DOMAIN known' /\ known'[Len(known) + 1] = file
          BY <5>1, <5>2, AppendProperties, LenProperties
        <5> QED BY <3>1, <5>3 DEF IsKnown
      <4> QED BY <4>1, <4>2
    <3>2. CASE p # file
      BY <1>2, <1>4, <2>1, <3>2, TodoTail
    <3> QED BY <3>1, <3>2
  <2> QED BY <1>2, <1>3, <2>1, <2>2 DEF At
<1>13. CASE PollSkip
  <2>1. /\ UNCHANGED <<done, loading, pc>> /\ pc = "poll" /\ todo # <<>> /\ todo' = Tail(todo)
        /\ p # file
    BY <1>6, <1>13 DEF PollSkip, tableVars
  <2>2. InTodo(p) => InTodo(p)'
    BY <2>1, TodoTail
  <2> QED BY <1>2, <1>3, <1>4, <2>1, <2>2 DEF At
<1>14. CASE PollStat
  <2>1. UNCHANGED <<done, loading>> /\ pc = "poll" /\ todo # <<>>
    BY <1>14 DEF PollStat
  <2>2. CASE entry[file] = NoFile
    <3>1. pc' = "poll" /\ todo' = Tail(todo) /\ p # file
      BY <1>6, <1>14, <2>1, <2>2 DEF PollStat
    <3>2. InTodo(p) => InTodo(p)'
      BY <2>1, <3>1, TodoTail
    <3> QED BY <1>2, <1>3, <1>4, <2>1, <3>1, <3>2 DEF At
  <2>3. CASE entry[file] # NoFile
    <3>1. pc' = "rotation" /\ todo' = todo
      BY <1>14, <2>3 DEF PollStat
    <3> QED BY <1>2, <1>3, <1>4, <2>1, <3>1 DEF At, InTodo
  <2> QED BY <2>2, <2>3
<1>15. CASE CheckRotation \/ Drop \/ Open \/ ReadLine \/ Flush
  <2>1. /\ UNCHANGED <<done, loading, todo>> /\ pc \in Pass /\ pc' \in Pass
        /\ pc' = "mark" => p # file
    <3>1. CASE CheckRotation \/ ReadLine
      BY <3>1 DEF CheckRotation, ReadLine
    <3>2. CASE Drop
      BY <1>6, <3>2 DEF Drop, ReadOrMark, tableVars, At
    <3>3. CASE Open
      BY <1>6, <3>3 DEF Open
    <3>4. CASE Flush
      BY <1>1, <3>4 DEF Flush, tableVars
    <3> QED BY <1>15, <3>1, <3>2, <3>3, <3>4
  <2> QED BY <1>2, <1>3, <1>4, <2>1 DEF At, InTodo, file
<1>16. CASE CheckTruncation
  <2>1. /\ UNCHANGED <<done, loading, todo>> /\ pc = "truncation" /\ pc' \in {"drop", "open", "mark"}
    BY <1>16 DEF CheckTruncation, ReadOrMark
  <2>2. At(p, {"mark"})' => AllStored(p, j)
    <3> SUFFICES ASSUME pc' = "mark", p = file PROVE AllStored(p, j)
      BY <2>1 DEF At, file
    <3>1. offset[p] <= fi.size /\ Len(StartContent[j]) <= fi.size
      BY <2>1 DEF Followed, At
    <3>2. fi.size \in Nat /\ offset[p] \in Nat /\ offset' \in [Paths -> Nat]
      BY NextTypes, PositionTypes DEF TypeInv, TypeOK, LocalTypeOK, TableTypeOK
    <3>3. offset' = offset /\ ~(fi.size > offset[p])
      BY <1>16, <3>1, <3>2 DEF CheckTruncation, ReadOrMark
    <3>4. offset[p] >= Len(StartContent[j])
      BY <3>1, <3>2, <3>3
    <3> QED BY <1>5, <2>1, <3>4, ReapedAll DEF Stay
  <2> QED BY <1>2, <1>3, <1>4, <2>1, <2>2 DEF InTodo
<1>17. CASE ReadEOF
  <2>1. UNCHANGED <<done, loading, todo>> /\ pc = "read" /\ pc' = "mark" /\ batch' = <<>>
    BY <1>17 DEF ReadEOF, tableVars, AppendBatch
  <2>2. At(p, {"mark"})' => AllStored(p, j)'
    <3> SUFFICES ASSUME p = file, NEW k \in DOMAIN StartContent[j], StartContent[j][k].part # "head"
                 PROVE  Stored(p, StartContent[j][k].line)'
      BY <2>1 DEF At, file, AllStored
    <3>1. fd = j /\ ~HasLine(j, offset[p])
      BY <1>17, <2>1 DEF Followed, At, ReadEOF
    <3>2. Held(p, StartContent[j][k].line)
      BY <3>1, ReapedEOF DEF Stay
    <3>3. Held(p, StartContent[j][k].line)'
      BY <3>2, StoredKept DEF Followed
    <3> QED BY <2>1, <3>3 DEF Held
  <2> QED BY <1>2, <1>3, <1>4, <2>1, <2>2 DEF InTodo
<1>18. CASE MarkDone
  <2>1. /\ UNCHANGED loading /\ pc = "mark" /\ pc' = "poll" /\ todo # <<>> /\ todo' = Tail(todo)
        /\ done' = [done EXCEPT ![file] = TRUE]
    BY <1>5, <1>18 DEF MarkDone, Busy
  <2>2. CASE p = file
    <3>1. AllStored(p, j) /\ done'[p]
      BY <1>2, <1>5, <2>1, <2>2 DEF At
    <3> QED BY <1>2, <1>3, <1>4, <2>1, <3>1
  <2>3. CASE p # file
    <3>1. done'[p] = done[p] /\ (InTodo(p) => InTodo(p)')
      BY <1>5, <2>1, <2>3, TodoTail
    <3> QED BY <1>2, <1>3, <1>4, <2>1, <3>1 DEF At
  <2> QED BY <2>2, <2>3
<1>19. CASE PollDone
  <2>1. done' = done /\ pc = "poll" /\ pc' = "select" /\ ~loading' /\ ~InTodo(p)
    BY <1>19 DEF PollDone, InTodo
  <2> QED BY <1>2, <1>3, <1>4, <2>1 DEF At
<1> QED BY <1>7, <1>8, <1>9, <1>10, <1>11, <1>12, <1>13, <1>14, <1>15, <1>16, <1>17, <1>18, <1>19
        DEF Next, Goroutine, Discovery, Polling

LEMMA NextBackfill ==
  ASSUME TypeInv, LinesInv, TracksInv, StartDiskInv, BackfillInv, [Next]_vars
  PROVE  BackfillInv'
<1> SUFFICES ASSUME NEW p \in Paths, NEW j, j = StartEntry[p], Kept(p)'
             PROVE  Followed(p, j)' /\ Reaped(p, j)' /\ Underway(p, j)'
  BY DEF BackfillInv
<1>1. /\ Kept(p)
      /\ \A k \in DOMAIN content[j] : k \in DOMAIN content'[j] /\ content'[j][k] = content[j][k]
  BY StartDiskKept
<1>2. entry'[p] = j
  BY DEF Kept
<1>3. Stay(p, j)
  BY <1>1, <1>2 DEF Stay, Kept, Old, StartDiskInv
<1>4. Followed(p, j) /\ Reaped(p, j) /\ Underway(p, j)
  BY <1>1 DEF BackfillInv
<1> QED BY <1>3, <1>4, FollowedStep, ReapedStep, UnderwayStep DEF TracksInv

LEMMA InitBackfill == Init => StartDiskInv /\ BackfillInv
<1> SUFFICES ASSUME Init PROVE StartDiskInv /\ BackfillInv
  OBVIOUS
<1>1. content = StartContent /\ written = StartMax /\ entry = StartEntry
      /\ recent = (DOMAIN StartContent) \ StartOld
  BY DEF Init, StartMax
<1>2. ASSUME NEW i \in DOMAIN content PROVE Old(i) \/ Renewed(i)
  <2>1. CASE StartContent[i] = <<>>
    BY <1>1, <2>1 DEF Renewed
  <2>2. CASE StartContent[i] # <<>>
    BY <1>1, <2>2 DEF Old
  <2> QED BY <2>1, <2>2
<1>3. StartDiskInv
  BY <1>1, <1>2, StartFacts DEF StartDiskInv
<1>4. ASSUME NEW p \in Paths, Kept(p)
      PROVE  /\ Followed(p, StartEntry[p]) /\ Reaped(p, StartEntry[p])
             /\ Underway(p, StartEntry[p])
  <2> DEFINE j == StartEntry[p]
  <2>1. /\ j \in DOMAIN StartContent
        /\ Len(content[j]) \in Nat /\ DOMAIN content[j] = 1..Len(content[j])
    BY <1>1, <1>4, StartFacts DEF Kept, Old
  <2>2. ~IsKnown(p) /\ offset[p] = 0 /\ pc = "new" /\ ~gone[p] /\ ~unreadable[p] /\ ~done[p] /\ loading
    BY DEF Init, IsKnown
  <2>3. Followed(p, j)
    BY <2>1, <2>2 DEF Followed, At
  <2>4. Reaped(p, j)
    BY <2>1, <2>2 DEF Reaped
  <2>5. Underway(p, j)
    BY <2>2 DEF Underway, At, Pass
  <2> QED BY <2>3, <2>4, <2>5
<1> QED BY <1>3, <1>4 DEF BackfillInv

\* Every cell belongs to a line that begins in the same file.
LEMMA Beginning ==
  ASSUME NEW cells \in Seq(Cell), WholeLines(cells), NEW k \in DOMAIN cells
  PROVE  \E b \in DOMAIN cells : cells[b].line = cells[k].line /\ cells[b].part # "tail"
<1>1. cells[k] \in Cell
  BY LenProperties, ElementOfSeq
<1>2. CASE cells[k].part = "tail"
  <2>1. k - 1 \in DOMAIN cells /\ cells[k - 1] = [cells[k] EXCEPT !.part = "head"]
    BY <1>2 DEF WholeLines
  <2>2. cells[k - 1].line = cells[k].line /\ cells[k - 1].part = "head"
    BY <1>1, <2>1 DEF Cell
  <2> QED BY <2>1, <2>2
<1> QED BY <1>2

LEMMA BackfillStored ==
  ASSUME TypeInv, LinesInv, StartDiskInv, BackfillInv
  PROVE  BackfillComplete
<1> SUFFICES ASSUME ~loading, ~stopped, NEW l \in BackfillLines, l \in LinesOnDisk
             PROVE  l \in StoredLines
  BY DEF BackfillComplete
\* The line where it was at the start, and where it is now.
<1>1. PICK p \in Paths :
        StartEntry[p] \notin StartOld \cup {NoFile} /\ l \in CompleteIn(StartContent[StartEntry[p]])
  BY DEF BackfillLines
<1>2. PICK q \in Paths : entry[q] # NoFile /\ l \in CompleteIn(content[entry[q]])
  BY DEF LinesOnDisk
<1>3. PICK i : i = StartEntry[p]
  OBVIOUS
<1>4. PICK j : j = entry[q]
  OBVIOUS
<1>5. i \in DOMAIN StartContent /\ j \in DOMAIN content
  BY <1>1, <1>2, <1>3, <1>4, TailerAssumption DEF TypeInv, TypeOK, DiskTypeOK, Inodes
<1>6. PICK m \in DOMAIN StartContent[i] :
        StartContent[i][m].part # "head" /\ StartContent[i][m].line = l
  BY <1>1, <1>3 DEF CompleteIn
<1>7. PICK n \in DOMAIN content[j] : content[j][n].line = l
  BY <1>2, <1>4 DEF CompleteIn
<1>8. PICK b \in DOMAIN StartContent[i] :
        StartContent[i][b].line = l /\ StartContent[i][b].part # "tail"
  BY <1>5, <1>6, Beginning, StartFacts, StartAssumption
<1>9. PICK c \in DOMAIN content[j] : content[j][c].line = l /\ content[j][c].part # "tail"
  <2>1. content[j] \in Seq(Cell) /\ WholeLines(content[j])
    BY <1>5, ContentTypes DEF TypeInv, TypeOK, LinesInv
  <2> QED BY <1>7, <2>1, Beginning
<1>10. l \in Nat /\ ~(l > StartMax)
  <2>1. StartContent[i][m] \in Cell /\ StartContent[i][m].line <= StartMax
    BY <1>5, <1>6, StartFacts
  <2>2. l \in Nat
    BY <1>6, <2>1 DEF Cell, Lines
  <2> QED BY <1>6, <2>1, <2>2, StartFacts
<1>11. Old(j)
  BY <1>5, <1>9, <1>10 DEF StartDiskInv, Renewed
<1>12. c \in DOMAIN StartContent[j] /\ StartContent[j][c] = content[j][c] /\ j \in DOMAIN StartContent
  BY <1>9, <1>10, <1>11 DEF Old
<1>13. i = j
  BY <1>5, <1>8, <1>9, <1>12, StartAssumption
<1>14. j = StartEntry[q]
  <2>1. j \in Nat /\ ~(j > Len(StartContent))
    BY <1>12, StartFacts
  <2> QED BY <1>2, <1>4, <2>1 DEF StartDiskInv
<1>15. Kept(q)
  BY <1>1, <1>3, <1>4, <1>11, <1>13, <1>14 DEF Kept
<1>16. AllStored(q, i)
  BY <1>13, <1>14, <1>15 DEF BackfillInv, Underway
<1>17. Stored(q, l)
  BY <1>6, <1>16 DEF AllStored
<1> QED BY <1>17 DEF Stored, StoredLines

\* BackfillComplete: once loading is over, every line that was there at the
\* start and is there still has been ingested (pollOnce, progress, stream).
THEOREM TailerBackfillComplete == Spec => []BackfillComplete
<1>1. TypeInv /\ LinesInv /\ TracksInv /\ StartDiskInv /\ BackfillInv /\ [Next]_vars
        => StartDiskInv' /\ BackfillInv'
  BY StartDiskKept, NextBackfill
<1>2. TypeInv /\ LinesInv /\ StartDiskInv /\ BackfillInv => BackfillComplete
  BY BackfillStored
<1> QED BY <1>1, <1>2, InitBackfill, Tracking, PTL DEF Spec

==============================================================================
