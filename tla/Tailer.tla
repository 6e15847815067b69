------------------------------- MODULE Tailer -------------------------------
(***************************************************************************)
(* The tailer of a file source (internal/source/tail.go): one goroutine    *)
(* that discovers files, follows them by polling and appends their lines   *)
(* to the store, against a disk that other programs change at any moment,  *)
(* a caller that closes it, and readers that hydrate events.               *)
(*                                                                         *)
(* A file's bytes are a sequence of cells.  A short line is one cell; a    *)
(* long one is a "head" and a "tail", so that a file can end in a partial  *)
(* line, and an offset can fall into the middle of a line that was not     *)
(* there when the offset was taken.  Every line written is a different     *)
(* one, numbered from 1: two events with the same number are the same      *)
(* line ingested twice.                                                    *)
(***************************************************************************)
EXTENDS Naturals, Sequences, FiniteSets

CONSTANTS
  Paths,         \* the paths the configured entries expand to
  PathOrder,     \* the order discoverOnce meets them in
  NoFile,        \* what a path names when nothing is there
  HasFileID,     \* fileID works on this platform (tail_unix.go, tail_other.go)
  BatchMax,      \* batchMax: events that force a flush
  Closers,       \* callers of close
  StartContent,  \* the cells of the inodes there are at the start
  StartEntry,    \* the inode each path names at the start, or NoFile
  StartOld,      \* inodes last touched before the backfill window
  EnvOps,        \* what other programs do: see Environment
  LineKinds,     \* kinds of lines they write: subset of {"short", "long"}
  MaxLines,      \* bound: lines ever written
  MaxOps,        \* bound: renames, removals and truncations
  MaxHydrates    \* bound: calls of hydrate

Lines == 1..MaxLines
Cell  == [line : Lines, part : {"short", "head", "tail"}]

\* Numbers of the lines there are at the start.
StartLines ==
  UNION {{StartContent[i][n].line : n \in DOMAIN StartContent[i]} : i \in DOMAIN StartContent}

\* A file is made of whole lines, the last of which may still be written.
WholeLines(cells) ==
  \A k \in DOMAIN cells :
    /\ cells[k].part = "tail" =>
         k - 1 \in DOMAIN cells /\ cells[k - 1] = [cells[k] EXCEPT !.part = "head"]
    /\ cells[k].part = "head" /\ k + 1 \in DOMAIN cells =>
         cells[k + 1] = [cells[k] EXCEPT !.part = "tail"]

\* The lines there are at the start are different ones, too.
ASSUME StartAssumption ==
  /\ \A i \in DOMAIN StartContent : WholeLines(StartContent[i])
  /\ \A i, j \in DOMAIN StartContent :
       \A k \in DOMAIN StartContent[i], m \in DOMAIN StartContent[j] :
         /\ StartContent[i][k].line = StartContent[j][m].line
         /\ StartContent[i][k].part # "tail" /\ StartContent[j][m].part # "tail"
         => i = j /\ k = m

ASSUME TailerAssumption ==
  /\ PathOrder \in Seq(Paths)
  /\ \A p \in Paths : \E n \in DOMAIN PathOrder : PathOrder[n] = p
  /\ NoFile \notin Nat
  /\ HasFileID \in BOOLEAN
  /\ BatchMax \in Nat \ {0}
  /\ StartContent \in Seq(Seq(Cell))
  /\ StartEntry \in [Paths -> (DOMAIN StartContent) \cup {NoFile}]
  /\ StartOld \subseteq DOMAIN StartContent
  /\ \E k \in 0..MaxLines : StartLines = 1..k
  /\ MaxLines \in Nat
  /\ MaxOps \in Nat
  /\ MaxHydrates \in Nat

VARIABLES
  \* The disk.
  entry,      \* entry[p]: the inode path p names, or NoFile
  content,    \* content[i]: cells of inode i
  recent,     \* inodes whose modification time is inside the backfill window
  written,    \* lines ever written
  ops,        \* environment operations done
  \* The tailer's file table.
  known,      \* paths registered, in registration order
  gen, ino, offset, gone, unreadable, done,
  loading,
  \* The tailer goroutine.
  pc, todo, fi, fd, batch,
  \* Its life cycle.
  started, stopped, closer,
  \* The store, seen as the set of events in it, and all it ever held.
  store, nextSeq, ingested,
  \* handled[p]: generations of the lines the handler's state of p is made of.
  handled,
  \* One call of hydrate: where it is, its ref, and what it returned.
  hydrate, hydrates

diskVars  == <<entry, content, recent, written, ops>>
tableVars == <<known, gen, ino, offset, gone, unreadable, done, loading>>
localVars == <<pc, todo, fi, fd, batch>>
lifeVars  == <<started, stopped, closer>>
storeVars == <<store, nextSeq, ingested>>
histVars  == <<handled>>
hydraVars == <<hydrate, hydrates>>
vars == <<diskVars, tableVars, localVars, lifeVars, storeVars, histVars, hydraVars>>

------------------------------------------------------------------------------
(***************************************************************************)
(* Data.                                                                   *)
(***************************************************************************)
Inodes == DOMAIN content

\* An event: where its line was found (the eventRef) and what the line was.
Event == [seq : Nat, file : Paths, gen : Nat, off : Nat, size : {1, 2}, line : Lines]

\* Before it is appended, an event has no sequence number.
Parsed == [gen : Nat, off : Nat, size : {1, 2}, line : Lines]

\* A complete line starts in inode i right after off cells: up to the next
\* newline, which a "head" does not have.
HasLine(i, off) ==
  \E n \in 1..2 : /\ off + n <= Len(content[i])
                  /\ content[i][off + n].part # "head"

LineSize(i, off) == IF content[i][off + 1].part = "head" THEN 2 ELSE 1

\* The rest of a line that is cut in front is not a JSON object.
IsObject(i, off) == content[i][off + 1].part # "tail"

\* A call of hydrate: not begun; past the comparison of generations; ended
\* with a note; ended with the line it read.  "at" is history: the inode the
\* path named at the comparison, and the one the table took it for.
Hydration ==
  [pc : {"idle"}] \cup [pc : {"checked"}, of : Event, at : (Nat \cup {NoFile}) \X Nat]
                 \cup [pc : {"noted"}, of : Event]
                 \cup [pc : {"read"}, of : Event, line : Lines]

DiskTypeOK ==
  /\ entry \in [Paths -> Inodes \cup {NoFile}]
  /\ content \in Seq(Seq(Cell))
  /\ recent \subseteq Inodes
  /\ written \in 0..MaxLines
  /\ ops \in 0..MaxOps

TableTypeOK ==
  /\ known \in Seq(Paths)
  /\ gen \in [Paths -> Nat]
  /\ ino \in [Paths -> Nat]
  /\ offset \in [Paths -> Nat]
  /\ gone \in [Paths -> BOOLEAN]
  /\ unreadable \in [Paths -> BOOLEAN]
  /\ done \in [Paths -> BOOLEAN]
  /\ loading \in BOOLEAN

LocalTypeOK ==
  /\ pc \in {"new", "discover", "consider", "poll", "rotation", "truncation", "drop",
             "open", "read", "flush", "mark", "select", "exited"}
  /\ todo \in Seq(Paths)
  /\ fi \in [ino : Nat, size : Nat, recent : BOOLEAN]
  /\ fd \in Nat
  /\ batch \in Seq(Parsed)

LifeTypeOK ==
  /\ started \in BOOLEAN
  /\ stopped \in BOOLEAN
  /\ closer \in [Closers -> {"idle", "waiting", "returned"}]

StoreTypeOK ==
  /\ store \subseteq ingested
  /\ ingested \subseteq Event
  /\ nextSeq \in Nat

HistTypeOK == handled \in [Paths -> SUBSET Nat]

HydraTypeOK ==
  /\ hydrate \in Hydration
  /\ hydrates \in 0..MaxHydrates

TypeOK ==
  /\ DiskTypeOK /\ TableTypeOK /\ LocalTypeOK /\ LifeTypeOK
  /\ StoreTypeOK /\ HistTypeOK /\ HydraTypeOK

Init ==
  /\ entry = StartEntry
  /\ content = StartContent
  /\ recent = (DOMAIN StartContent) \ StartOld
  /\ written = Cardinality(StartLines)
  /\ ops = 0
  /\ known = <<>>
  /\ gen = [p \in Paths |-> 0]
  /\ ino = [p \in Paths |-> 0]
  /\ offset = [p \in Paths |-> 0]
  /\ gone = [p \in Paths |-> FALSE]
  /\ unreadable = [p \in Paths |-> FALSE]
  /\ done = [p \in Paths |-> FALSE]
  /\ loading = TRUE
  /\ pc = "new"
  /\ todo = <<>>
  /\ fi = [ino |-> 0, size |-> 0, recent |-> FALSE]
  /\ fd = 0
  /\ batch = <<>>
  /\ started = FALSE
  /\ stopped = FALSE
  /\ closer = [c \in Closers |-> "idle"]
  /\ store = {}
  /\ nextSeq = 1
  /\ ingested = {}
  /\ handled = [p \in Paths |-> {}]
  /\ hydrate = [pc |-> "idle"]
  /\ hydrates = 0

------------------------------------------------------------------------------
(***************************************************************************)
(* Other programs: writers that append, and log rotation in its variants.  *)
(***************************************************************************)
LastCellIs(i, parts) == content[i] # <<>> /\ content[i][Len(content[i])].part \in parts

WriteCell(i, cell) ==
  /\ content' = [content EXCEPT ![i] = Append(@, cell)]
  /\ recent' = recent \cup {i}
  /\ written' = IF cell.part = "tail" THEN written ELSE written + 1
  /\ UNCHANGED <<entry, ops>>

\* A writer ends the line it has begun, or begins the next one.
AppendTo(i) ==
  \/ /\ LastCellIs(i, {"head"})
     /\ WriteCell(i, [line |-> content[i][Len(content[i])].line, part |-> "tail"])
  \/ /\ ~LastCellIs(i, {"head"})
     /\ written < MaxLines
     /\ \E kind \in LineKinds :
          WriteCell(i, [line |-> written + 1,
                        part |-> IF kind = "long" THEN "head" ELSE "short"])

Operation == ops < MaxOps /\ ops' = ops + 1

\* A new, empty file under path p, whether or not another one was there.
Link(p) ==
  /\ entry' = [entry EXCEPT ![p] = Len(content) + 1]
  /\ content' = Append(content, <<>>)
  /\ recent' = recent \cup {Len(content) + 1}
  /\ UNCHANGED written

Environment ==
  /\ \/ \E p \in Paths : entry[p] # NoFile /\ AppendTo(entry[p])
     \* rename(2) of a new file over the path.
     \/ \E p \in Paths : "replace" \in EnvOps /\ entry[p] # NoFile /\ Operation /\ Link(p)
     \* A file appears where there was none.
     \/ \E p \in Paths : "create" \in EnvOps /\ entry[p] = NoFile /\ Operation /\ Link(p)
     \* The file is removed or renamed away.
     \/ \E p \in Paths :
          /\ "delete" \in EnvOps
          /\ entry[p] # NoFile
          /\ Operation
          /\ entry' = [entry EXCEPT ![p] = NoFile]
          /\ UNCHANGED <<content, recent, written>>
     \* copytruncate, or a program that opens the file with O_TRUNC.
     \/ \E p \in Paths :
          /\ "truncate" \in EnvOps
          /\ entry[p] # NoFile
          /\ content[entry[p]] # <<>>
          /\ Operation
          /\ content' = [content EXCEPT ![entry[p]] = <<>>]
          /\ recent' = recent \cup {entry[p]}
          /\ UNCHANGED <<entry, written>>
  /\ UNCHANGED <<tableVars, localVars, lifeVars, storeVars, histVars, hydraVars>>

------------------------------------------------------------------------------
(***************************************************************************)
(* The life of the goroutine.                                              *)
(***************************************************************************)

\* start: under the life lock, once, and never after close.
Start ==
  /\ ~started
  /\ ~stopped
  /\ started' = TRUE
  /\ pc' = "discover"
  /\ todo' = PathOrder
  /\ UNCHANGED <<stopped, closer, fi, fd, batch, diskVars, tableVars, storeVars, histVars, hydraVars>>

\* Fault: close does not wait for the goroutine.
CloseAtOnce(c) ==
  /\ closer[c] = "idle"
  /\ stopped' = TRUE
  /\ closer' = [closer EXCEPT ![c] = "returned"]
  /\ UNCHANGED <<started, localVars, diskVars, tableVars, storeVars, histVars, hydraVars>>

\* close, first half: under the life lock.  A tailer that was never started
\* has nothing to wait for.
CloseBegin(c) ==
  /\ closer[c] = "idle"
  /\ stopped' = TRUE
  /\ closer' = [closer EXCEPT ![c] = IF started THEN "waiting" ELSE "returned"]
  /\ UNCHANGED <<started, localVars, diskVars, tableVars, storeVars, histVars, hydraVars>>

\* close, second half: the goroutine has returned.
CloseEnd(c) ==
  /\ closer[c] = "waiting"
  /\ pc = "exited"
  /\ closer' = [closer EXCEPT ![c] = "returned"]
  /\ UNCHANGED <<started, stopped, localVars, diskVars, tableVars, storeVars, histVars, hydraVars>>

\* Fault: the stop channel is only looked at once the backfill is over.
SelectStopLoaded ==
  /\ pc = "select"
  /\ stopped
  /\ ~loading
  /\ pc' = "exited"
  /\ UNCHANGED <<todo, fi, fd, batch, lifeVars, diskVars, tableVars, storeVars, histVars, hydraVars>>

\* The select of the loop: every ready case may be the one taken.
SelectStop ==
  /\ pc = "select"
  /\ stopped
  /\ pc' = "exited"
  /\ UNCHANGED <<todo, fi, fd, batch, lifeVars, diskVars, tableVars, storeVars, histVars, hydraVars>>

SelectDiscover ==
  /\ pc = "select"
  /\ pc' = "discover"
  /\ todo' = PathOrder
  /\ UNCHANGED <<fi, fd, batch, lifeVars, diskVars, tableVars, storeVars, histVars, hydraVars>>

\* pollOnce begins with a snapshot of the file table.
SelectPoll ==
  /\ pc = "select"
  /\ pc' = "poll"
  /\ todo' = known
  /\ UNCHANGED <<fi, fd, batch, lifeVars, diskVars, tableVars, storeVars, histVars, hydraVars>>

------------------------------------------------------------------------------
(***************************************************************************)
(* Discovery.  todo holds the paths still to be considered.                *)
(***************************************************************************)
StatOf(p) ==
  [ino |-> entry[p], size |-> Len(content[entry[p]]), recent |-> entry[p] \in recent]

\* os.Stat, or the Info of a directory entry: a path with nothing there, or
\* a file older than the backfill window, is passed over.
DiscoverStat ==
  /\ pc = "discover"
  /\ todo # <<>>
  /\ IF entry[Head(todo)] = NoFile \/ ~StatOf(Head(todo)).recent
       THEN todo' = Tail(todo) /\ UNCHANGED <<pc, fi>>
       ELSE fi' = StatOf(Head(todo)) /\ pc' = "consider" /\ UNCHANGED todo
  /\ UNCHANGED <<fd, batch, lifeVars, diskVars, tableVars, storeVars, histVars, hydraVars>>

IsKnown(p) == \E n \in DOMAIN known : known[n] = p

\* Fault: the offset starts over in the same generation.
SameGeneration(p, i) ==
  /\ offset' = [offset EXCEPT ![p] = 0]
  /\ ino' = [ino EXCEPT ![p] = i]
  /\ UNCHANGED gen

\* f now stands for another file, or for a file begun anew: the offset starts
\* over in a new generation, and the handler forgets the file.
NewGeneration(p, i) ==
  /\ gen' = [gen EXCEPT ![p] = @ + 1]
  /\ offset' = [offset EXCEPT ![p] = 0]
  /\ ino' = [ino EXCEPT ![p] = i]

\* Fault: the handler is not told.
ResetNothing(p) == UNCHANGED handled

Reset(p) == handled' = [handled EXCEPT ![p] = {}]

\* consider: registers the file, or takes up one that had gone, which starts
\* over when it is a different file.
Consider ==
  LET p == Head(todo) IN
  /\ pc = "consider"
  /\ \/ /\ ~IsKnown(p)
        /\ known' = Append(known, p)
        /\ ino' = [ino EXCEPT ![p] = fi.ino]
        /\ UNCHANGED <<gen, offset, gone, handled>>
     \/ /\ IsKnown(p)
        /\ gone[p]
        /\ gone' = [gone EXCEPT ![p] = FALSE]
        /\ IF HasFileID /\ fi.ino # ino[p]
             THEN NewGeneration(p, fi.ino) /\ Reset(p)
             ELSE UNCHANGED <<gen, offset, ino, handled>>
        /\ UNCHANGED known
     \/ /\ IsKnown(p)
        /\ ~gone[p]
        /\ UNCHANGED <<known, gen, offset, ino, gone, handled>>
  /\ pc' = "discover"
  /\ todo' = Tail(todo)
  /\ UNCHANGED <<unreadable, done, loading, fi, fd, batch,
                 lifeVars, diskVars, storeVars, hydraVars>>

\* Polling follows straight after, over a snapshot of the file table.
DiscoverDone ==
  /\ pc = "discover"
  /\ todo = <<>>
  /\ pc' = "poll"
  /\ todo' = known
  /\ UNCHANGED <<fi, fd, batch, lifeVars, diskVars, tableVars, storeVars, histVars, hydraVars>>

------------------------------------------------------------------------------
(***************************************************************************)
(* Polling.  todo holds the files of this pass still to be looked at, the  *)
(* current one first.                                                      *)
(***************************************************************************)
file == Head(todo)

\* close ends the pass between two files; loading keeps its value then.
PollStop ==
  /\ pc = "poll"
  /\ todo # <<>>
  /\ stopped
  /\ pc' = "select"
  /\ todo' = <<>>
  /\ UNCHANGED <<fi, fd, batch, lifeVars, diskVars, tableVars, storeVars, histVars, hydraVars>>

PollSkip ==
  /\ pc = "poll"
  /\ todo # <<>>
  /\ ~stopped
  /\ gone[file] \/ unreadable[file]
  /\ todo' = Tail(todo)
  /\ UNCHANGED <<pc, fi, fd, batch, lifeVars, diskVars, tableVars, storeVars, histVars, hydraVars>>

\* os.Stat: no file any more, or its identity and size at this moment.
PollStat ==
  /\ pc = "poll"
  /\ todo # <<>>
  /\ ~stopped
  /\ ~gone[file]
  /\ ~unreadable[file]
  /\ IF entry[file] = NoFile
       THEN /\ gone' = [gone EXCEPT ![file] = TRUE]
            /\ todo' = Tail(todo)
            /\ UNCHANGED <<pc, fi>>
       ELSE /\ fi' = StatOf(file)
            /\ pc' = "rotation"
            /\ UNCHANGED <<gone, todo>>
  /\ UNCHANGED <<known, gen, ino, offset, unreadable, done, loading, fd, batch,
                 lifeVars, diskVars, storeVars, histVars, hydraVars>>

\* The path names a different file than the one followed so far.
CheckRotation ==
  /\ pc = "rotation"
  /\ IF HasFileID /\ fi.ino # ino[file]
       THEN NewGeneration(file, fi.ino) /\ Reset(file)
       ELSE UNCHANGED <<gen, offset, ino, handled>>
  /\ pc' = "truncation"
  /\ UNCHANGED <<known, gone, unreadable, done, loading, todo, fi, fd, batch,
                 lifeVars, diskVars, storeVars, hydraVars>>

\* Fault: off by one, so that a file only one cell longer is not read.
ReadOrMarkLate == pc' = IF fi.size > offset[file] + 1 THEN "open" ELSE "mark"

\* Read on if there is more than was consumed; else the end was seen already.
ReadOrMark == pc' = IF fi.size > offset[file] THEN "open" ELSE "mark"

\* The file is shorter than what was consumed of it.
CheckTruncation ==
  /\ pc = "truncation"
  /\ IF fi.size < offset[file]
       THEN NewGeneration(file, ino[file]) /\ pc' = "drop"
       ELSE ReadOrMark /\ UNCHANGED <<gen, offset, ino>>
  /\ UNCHANGED <<known, gone, unreadable, done, loading, todo, fi, fd, batch, handled,
                 lifeVars, diskVars, storeVars, hydraVars>>

\* store.dropFile and handler.reset, outside the file table's lock.
Drop ==
  /\ pc = "drop"
  /\ store' = {e \in store : e.file # file}
  /\ Reset(file)
  /\ ReadOrMark
  /\ UNCHANGED <<nextSeq, ingested, todo, fi, fd, batch,
                 tableVars, lifeVars, diskVars, hydraVars>>

\* Fault: the error of os.Open is not looked at.
OpenUnchecked ==
  /\ pc = "open"
  /\ fd' = entry[file]
  /\ pc' = "read"
  /\ UNCHANGED <<todo, fi, batch, lifeVars, diskVars, tableVars, storeVars, histVars, hydraVars>>

\* readFrom opens the path: not necessarily the file that os.Stat saw.
Open ==
  /\ pc = "open"
  /\ IF entry[file] = NoFile
       THEN /\ unreadable' = [unreadable EXCEPT ![file] = TRUE]
            /\ pc' = "mark"
            /\ UNCHANGED fd
       ELSE /\ fd' = entry[file]
            /\ pc' = "read"
            /\ UNCHANGED unreadable
  /\ UNCHANGED <<known, gen, ino, offset, gone, done, loading, todo, fi, batch,
                 lifeVars, diskVars, storeVars, histVars, hydraVars>>

\* One turn of readFrom's loop over a complete line.  The age of the batch
\* may ask for a flush at any line, its length does at batchMax.
ReadLine ==
  /\ pc = "read"
  /\ HasLine(fd, offset[file])
  /\ LET size   == LineSize(fd, offset[file])
         parsed == [gen |-> gen[file], off |-> offset[file], size |-> size,
                    line |-> content[fd][offset[file] + 1].line]
     IN  /\ offset' = [offset EXCEPT ![file] = @ + size]
         /\ IF IsObject(fd, offset[file])
              THEN /\ batch' = Append(batch, parsed)
                   /\ handled' = [handled EXCEPT ![file] = @ \cup {gen[file]}]
              ELSE UNCHANGED <<batch, handled>>
  /\ pc' \in IF Len(batch') >= BatchMax THEN {"flush"} ELSE {"read", "flush"}
  /\ UNCHANGED <<known, gen, ino, gone, unreadable, done, loading, todo, fi, fd,
                 lifeVars, diskVars, storeVars, hydraVars>>

\* Fault: the batch goes in newest first.
AppendReversed ==
  LET new == {[seq |-> nextSeq + Len(batch) - n, file |-> file, gen |-> batch[n].gen,
               off |-> batch[n].off, size |-> batch[n].size, line |-> batch[n].line] :
              n \in DOMAIN batch}
  IN  /\ store' = store \cup new
      /\ ingested' = ingested \cup new
      /\ nextSeq' = nextSeq + Len(batch)
      /\ batch' = <<>>

\* Fault: the batch is not emptied after it was appended.
AppendAgain ==
  LET new == {[seq |-> nextSeq + n - 1, file |-> file, gen |-> batch[n].gen,
               off |-> batch[n].off, size |-> batch[n].size, line |-> batch[n].line] :
              n \in DOMAIN batch}
  IN  /\ store' = store \cup new
      /\ ingested' = ingested \cup new
      /\ nextSeq' = nextSeq + Len(batch)
      /\ batch' = batch

\* store.appendBatch: the batch under the next sequence numbers.
AppendBatch ==
  LET new == {[seq |-> nextSeq + n - 1, file |-> file, gen |-> batch[n].gen,
               off |-> batch[n].off, size |-> batch[n].size, line |-> batch[n].line] :
              n \in DOMAIN batch}
  IN  /\ store' = store \cup new
      /\ ingested' = ingested \cup new
      /\ nextSeq' = nextSeq + Len(batch)
      /\ batch' = <<>>

\* A flush between two lines, after which readFrom gives up if stopping.
Flush ==
  /\ pc = "flush"
  /\ AppendBatch
  /\ pc' = IF stopped THEN "mark" ELSE "read"
  /\ UNCHANGED <<todo, fi, fd, tableVars, lifeVars, diskVars, histVars, hydraVars>>

\* The end of the file, or a partial line, which is left for a later poll.
ReadEOF ==
  /\ pc = "read"
  /\ ~HasLine(fd, offset[file])
  /\ AppendBatch
  /\ pc' = "mark"
  /\ UNCHANGED <<todo, fi, fd, tableVars, lifeVars, diskVars, histVars, hydraVars>>

\* Fault: the first file read completes the backfill.
MarkLoaded ==
  /\ pc = "mark"
  /\ done' = [done EXCEPT ![file] = TRUE]
  /\ todo' = Tail(todo)
  /\ pc' = "poll"
  /\ loading' = FALSE
  /\ UNCHANGED <<known, gen, ino, offset, gone, unreadable, fi, fd, batch,
                 lifeVars, diskVars, storeVars, histVars, hydraVars>>

MarkDone ==
  /\ pc = "mark"
  /\ done' = [done EXCEPT ![file] = TRUE]
  /\ todo' = Tail(todo)
  /\ pc' = "poll"
  /\ UNCHANGED <<known, gen, ino, offset, gone, unreadable, loading, fi, fd, batch,
                 lifeVars, diskVars, storeVars, histVars, hydraVars>>

\* The first pass to get here completes the backfill.
PollDone ==
  /\ pc = "poll"
  /\ todo = <<>>
  /\ loading' = FALSE
  /\ pc' = "select"
  /\ UNCHANGED <<known, gen, ino, offset, gone, unreadable, done, todo, fi, fd, batch,
                 lifeVars, diskVars, storeVars, histVars, hydraVars>>

------------------------------------------------------------------------------
(***************************************************************************)
(* hydrate: compares generations under the file table's lock, then opens   *)
(* the path and reads the bytes the ref names.                             *)
(***************************************************************************)
\* Fault: generations are not compared.
HydrateUnchecked ==
  /\ hydrate.pc # "checked"
  /\ hydrates < MaxHydrates
  /\ hydrates' = hydrates + 1
  /\ \E e \in ingested :
       hydrate' = [pc |-> "checked", of |-> e, at |-> <<entry[e.file], ino[e.file]>>]
  /\ UNCHANGED <<diskVars, tableVars, localVars, lifeVars, storeVars, histVars>>

HydrateCheck ==
  /\ hydrate.pc # "checked"
  /\ hydrates < MaxHydrates
  /\ hydrates' = hydrates + 1
  /\ \E e \in ingested :
       hydrate' = IF gen[e.file] = e.gen
                    THEN [pc |-> "checked", of |-> e, at |-> <<entry[e.file], ino[e.file]>>]
                    ELSE [pc |-> "noted", of |-> e]
  /\ UNCHANGED <<diskVars, tableVars, localVars, lifeVars, storeVars, histVars>>

\* What ReadAt and Unmarshal make of the bytes of a ref: the line there, if
\* the bytes are exactly one.
LinesAt(i, off, size) ==
  IF /\ off + size <= Len(content[i])
     /\ IsObject(i, off)
     /\ LineSize(i, off) = size
    THEN {content[i][off + 1].line} ELSE {}

HydrateRead ==
  /\ hydrate.pc = "checked"
  /\ LET e     == hydrate.of
         lines == IF entry[e.file] = NoFile THEN {}
                    ELSE LinesAt(entry[e.file], e.off, e.size)
     IN  \/ /\ lines = {}
            /\ hydrate' = [pc |-> "noted", of |-> e]
         \/ \E l \in lines : hydrate' = [pc |-> "read", of |-> e, line |-> l]
  /\ UNCHANGED <<hydrates, diskVars, tableVars, localVars, lifeVars, storeVars, histVars>>

------------------------------------------------------------------------------
Discovery == DiscoverStat \/ Consider \/ DiscoverDone

Polling ==
  \/ PollStop \/ PollSkip \/ PollStat
  \/ CheckRotation \/ CheckTruncation \/ Drop
  \/ Open \/ ReadLine \/ Flush \/ ReadEOF
  \/ MarkDone \/ PollDone

Goroutine == SelectStop \/ SelectDiscover \/ SelectPoll \/ Discovery \/ Polling

Close(c) == CloseBegin(c) \/ CloseEnd(c)

Next ==
  \/ Environment
  \/ Start
  \/ Goroutine
  \/ \E c \in Closers : Close(c)
  \/ HydrateCheck
  \/ HydrateRead

\* The goroutine runs, both tickers keep ticking and select chooses among the
\* ready cases at random, so no case that is ready again and again is passed
\* over for ever.  Nobody is obliged to change the disk, to close or to
\* hydrate.
Fairness ==
  /\ WF_vars(Start)
  /\ WF_vars(Goroutine)
  /\ SF_vars(SelectStop)
  /\ SF_vars(SelectDiscover)
  /\ \A c \in Closers : WF_vars(CloseEnd(c))
  /\ WF_vars(HydrateRead)

Spec == Init /\ [][Next]_vars /\ Fairness

------------------------------------------------------------------------------
(***************************************************************************)
(* Properties.                                                             *)
(***************************************************************************)

\* A ref names one event for ever: no two events ever ingested share file,
\* generation and offset, whatever happens on disk between the stat, the
\* open and the reads.  LogBuffer's de-duplication and hydrate rely on it
\* (refID, eventRef).
RefIdentifies ==
  \A e, f \in ingested :
    e.file = f.file /\ e.gen = f.gen /\ e.off = f.off => e = f

\* Events of a file get their sequence numbers in the order of generation
\* and offset, so the stream shows a file's lines in the file's order.
IngestionOrder ==
  \A e, f \in ingested :
    e.file = f.file =>
      (e.seq < f.seq <=> e.gen < f.gen \/ (e.gen = f.gen /\ e.off < f.off))

\* What the handler has folded together for a file since its last reset
\* comes from lines of one generation (the calls of handler.reset).
HandlerOneGeneration == \A p \in Paths : \A g, h \in handled[p] : g = h

StoredLines == {e.line : e \in store}

\* Within one generation of a file no line is ever ingested twice, whatever is
\* written while it is read (readFrom).
OncePerGeneration ==
  \A e, f \in ingested :
    e.line = f.line /\ e.file = f.file /\ e.gen = f.gen => e = f

\* Lines that were complete when the program started, in files touched inside
\* the backfill window.
CompleteIn(cells) == {cells[n].line : n \in {m \in DOMAIN cells : cells[m].part # "head"}}

BackfillLines ==
  UNION {CompleteIn(StartContent[StartEntry[p]]) :
           p \in {q \in Paths : StartEntry[q] \notin StartOld \cup {NoFile}}}

\* Complete lines a reader of the paths would see now, in files that were
\* touched inside the backfill window.
LinesOnDisk ==
  UNION {CompleteIn(content[entry[p]]) :
           p \in {q \in Paths : entry[q] # NoFile /\ entry[q] \in recent}}

\* Once loading is over, and unless close cut the pass short, everything that
\* was on disk at the start, and is there still, is in the store: the first
\* batch of the stream waits for exactly this (pollOnce, progress, stream).
BackfillComplete ==
  ~loading /\ ~stopped => BackfillLines \cap LinesOnDisk \subseteq StoredLines

\* Every line that stays on disk is ingested in the end, unless the tailer is
\* closed.
EventuallyIngested ==
  \A l \in Lines :
    l \in LinesOnDisk ~> (l \notin LinesOnDisk \/ stopped \/ \E e \in ingested : e.line = l)

\* "No event is appended once close returns" (close).
NothingAfterClose ==
  [][(\E c \in Closers : closer[c] = "returned") => UNCHANGED storeVars]_vars

\* close never hangs, whatever the goroutine is in the middle of.
CloseReturns ==
  \A c \in Closers : closer[c] = "waiting" ~> closer[c] = "returned"

\* hydrate returns another line than the event's own only if the path named
\* another file than the one followed when generations were compared, or
\* names another one since (the window between a rotation and the next poll,
\* and the one between the lock and the open), or if the event's line is on no
\* disk any more: its file was cut off and written again (hydrate).
HydrateLagsOnly ==
  [][hydrate'.pc = "read" /\ hydrate.pc = "checked" =>
       \/ hydrate'.line = hydrate.of.line
       \/ hydrate.at[1] # hydrate.at[2]
       \/ entry[hydrate.of.file] # hydrate.at[1]
       \/ \A i \in DOMAIN content : \A k \in DOMAIN content[i] :
            content[i][k].line # hydrate.of.line]_vars

==============================================================================
