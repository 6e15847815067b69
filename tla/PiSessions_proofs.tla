--------------------------- MODULE PiSessions_proofs ---------------------------
(***************************************************************************)
(* The side table of the pi source and what Agents makes of it, for every  *)
(* set of session files and of lines, however their handling, the flushes, *)
(* the files that start over and the two halves of a report interleave.    *)
(***************************************************************************)
EXTENDS PiSessions, SumTheorems, SequenceTheorems

------------------------------------------------------------------------------
(***************************************************************************)
(* Types.                                                                  *)
(***************************************************************************)
Rec == [line : Line, ts : Nat, seq : Nat]

Agent == {Base[c] : c \in DOMAIN Base} \cup {Absent}

EventType ==
  [file : Files, gen : Nat, ts : Nat, kind : Types, level : {"error", "warn", "debug", "info"},
   client : Agent, fallback : BOOLEAN, toolCalls : {Cardinality(c) : c \in SUBSET STRING},
   call : STRING \cup {Absent}, cost : Nat \cup {Absent}, costDim : STRING \cup {""}]

IsEntry(fs) ==
  \E a \in Agent, b \in BOOLEAN : \E o, t, c :
    /\ DOMAIN o \subseteq STRING
    /\ fs = [agent |-> a, bad |-> b, orphans |-> o, newestTs |-> t, contextTokens |-> c]

------------------------------------------------------------------------------
(***************************************************************************)
(* The calls that wait.                                                    *)
(***************************************************************************)
IsWaiting(s, n, id) ==
  /\ n \in DOMAIN s /\ id \in Calls(s[n].line)
  /\ \A m \in (n + 1)..Len(s) : id \notin Calls(s[m].line) /\ id \notin Resolved(s[m].line)

LEMMA WaitingIs ==
  ASSUME NEW s, NEW w
  PROVE  w \in Waiting(s) <=> \E n \in DOMAIN s : \E id : w = <<n, id>> /\ IsWaiting(s, n, id)
<1>1. ASSUME NEW n \in DOMAIN s, NEW id
      PROVE  <<n, id>> \in Waiting(s) <=> IsWaiting(s, n, id)
  <2> DEFINE W == UNION {{<<k, i>> : i \in s[k].line.calls \ {""}} : k \in DOMAIN s}
  <2>1. <<n, id>> \in W <=> id \in s[n].line.calls \ {""}
    <3>1. ASSUME id \in s[n].line.calls \ {""} PROVE <<n, id>> \in W
      <4>1. <<n, id>> \in {<<n, i>> : i \in s[n].line.calls \ {""}}
        BY <3>1
      <4>2. {<<n, i>> : i \in s[n].line.calls \ {""}}
              \in {{<<k, i>> : i \in s[k].line.calls \ {""}} : k \in DOMAIN s}
        OBVIOUS
      <4> QED BY <4>1, <4>2, Zenon
    <3>2. ASSUME <<n, id>> \in W PROVE id \in s[n].line.calls \ {""}
      <4>1. PICK k \in DOMAIN s : <<n, id>> \in {<<k, i>> : i \in s[k].line.calls \ {""}}
        BY <3>2
      <4> QED BY <4>1
    <3> QED BY <3>1, <3>2
  <2> HIDE DEF W
  <2>2. <<n, id>> \in Waiting(s) <=>
          /\ <<n, id>> \in W
          /\ s[n].line.type = "assistant"
          /\ \A m \in (n + 1)..Len(s) :
               /\ s[m].line.type = "assistant" => id \notin s[m].line.calls
               /\ s[m].line.type = "toolResult" => s[m].line.call # id
    BY DEF Waiting, W
  <2>3. id # "" => \A m : /\ (s[m].line.type = "assistant" => id \notin s[m].line.calls)
                               <=> id \notin Calls(s[m].line)
                          /\ (s[m].line.type = "toolResult" => s[m].line.call # id)
                               <=> id \notin Resolved(s[m].line)
    BY DEF Calls, Resolved
  <2>4. id \in Calls(s[n].line) <=> s[n].line.type = "assistant" /\ id \in s[n].line.calls \ {""}
    BY DEF Calls
  <2> QED BY <2>1, <2>2, <2>3, <2>4 DEF IsWaiting
<1>2. w \in Waiting(s) => \E n \in DOMAIN s : \E id : w = <<n, id>>
  BY DEF Waiting
<1> QED BY <1>1, <1>2

\* o holds the calls of s that wait, with the times of the lines they are in.
Holds(o, s) ==
  /\ \A id \in DOMAIN o : \E n \in DOMAIN s : IsWaiting(s, n, id) /\ o[id] = s[n].ts
  /\ \A n \in DOMAIN s : \A id : IsWaiting(s, n, id) => id \in DOMAIN o /\ o[id] = s[n].ts

LEMMA HoldsIsEqual ==
  ASSUME NEW o, NEW s, Holds(o, s)
  PROVE  {<<id, o[id]>> : id \in DOMAIN o} = {<<w[2], s[w[1]].ts>> : w \in Waiting(s)}
<1>1. ASSUME NEW id \in DOMAIN o PROVE \E w \in Waiting(s) : <<id, o[id]>> = <<w[2], s[w[1]].ts>>
  <2>1. PICK n \in DOMAIN s : IsWaiting(s, n, id) /\ o[id] = s[n].ts
    BY DEF Holds
  <2>2. <<n, id>> \in Waiting(s)
    BY <2>1, WaitingIs
  <2> QED BY <2>1, <2>2
<1>2. ASSUME NEW w \in Waiting(s) PROVE \E id \in DOMAIN o : <<id, o[id]>> = <<w[2], s[w[1]].ts>>
  <2>1. PICK n, id : n \in DOMAIN s /\ w = <<n, id>> /\ IsWaiting(s, n, id)
    BY WaitingIs
  <2>2. id \in DOMAIN o /\ o[id] = s[n].ts
    BY <2>1 DEF Holds
  <2> QED BY <2>1, <2>2
<1> QED BY <1>1, <1>2

\* t is s with one more line, the time given to it, and a sequence number.
Grown(t, s, line, ts) ==
  \E q \in Nat : t = Append(s, [line |-> line, ts |-> ts, seq |-> q])

\* Folding a line into the orphans keeps them the calls that wait.
LEMMA OrphansHold ==
  ASSUME NEW s \in Seq(Rec), NEW line \in Line, NEW ts \in Nat, NEW o, Holds(o, s),
         NEW t, Grown(t, s, line, ts)
  PROVE  Holds(Orphans(o, line, ts), t)
<1>0. PICK q \in Nat : t = Append(s, [line |-> line, ts |-> ts, seq |-> q])
  BY DEF Grown
<1> DEFINE n == Len(s)
           x == [line |-> line, ts |-> ts, seq |-> q]
           p == Orphans(o, line, ts)
<1>1. /\ n \in Nat /\ DOMAIN s = 1..n /\ Len(t) = n + 1 /\ DOMAIN t = 1..(n + 1)
      /\ \A m \in 1..n : t[m] = s[m]
      /\ t[n + 1] = x
  <2>1. x \in Rec /\ t = Append(s, x)
    BY <1>0 DEF Rec
  <2>2. t \in Seq(Rec) /\ Len(t) = n + 1 /\ (\A m \in 1..n : t[m] = s[m]) /\ t[n + 1] = x
    <3> HIDE DEF x
    <3> QED BY <2>1, AppendProperties
  <2>3. n \in Nat /\ DOMAIN s = 1..n
    BY LenProperties
  <2>4. DOMAIN t = 1..Len(t)
    BY <2>2, LenProperties
  <2> QED BY <2>2, <2>3, <2>4
<1>2. t[n + 1].line = line /\ t[n + 1].ts = ts
  BY <1>1
<1>3. /\ DOMAIN p = (DOMAIN o \cup Calls(line)) \ Resolved(line)
      /\ \A id \in DOMAIN p : p[id] = IF id \in Calls(line) THEN ts ELSE o[id]
  BY DEF Orphans
<1>4. \A id \in Calls(line) : id \notin Resolved(line)
  BY DEF Calls, Resolved
<1> HIDE DEF n, x, p
<1>5. ASSUME NEW m \in 1..n, NEW id
      PROVE  IsWaiting(t, m, id) <=> /\ IsWaiting(s, m, id)
                                     /\ id \notin Calls(line) /\ id \notin Resolved(line)
  <2>1. m \in DOMAIN s /\ m \in DOMAIN t /\ t[m] = s[m] /\ Len(s) = n /\ Len(t) = n + 1
    BY <1>1 DEF n
  <2>2. \A k \in (m + 1)..n : k \in (m + 1)..(n + 1) /\ t[k] = s[k]
    BY <1>1
  <2>3. n + 1 \in (m + 1)..(n + 1)
    BY <1>1
  <2>4. \A k \in (m + 1)..(n + 1) : k \in (m + 1)..n \/ k = n + 1
    BY <1>1
  <2> QED BY <1>2, <2>1, <2>2, <2>3, <2>4 DEF IsWaiting
<1>6. ASSUME NEW id PROVE IsWaiting(t, n + 1, id) <=> id \in Calls(line)
  <2>1. n + 1 \in DOMAIN t /\ Len(t) = n + 1
    BY <1>1
  <2>2. \A k \in (n + 1 + 1)..(n + 1) : FALSE
    BY <1>1
  <2> QED BY <1>2, <2>1, <2>2 DEF IsWaiting
<1>7. ASSUME NEW id \in DOMAIN p
      PROVE  \E m \in DOMAIN t : IsWaiting(t, m, id) /\ p[id] = t[m].ts
  <2>1. CASE id \in Calls(line)
    <3>1. IsWaiting(t, n + 1, id) /\ p[id] = t[n + 1].ts /\ n + 1 \in DOMAIN t
      BY <1>1, <1>2, <1>3, <1>6, <2>1
    <3> QED BY <3>1
  <2>2. CASE id \notin Calls(line)
    <3>1. id \in DOMAIN o /\ id \notin Resolved(line) /\ p[id] = o[id]
      BY <1>3, <2>2
    <3>2. PICK m \in DOMAIN s : IsWaiting(s, m, id) /\ o[id] = s[m].ts
      BY <3>1 DEF Holds
    <3>3. m \in 1..n /\ m \in DOMAIN t /\ t[m] = s[m]
      BY <1>1
    <3>4. IsWaiting(t, m, id)
      BY <1>5, <2>2, <3>1, <3>2, <3>3
    <3> QED BY <3>1, <3>2, <3>3, <3>4
  <2> QED BY <2>1, <2>2
<1>8. ASSUME NEW m \in DOMAIN t, NEW id, IsWaiting(t, m, id)
      PROVE  id \in DOMAIN p /\ p[id] = t[m].ts
  <2>1. CASE m \in 1..n
    <3>1. IsWaiting(s, m, id) /\ id \notin Calls(line) /\ id \notin Resolved(line)
      BY <1>5, <1>8, <2>1
    <3>2. id \in DOMAIN o /\ o[id] = s[m].ts /\ t[m] = s[m]
      BY <1>1, <2>1, <3>1 DEF Holds
    <3> QED BY <1>3, <3>1, <3>2
  <2>2. CASE m = n + 1
    <3>1. id \in Calls(line)
      BY <1>6, <1>8, <2>2
    <3>2. id \in DOMAIN p
      BY <1>3, <1>4, <3>1
    <3> QED BY <1>2, <1>3, <2>2, <3>1, <3>2
  <2>3. m \in 1..n \/ m = n + 1
    BY <1>1
  <2> QED BY <2>1, <2>2, <2>3
<1> QED BY <1>7, <1>8 DEF Holds, p

------------------------------------------------------------------------------
(***************************************************************************)
(* The inductive invariant.                                                *)
(***************************************************************************)
Answered(s, c) == \E n \in DOMAIN s : s[n].line.type = "toolResult" /\ s[n].line.call = c

\* What an event says of its file is true, or of a start of it that is gone:
\* rd are the lines read, gn the generations.
Known(rd, gn, f, g, c) ==
  /\ g <= gn[f]
  /\ g = gn[f] /\ c # Absent => Answered(rd[f], c)

Told(rd, gn) == {e \in EventType : Known(rd, gn, e.file, e.gen, e.call)}

PiTypes ==
  /\ made \in Nat
  /\ read \in [Files -> Seq(Rec)]
  /\ gen \in [Files -> Nat]
  /\ resetting \in Files \cup {Absent}
  /\ resetting # Absent => read[resetting] = <<>>
  /\ batch \in Seq(Told(read, gen))
  /\ store \in Seq(Told(read, gen))
  /\ DOMAIN files \subseteq Files
  /\ \A f \in DOMAIN files : IsEntry(files[f])

\* The entry fs is what handle makes of the lines s.
Describes(fs, s) ==
  /\ s # <<>>
  /\ fs.bad <=> AgentIn(s) = Absent
  /\ fs.bad => fs.orphans = <<>>
  /\ ~fs.bad => fs.agent = AgentIn(s) /\ Holds(fs.orphans, s)

Blank(s) == \A n \in DOMAIN s : s[n].line.type = "blank"

\* A file that was noticed to start over has its old entry until reset.
TableInv ==
  \A f \in Files \ {resetting} :
    /\ f \in DOMAIN files => Describes(files[f], read[f])
    /\ f \notin DOMAIN files => Blank(read[f])

\* rep is a report between its two halves that has seen the results S.
HasSeen(rep, S) ==
  \E n, r, t : rep = [pc |-> "scanned", now |-> n, rows |-> r, seen |-> S, stamp |-> t]

SeenKnown(S, rd, gn) ==
  \A x \in S : \E f \in Files, g \in Nat : \E c : x = <<f, g, c>> /\ Known(rd, gn, f, g, c)

\* Between its two halves a report has seen results that are among the lines
\* read, or of a start of the file that is gone.
ReportInv ==
  /\ report.pc = "scanned" => \E S : HasSeen(report, S) /\ SeenKnown(S, read, gen)
  /\ NoAnsweredOrphan

PiInv == PiTypes /\ TableInv /\ ReportInv

------------------------------------------------------------------------------
(***************************************************************************)
(* One line.                                                               *)
(***************************************************************************)
LEMMA LineTypes ==
  ASSUME NEW line \in Line
  PROVE  /\ line.type \in Types /\ line.call \in STRING \cup {Absent}
         /\ line.cost \in Nat \cup {Absent} /\ line.model \in STRING /\ line.calls \in SUBSET STRING
         /\ line.cwd \in DOMAIN Base \cup {Absent} /\ line.failed \in BOOLEAN
         /\ line.ts \in Nat \cup {Absent}
BY DEF Line

LEMMA AppendFacts ==
  ASSUME NEW s \in Seq(Rec), NEW line \in Line, NEW ts \in Nat,
         NEW t, Grown(t, s, line, ts)
  PROVE  /\ t \in Seq(Rec) /\ Len(s) \in Nat /\ DOMAIN s = 1..Len(s)
         /\ Len(t) = Len(s) + 1 /\ DOMAIN t = 1..(Len(s) + 1) /\ t # <<>>
         /\ \A m \in 1..Len(s) : t[m] = s[m]
         /\ t[Len(s) + 1].line = line /\ t[Len(s) + 1].ts = ts
<1>0. PICK q \in Nat : t = Append(s, [line |-> line, ts |-> ts, seq |-> q])
  BY DEF Grown
<1> DEFINE x == [line |-> line, ts |-> ts, seq |-> q]
<1>1. x \in Rec /\ t = Append(s, x) /\ x.line = line /\ x.ts = ts
  BY <1>0 DEF Rec
<1> HIDE DEF x
<1>2. /\ t \in Seq(Rec) /\ Len(t) = Len(s) + 1 /\ \A m \in 1..Len(s) : t[m] = s[m]
  BY <1>1, AppendProperties
<1>3. t[Len(s) + 1] = x
  BY <1>1, AppendProperties
<1>4. Len(s) \in Nat /\ DOMAIN s = 1..Len(s) /\ DOMAIN t = 1..Len(t)
  BY <1>2, LenProperties
<1>5. t # <<>>
  BY <1>2, <1>4, EmptySeq
<1> QED BY <1>1, <1>2, <1>3, <1>4, <1>5

\* The agent is decided by the first line.
LEMMA AgentAppend ==
  ASSUME NEW s \in Seq(Rec), NEW line \in Line, NEW ts \in Nat,
         NEW t, Grown(t, s, line, ts)
  PROVE  /\ s # <<>> => AgentIn(t) = AgentIn(s)
         /\ s = <<>> => AgentIn(t) = IF line.type = "session" /\ line.cwd # Absent
                                      THEN Base[line.cwd] ELSE Absent
<1>1. /\ Len(s) \in Nat /\ t # <<>> /\ (\A m \in 1..Len(s) : t[m] = s[m])
      /\ t[Len(s) + 1].line = line
  BY AppendFacts
<1>2. CASE s # <<>>
  <2>1. 1 \in 1..Len(s)
    BY <1>1, <1>2, EmptySeq
  <2>2. t[1] = s[1]
    BY <1>1, <2>1
  <2> QED BY <1>1, <1>2, <2>2 DEF AgentIn
<1>3. CASE s = <<>>
  <2>1. Len(s) = 0
    BY <1>3, EmptySeq
  <2>2. t[1].line = line
    BY <1>1, <2>1
  <2> QED BY <1>1, <1>3, <2>2 DEF AgentIn
<1> QED BY <1>2, <1>3

LEMMA BlankHasNoAgent ==
  ASSUME NEW s \in Seq(Rec), Blank(s)
  PROVE  AgentIn(s) = Absent
<1>1. s # <<>> => 1 \in DOMAIN s
  BY LenProperties, EmptySeq
<1> QED BY <1>1 DEF AgentIn, Blank

\* A blank line changes nothing that an entry says.
LEMMA DescribesBlank ==
  ASSUME NEW s \in Seq(Rec), NEW line \in Line, NEW ts \in Nat, line.type = "blank",
         NEW t, Grown(t, s, line, ts), NEW fs, Describes(fs, s)
  PROVE  Describes(fs, t)
<1>1. t # <<>> /\ AgentIn(t) = AgentIn(s)
  <2>1. t # <<>>
    BY AppendFacts
  <2>2. s # <<>>
    BY DEF Describes
  <2>3. AgentIn(t) = AgentIn(s)
    BY <2>2, AgentAppend
  <2> QED BY <2>1, <2>3
<1>2. ASSUME Holds(fs.orphans, s) PROVE Holds(fs.orphans, t)
  <2> DEFINE o == fs.orphans
             p == Orphans(o, line, ts)
  <2>1. Holds(p, t)
    <3> HIDE DEF o
    <3> QED BY <1>2, OrphansHold DEF o
  <2>2. DOMAIN p = DOMAIN o /\ \A id \in DOMAIN o : p[id] = o[id]
    BY DEF Orphans, Calls, Resolved
  <2> HIDE DEF o, p
  <2>3. Holds(o, t)
    BY <2>1, <2>2 DEF Holds
  <2> QED BY <2>3 DEF o
<1> QED BY <1>1, <1>2 DEF Describes

LEMMA FoldedFields ==
  ASSUME NEW fs, IsEntry(fs), NEW line \in Line, NEW ts
  PROVE  /\ IsEntry(Folded(fs, line, ts))
         /\ Folded(fs, line, ts).bad = fs.bad
         /\ Folded(fs, line, ts).agent = fs.agent
         /\ Folded(fs, line, ts).orphans = Orphans(fs.orphans, line, ts)
<1>1. PICK a \in Agent, b \in BOOLEAN : \E o, t, c :
        /\ DOMAIN o \subseteq STRING
        /\ fs = [agent |-> a, bad |-> b, orphans |-> o, newestTs |-> t, contextTokens |-> c]
  BY DEF IsEntry
<1>2. PICK o, t, c :
        /\ DOMAIN o \subseteq STRING
        /\ fs = [agent |-> a, bad |-> b, orphans |-> o, newestTs |-> t, contextTokens |-> c]
  BY <1>1
<1>3. PICK t2, c2, o2 :
        /\ o2 = Orphans(fs.orphans, line, ts)
        /\ Folded(fs, line, ts) = [fs EXCEPT !.newestTs = t2, !.contextTokens = c2, !.orphans = o2]
  BY DEF Folded
<1>4. Folded(fs, line, ts)
        = [agent |-> a, bad |-> b, orphans |-> o2, newestTs |-> t2, contextTokens |-> c2]
  BY <1>2, <1>3
<1>5. IsEntry(Folded(fs, line, ts))
  <2>1. DOMAIN o2 \subseteq STRING
    <3>1. DOMAIN o2 \subseteq DOMAIN o \cup Calls(line)
      BY <1>2, <1>3 DEF Orphans
    <3> QED BY <1>2, <3>1, LineTypes DEF Calls
  <2> QED BY <1>4, <2>1 DEF IsEntry
<1> QED BY <1>2, <1>3, <1>4, <1>5

\* What handle makes of a line is what the entry should say after it.
LEMMA HandleDescribes ==
  ASSUME PiTypes, TableInv, NEW f \in Files, f # resetting,
         NEW line \in Line, NEW ts \in Nat,
         NEW t, Grown(t, read[f], line, ts),
         NEW fs, fs = FileState(f, line)
  PROVE  /\ IsEntry(fs)
         /\ line.type = "blank" => /\ f \in DOMAIN files => Describes(files[f], t)
                                   /\ f \notin DOMAIN files => Blank(t)
         /\ line.type # "blank" => /\ fs.bad => Describes(fs, t)
                                   /\ ~fs.bad => Describes(Folded(fs, line, ts), t)
<1> DEFINE s == read[f]
<1>1. s \in Seq(Rec)
  BY DEF PiTypes
<1>2. t # <<>>
  BY <1>1, AppendFacts
<1>3. /\ s # <<>> => AgentIn(t) = AgentIn(s)
      /\ s = <<>> => AgentIn(t) = IF line.type = "session" /\ line.cwd # Absent
                                   THEN Base[line.cwd] ELSE Absent
  BY <1>1, AgentAppend
<1>4. /\ f \in DOMAIN files => Describes(files[f], s) /\ IsEntry(files[f])
      /\ f \notin DOMAIN files => Blank(s)
  BY DEF TableInv, PiTypes
<1>5. f \in DOMAIN files => fs = files[f]
  BY DEF FileState
<1>6. f \notin DOMAIN files =>
        fs = IF s = <<>> /\ line.type = "session" /\ line.cwd # Absent
               THEN [NewFile EXCEPT !.agent = Base[line.cwd]] ELSE [NewFile EXCEPT !.bad = TRUE]
  BY DEF FileState
<1>7. ASSUME f \notin DOMAIN files
      PROVE  /\ IsEntry(fs) /\ fs.orphans = <<>>
             /\ fs.bad <=> AgentIn(t) = Absent
             /\ ~fs.bad => fs.agent = AgentIn(t) /\ s = <<>>
  <2>1. CASE s = <<>> /\ line.type = "session" /\ line.cwd # Absent
    <3>1. Base[line.cwd] \in Agent /\ Base[line.cwd] # Absent
      BY <2>1, LineTypes, PiAssumption DEF Agent
    <3>2. fs = [agent |-> Base[line.cwd], bad |-> FALSE, orphans |-> <<>>,
                newestTs |-> 0, contextTokens |-> 0]
      BY <1>6, <1>7, <2>1 DEF NewFile
    <3>3. IsEntry(fs)
      <4>1. DOMAIN <<>> \subseteq STRING
        OBVIOUS
      <4> QED BY <3>1, <3>2, <4>1 DEF IsEntry
    <3> QED BY <1>3, <2>1, <3>1, <3>2, <3>3
  <2>2. CASE ~(s = <<>> /\ line.type = "session" /\ line.cwd # Absent)
    <3>1. fs = [agent |-> Absent, bad |-> TRUE, orphans |-> <<>>,
                newestTs |-> 0, contextTokens |-> 0]
      BY <1>6, <1>7, <2>2 DEF NewFile
    <3>2. IsEntry(fs)
      <4>1. DOMAIN <<>> \subseteq STRING
        OBVIOUS
      <4> QED BY <3>1, <4>1 DEF IsEntry, Agent
    <3>3. AgentIn(t) = Absent
      BY <1>1, <1>3, <1>4, <1>7, <2>2, BlankHasNoAgent
    <3> QED BY <3>1, <3>2, <3>3
  <2> QED BY <2>1, <2>2
<1>8. IsEntry(fs)
  BY <1>4, <1>5, <1>7
<1> HIDE DEF s
<1>9. ASSUME line.type = "blank", f \in DOMAIN files PROVE Describes(files[f], t)
  BY <1>1, <1>4, <1>9, DescribesBlank, Zenon DEF s
<1>10. ASSUME line.type = "blank", f \notin DOMAIN files PROVE Blank(t)
  <2>1. \A m \in 1..(Len(s) + 1) : m \in 1..Len(s) \/ m = Len(s) + 1
    BY <1>1, AppendFacts DEF s
  <2>2. /\ DOMAIN t = 1..(Len(s) + 1) /\ DOMAIN s = 1..Len(s)
        /\ (\A m \in 1..Len(s) : t[m] = s[m]) /\ t[Len(s) + 1].line = line
    BY <1>1, AppendFacts DEF s
  <2> QED BY <1>4, <1>10, <2>1, <2>2 DEF Blank
<1>11. ASSUME line.type # "blank", fs.bad PROVE Describes(fs, t)
  <2>1. CASE f \in DOMAIN files
    <3>1. Describes(fs, s)
      BY <1>4, <1>5, <2>1
    <3>2. AgentIn(t) = AgentIn(s)
      BY <1>3, <3>1 DEF Describes
    <3> QED BY <1>2, <1>11, <3>1, <3>2 DEF Describes
  <2>2. CASE f \notin DOMAIN files
    BY <1>2, <1>7, <1>11, <2>2 DEF Describes
  <2> QED BY <2>1, <2>2
<1>12. ASSUME line.type # "blank", ~fs.bad PROVE Describes(Folded(fs, line, ts), t)
  <2> DEFINE ff == Folded(fs, line, ts)
  <2>1. ff.bad = fs.bad /\ ff.agent = fs.agent /\ ff.orphans = Orphans(fs.orphans, line, ts)
    BY <1>8, FoldedFields
  <2>2. Holds(fs.orphans, s) /\ fs.agent = AgentIn(t) /\ AgentIn(t) # Absent
    <3>1. CASE f \in DOMAIN files
      <4>1. Describes(fs, s)
        BY <1>4, <1>5, <3>1
      <4>2. AgentIn(t) = AgentIn(s)
        BY <1>3, <4>1 DEF Describes
      <4> QED BY <1>12, <4>1, <4>2 DEF Describes
    <3>2. CASE f \notin DOMAIN files
      <4>1. Holds(<<>>, <<>>)
        BY DEF Holds
      <4> QED BY <1>7, <1>12, <3>2, <4>1
    <3> QED BY <3>1, <3>2
  <2>3. Holds(Orphans(fs.orphans, line, ts), t)
    BY <1>1, <2>2, OrphansHold DEF s
  <2> HIDE DEF ff
  <2> QED BY <1>2, <1>12, <2>1, <2>2, <2>3 DEF Describes, ff
<1> QED BY <1>8, <1>9, <1>10, <1>11, <1>12

------------------------------------------------------------------------------
(***************************************************************************)
(* Events.                                                                 *)
(***************************************************************************)
\* Whatever is known of an event stays true while its file's lines grow, or
\* its generation does.
Further(rd, gn, rd2, gn2) ==
  \A f \in Files : /\ gn[f] <= gn2[f]
                   /\ gn2[f] = gn[f] => \A c : Answered(rd[f], c) => Answered(rd2[f], c)

LEMMA KnownStays ==
  ASSUME NEW rd, NEW gn \in [Files -> Nat], NEW rd2, NEW gn2 \in [Files -> Nat],
         Further(rd, gn, rd2, gn2)
  PROVE  /\ \A f \in Files, g \in Nat : \A c : Known(rd, gn, f, g, c) => Known(rd2, gn2, f, g, c)
         /\ Told(rd, gn) \subseteq Told(rd2, gn2)
<1>1. ASSUME NEW f \in Files, NEW g \in Nat, NEW c, Known(rd, gn, f, g, c)
      PROVE  Known(rd2, gn2, f, g, c)
  <2>1. gn[f] \in Nat /\ gn2[f] \in Nat /\ gn[f] <= gn2[f] /\ g <= gn[f]
    BY <1>1 DEF Further, Known
  <2>2. g <= gn2[f] /\ (g = gn2[f] => g = gn[f] /\ gn2[f] = gn[f])
    BY <2>1
  <2>3. ASSUME g = gn2[f], c # Absent PROVE Answered(rd2[f], c)
    BY <1>1, <2>2, <2>3 DEF Further, Known
  <2> QED BY <2>2, <2>3 DEF Known
<1>2. ASSUME NEW e \in Told(rd, gn) PROVE e \in Told(rd2, gn2)
  <2>1. e \in EventType /\ Known(rd, gn, e.file, e.gen, e.call)
    BY DEF Told
  <2>2. e.file \in Files /\ e.gen \in Nat
    BY <2>1 DEF EventType
  <2> QED BY <1>1, <2>1, <2>2 DEF Told
<1> QED BY <1>1, <1>2

LEMMA EventTyped ==
  ASSUME PiTypes, NEW f \in Files, NEW line \in Line, NEW ts \in Nat, IsEntry(FileState(f, line))
  PROVE  /\ Event(f, line, ts) \in EventType
         /\ Event(f, line, ts).file = f /\ Event(f, line, ts).gen = gen[f]
         /\ Event(f, line, ts).call # Absent =>
              line.type = "toolResult" /\ Event(f, line, ts).call = line.call
<1> DEFINE e == Event(f, line, ts)
<1>1. PICK a \in Agent : FileState(f, line).agent = a
  <2>1. PICK a \in Agent, b \in BOOLEAN : \E o, t, c :
          FileState(f, line)
            = [agent |-> a, bad |-> b, orphans |-> o, newestTs |-> t, contextTokens |-> c]
    BY Zenon DEF IsEntry
  <2> QED BY <2>1
<1>2. PICK k \in Types : k = Kind(line)
  BY LineTypes DEF Kind, Types
<1>3. PICK v \in {"error", "warn", "debug", "info"} : v = Level(line)
  BY DEF Level
<1>4. PICK n \in {Cardinality(c) : c \in SUBSET STRING} :
        n = IF line.type = "assistant" THEN Cardinality(line.calls) ELSE 0
  <2>1. Cardinality(line.calls) \in {Cardinality(c) : c \in SUBSET STRING}
    BY LineTypes
  <2>2. 0 \in {Cardinality(c) : c \in SUBSET STRING}
    <3>1. {} \in SUBSET STRING /\ Cardinality({}) = 0
      BY FS_EmptySet
    <3> QED BY <3>1
  <2> QED BY <2>1, <2>2
<1>5. PICK l \in STRING \cup {Absent} : l = IF line.type = "toolResult" THEN line.call ELSE Absent
  BY LineTypes
<1>6. PICK p \in Nat \cup {Absent} :
        p = IF line.type \in {"assistant", "compaction", "usage"} THEN line.cost ELSE Absent
  BY LineTypes
<1>7. PICK d \in STRING \cup {""} : d = IF line.type \in {"assistant", "usage"} THEN line.model ELSE ""
  BY LineTypes
<1>8. PICK b \in BOOLEAN : b = (line.type = "router" /\ line.failed)
  <2>1. (line.type = "router" /\ line.failed) \in BOOLEAN
    BY LineTypes
  <2> QED BY <2>1
<1>9. PICK g \in Nat : g = gen[f]
  BY DEF PiTypes
<1>10. e = [file |-> f, gen |-> g, ts |-> ts, kind |-> k, level |-> v, client |-> a,
            fallback |-> b, toolCalls |-> n, call |-> l, cost |-> p, costDim |-> d]
  BY <1>1, <1>2, <1>3, <1>4, <1>5, <1>6, <1>7, <1>8, <1>9, Zenon DEF Event
<1> HIDE DEF e
<1>11. e \in EventType
  BY <1>10 DEF EventType
<1>12. e.file = f /\ e.gen = gen[f] /\ e.call = l
  BY <1>9, <1>10
<1>13. l # Absent => line.type = "toolResult" /\ l = line.call
  BY <1>5
<1> QED BY <1>11, <1>12, <1>13 DEF e

------------------------------------------------------------------------------
(***************************************************************************)
(* What truncation keeps of the store.                                     *)
(***************************************************************************)
\* What Without makes of the element e, when kept is left of those before.
Step(kept, e, f) == IF e.file = f THEN kept ELSE Append(kept, e)

\* k lists what is left of the first 0, 1, ..., n elements of s.
IsKept(k, s, f, n) == k = [m \in 0..n |-> IF m = 0 THEN <<>> ELSE Step(k[m - 1], s[m], f)]

LEMMA KeptExists ==
  ASSUME NEW n \in Nat, NEW s, NEW f
  PROVE  \E k : IsKept(k, s, f, n)
<1> DEFINE S == {m \in Nat : \E k : IsKept(k, s, f, m)}
<1>1. 0 \in S
  <2>1. IsKept([m \in 0..0 |-> <<>>], s, f, 0)
    BY DEF IsKept
  <2> QED BY <2>1
<1>2. ASSUME NEW m \in S PROVE m + 1 \in S
  <2>1. m \in Nat
    OBVIOUS
  <2>2. PICK k : k = [i \in 0..m |-> IF i = 0 THEN <<>> ELSE Step(k[i - 1], s[i], f)]
    BY DEF IsKept
  <2> DEFINE g == [i \in 0..(m + 1) |-> IF i = m + 1 THEN Step(k[m], s[m + 1], f) ELSE k[i]]
  <2>3. ASSUME NEW i \in 0..(m + 1)
        PROVE  g[i] = IF i = 0 THEN <<>> ELSE Step(g[i - 1], s[i], f)
    <3>1. CASE i = m + 1
      <4>1. g[i] = Step(k[m], s[i], f) /\ g[m] = k[m] /\ i - 1 = m /\ i # 0
        BY <2>1, <3>1
      <4> QED BY <4>1
    <3>2. CASE i # m + 1 /\ i # 0
      <4>1. i - 1 \in 0..m /\ i - 1 \in 0..(m + 1) /\ i - 1 # m + 1 /\ i \in 0..m
        BY <2>1, <3>2
      <4>2. g[i] = k[i] /\ g[i - 1] = k[i - 1]
        BY <3>2, <4>1
      <4>3. k[i] = Step(k[i - 1], s[i], f)
        BY <2>2, <3>2, <4>1
      <4> QED BY <3>2, <4>2, <4>3
    <3>3. CASE i = 0
      <4>1. 0 \in 0..m /\ 0 # m + 1
        BY <2>1
      <4>2. g[0] = k[0] /\ k[0] = <<>>
        BY <2>1, <2>2, <4>1
      <4> QED BY <3>3, <4>2
    <3> QED BY <3>1, <3>2, <3>3
  <2>4. g = [i \in 0..(m + 1) |-> g[i]]
    OBVIOUS
  <2> HIDE DEF g
  <2>5. IsKept(g, s, f, m + 1)
    BY <2>3, <2>4 DEF IsKept
  <2> QED BY <2>1, <2>5
<1>3. n \in S
  <2> HIDE DEF S
  <2> QED BY <1>1, <1>2, SetInduction
<1> QED BY <1>3

LEMMA WithoutKeeps ==
  ASSUME NEW S, NEW s \in Seq(S), NEW f
  PROVE  Without(s, f) \in Seq(S)
<1>1. Len(s) \in Nat /\ \A m \in 1..Len(s) : s[m] \in S
  BY LenProperties, ElementOfSeq
<1> DEFINE n == Len(s)
           kept == CHOOSE k : IsKept(k, s, f, n)
<1>2. IsKept(kept, s, f, n)
  BY <1>1, KeptExists
<1>3. Without(s, f) = kept[n]
  BY DEF Without, IsKept, Step
<1> HIDE DEF kept
<1>4. \A m \in 0..n : kept[m] = IF m = 0 THEN <<>> ELSE Step(kept[m - 1], s[m], f)
  BY <1>2 DEF IsKept
<1> DEFINE M == {m \in Nat : m <= n => kept[m] \in Seq(S)}
<1>5. 0 \in M
  <2>1. kept[0] = <<>>
    BY <1>1, <1>4
  <2> QED BY <2>1, EmptySeq
<1>6. ASSUME NEW m \in M \cap Nat PROVE m + 1 \in M
  <2> SUFFICES ASSUME m + 1 <= n PROVE kept[m + 1] \in Seq(S)
    OBVIOUS
  <2>1. kept[m] \in Seq(S) /\ s[m + 1] \in S
    BY <1>1
  <2>2. Append(kept[m], s[m + 1]) \in Seq(S)
    BY <2>1, AppendProperties
  <2>3. m + 1 \in 0..n /\ m + 1 # 0 /\ (m + 1) - 1 = m
    BY <1>1
  <2> QED BY <1>4, <2>1, <2>2, <2>3 DEF Step
<1>7. n \in M
  <2> HIDE DEF M
  <2> QED BY <1>1, <1>5, <1>6, SetInduction
<1> QED BY <1>1, <1>3, <1>7

------------------------------------------------------------------------------
(***************************************************************************)
(* Steps.                                                                  *)
(***************************************************************************)
\* A step of the tailer that only takes lines further leaves a report what it
\* was.
LEMMA ReportStays ==
  ASSUME PiTypes, ReportInv, report' = report, report.pc # "done",
         gen' \in [Files -> Nat], Further(read, gen, read', gen')
  PROVE  ReportInv'
<1>1. \A f \in Files, g \in Nat : \A c : Known(read, gen, f, g, c) => Known(read', gen', f, g, c)
  BY KnownStays DEF PiTypes
<1>2. ASSUME report.pc = "scanned"
      PROVE  \E S : HasSeen(report, S) /\ SeenKnown(S, read', gen')
  <2>1. PICK S : HasSeen(report, S) /\ SeenKnown(S, read, gen)
    BY <1>2 DEF ReportInv
  <2>2. SeenKnown(S, read', gen')
    BY <1>1, <2>1 DEF SeenKnown
  <2> QED BY <2>1, <2>2
<1>3. NoAnsweredOrphan'
  BY DEF NoAnsweredOrphan
<1> QED BY <1>2, <1>3 DEF ReportInv

LEMMA FurtherRefl ==
  ASSUME NEW rd, NEW gn \in [Files -> Nat]
  PROVE  Further(rd, gn, rd, gn)
BY DEF Further

LEMMA PiInitial == PiInit => PiInv
<1> SUFFICES ASSUME PiInit PROVE PiInv
  OBVIOUS
<1>1. /\ made = 0 /\ read = [f \in Files |-> <<>>] /\ gen = [f \in Files |-> 0]
      /\ resetting = Absent /\ batch = <<>> /\ store = <<>> /\ files = <<>>
      /\ report = [pc |-> "idle"]
  BY DEF PiInit
<1>2. <<>> \in Seq(Rec) /\ <<>> \in Seq(Told(read, gen)) /\ DOMAIN <<>> = {}
  BY EmptySeq
<1>3. PiTypes
  BY <1>1, <1>2 DEF PiTypes
<1>4. TableInv
  BY <1>1, <1>2 DEF TableInv, Blank
<1>5. report.pc = "idle"
  BY <1>1
<1>6. ReportInv
  BY <1>5 DEF ReportInv, NoAnsweredOrphan
<1> QED BY <1>3, <1>4, <1>6 DEF PiInv

\* The entry of the file is brought up to date, all others stay.
LEMMA EntryKeeps ==
  ASSUME PiInv, resetting = Absent, resetting' = Absent, NEW f \in Files,
         NEW s, read' = [read EXCEPT ![f] = s],
         NEW fs, files' = SetFile(f, fs), Describes(fs, s), IsEntry(fs)
  PROVE  /\ TableInv'
         /\ DOMAIN files' \subseteq Files /\ \A g \in DOMAIN files' : IsEntry(files'[g])
<1>1. /\ DOMAIN files' = DOMAIN files \cup {f} /\ files'[f] = fs
      /\ \A g \in DOMAIN files : g # f => files'[g] = files[g]
  BY DEF SetFile
<1>2. DOMAIN files \subseteq Files /\ \A g \in DOMAIN files : IsEntry(files[g])
  BY DEF PiInv, PiTypes
<1>3. read'[f] = s /\ \A g \in Files : g # f => read'[g] = read[g]
  BY DEF PiInv, PiTypes
<1>4. ASSUME NEW g \in Files
      PROVE  /\ g \in DOMAIN files' => Describes(files'[g], read'[g])
             /\ g \notin DOMAIN files' => Blank(read'[g])
  <2>1. CASE g = f
    BY <1>1, <1>3, <2>1
  <2>2. CASE g # f
    <3>1. g # resetting
      BY PiAssumption
    <3>2. /\ g \in DOMAIN files => Describes(files[g], read[g])
          /\ g \notin DOMAIN files => Blank(read[g])
      BY <3>1 DEF PiInv, TableInv
    <3> QED BY <1>1, <1>3, <2>2, <3>2
  <2> QED BY <2>1, <2>2
<1> QED BY <1>1, <1>2, <1>4 DEF TableInv

LEMMA HandleLineKeeps ==
  ASSUME PiInv, report.pc # "done", NEW f \in Files,
         NEW line \in IF read[f] = <<>> THEN FirstLines ELSE Lines, HandleLine(f, line)
  PROVE  PiInv'
<1>1. line \in Line
  BY PiAssumption
<1>2. PICK fs : fs = FileState(f, line)
  OBVIOUS
<1>3. /\ resetting = Absent
      /\ gen' = gen /\ resetting' = Absent /\ store' = store /\ report' = report
      /\ \E ts \in IF line.ts = Absent THEN Nows ELSE {line.ts} :
           /\ read' = [read EXCEPT ![f] = Append(@, [line |-> line, ts |-> ts, seq |-> made])]
           /\ made' = made \/ made' = made + 1
           /\ \/ line.type = "blank" /\ UNCHANGED <<files, batch>>
              \/ line.type # "blank" /\ fs.bad /\ files' = SetFile(f, fs) /\ UNCHANGED batch
              \/ /\ line.type # "blank" /\ ~fs.bad
                 /\ files' = SetFile(f, Folded(fs, line, ts))
                 /\ batch' = Append(batch, Event(f, line, ts))
  BY <1>2 DEF HandleLine
<1>4. PICK ts \in IF line.ts = Absent THEN Nows ELSE {line.ts} :
        /\ read' = [read EXCEPT ![f] = Append(@, [line |-> line, ts |-> ts, seq |-> made])]
        /\ made' = made \/ made' = made + 1
        /\ \/ line.type = "blank" /\ UNCHANGED <<files, batch>>
           \/ line.type # "blank" /\ fs.bad /\ files' = SetFile(f, fs) /\ UNCHANGED batch
           \/ /\ line.type # "blank" /\ ~fs.bad
              /\ files' = SetFile(f, Folded(fs, line, ts))
              /\ batch' = Append(batch, Event(f, line, ts))
  BY <1>3
<1>5. ts \in Nat
  BY <1>1, <1>4, LineTypes, PiAssumption
<1>6. PICK s : s = read[f]
  OBVIOUS
<1>7. PICK t : t = Append(s, [line |-> line, ts |-> ts, seq |-> made])
  OBVIOUS
<1>8. Grown(t, s, line, ts) /\ Grown(t, read[f], line, ts)
  BY <1>6, <1>7 DEF Grown, PiInv, PiTypes
<1>9. /\ PiTypes /\ TableInv /\ ReportInv /\ read \in [Files -> Seq(Rec)] /\ gen \in [Files -> Nat]
      /\ s \in Seq(Rec)
  BY <1>6 DEF PiInv, PiTypes
<1>10. /\ t \in Seq(Rec) /\ Len(s) \in Nat /\ DOMAIN s = 1..Len(s)
       /\ DOMAIN t = 1..(Len(s) + 1) /\ (\A m \in 1..Len(s) : t[m] = s[m])
       /\ t[Len(s) + 1].line = line
  BY <1>1, <1>5, <1>8, <1>9, AppendFacts
<1>11. read' = [read EXCEPT ![f] = t]
  BY <1>4, <1>6, <1>7
<1>12. /\ read' \in [Files -> Seq(Rec)] /\ read'[f] = t
       /\ \A g \in Files : g # f => read'[g] = read[g]
  BY <1>9, <1>10, <1>11
<1>13. \A c : Answered(s, c) => Answered(t, c)
  <2>1. \A m \in DOMAIN s : m \in DOMAIN t /\ t[m] = s[m]
    BY <1>10
  <2> QED BY <2>1 DEF Answered
<1>14. Further(read, gen, read', gen')
  <2> SUFFICES ASSUME NEW g \in Files
               PROVE  gen[g] <= gen[g] /\ \A c : Answered(read[g], c) => Answered(read'[g], c)
    BY <1>3 DEF Further
  <2>1. gen[g] <= gen[g]
    BY <1>9
  <2> QED BY <1>6, <1>12, <1>13, <2>1
<1>15. ReportInv'
  <2>1. gen' \in [Files -> Nat]
    BY <1>3, <1>9
  <2> QED BY <1>3, <1>9, <1>14, <2>1, ReportStays
<1>16. Told(read, gen) \subseteq Told(read', gen')
  BY <1>3, <1>9, <1>14, KnownStays
<1>17. f # resetting
  BY <1>3, PiAssumption
<1>18. /\ IsEntry(fs)
       /\ line.type = "blank" => /\ f \in DOMAIN files => Describes(files[f], t)
                                 /\ f \notin DOMAIN files => Blank(t)
       /\ line.type # "blank" => /\ fs.bad => Describes(fs, t)
                                 /\ ~fs.bad => Describes(Folded(fs, line, ts), t)
  BY <1>1, <1>2, <1>5, <1>8, <1>9, <1>17, HandleDescribes, Zenon
<1>19. TableInv' /\ DOMAIN files' \subseteq Files /\ \A g \in DOMAIN files' : IsEntry(files'[g])
  <2>1. CASE line.type = "blank" /\ UNCHANGED <<files, batch>>
    <3>1. ASSUME NEW g \in Files
          PROVE  /\ g \in DOMAIN files => Describes(files[g], read'[g])
                 /\ g \notin DOMAIN files => Blank(read'[g])
      <4>1. CASE g = f
        BY <1>12, <1>18, <2>1, <4>1
      <4>2. CASE g # f
        <5>1. g # resetting
          BY <1>3, PiAssumption
        <5> QED BY <1>9, <1>12, <4>2, <5>1 DEF TableInv
      <4> QED BY <4>1, <4>2
    <3>2. TableInv'
      BY <2>1, <3>1 DEF TableInv
    <3> QED BY <1>9, <2>1, <3>2 DEF PiTypes
  <2>2. CASE line.type # "blank" /\ fs.bad /\ files' = SetFile(f, fs)
    BY <1>3, <1>11, <1>18, <2>2, EntryKeeps
  <2>3. CASE line.type # "blank" /\ ~fs.bad /\ files' = SetFile(f, Folded(fs, line, ts))
    <3>1. PICK ff : ff = Folded(fs, line, ts)
      OBVIOUS
    <3>2. IsEntry(ff) /\ Describes(ff, t)
      BY <1>1, <1>18, <2>3, <3>1, FoldedFields
    <3> QED BY <1>3, <1>11, <2>3, <3>1, <3>2, EntryKeeps
  <2> QED BY <1>4, <2>1, <2>2, <2>3
<1>20. batch' \in Seq(Told(read', gen'))
  <2>1. batch \in Seq(Told(read', gen'))
    BY <1>9, <1>16, SeqMonotonic DEF PiTypes
  <2>2. ASSUME batch' = Append(batch, Event(f, line, ts))
        PROVE  batch' \in Seq(Told(read', gen'))
    <3>1. PICK e : e = Event(f, line, ts)
      OBVIOUS
    <3>2. /\ e \in EventType /\ e.file = f /\ e.gen = gen[f]
          /\ e.call # Absent => line.type = "toolResult" /\ e.call = line.call
      BY <1>1, <1>2, <1>5, <1>9, <1>18, <3>1, EventTyped
    <3>3. ASSUME e.call # Absent PROVE Answered(t, e.call)
      <4>1. Len(s) + 1 \in DOMAIN t
        BY <1>10
      <4> QED BY <1>10, <3>2, <3>3, <4>1 DEF Answered
    <3>4. e.gen <= gen[f]
      BY <1>9, <3>2
    <3>5. e \in Told(read', gen')
      BY <1>3, <1>12, <3>2, <3>3, <3>4 DEF Told, Known
    <3> QED BY <2>1, <2>2, <3>1, <3>5, AppendProperties
  <2>3. batch' = batch \/ batch' = Append(batch, Event(f, line, ts))
    BY <1>4
  <2> QED BY <2>1, <2>2, <2>3
<1>21. store' \in Seq(Told(read', gen'))
  BY <1>3, <1>9, <1>16, SeqMonotonic DEF PiTypes
<1>22. PiTypes'
  <2>1. made' \in Nat
    BY <1>4, <1>9 DEF PiTypes
  <2> QED BY <1>3, <1>9, <1>12, <1>19, <1>20, <1>21, <2>1 DEF PiTypes
<1> QED BY <1>15, <1>19, <1>22 DEF PiInv

\* What the cap leaves is a part of the store that ends with it.
LEMMA KeepIs == Keep \in Nat /\ 1 <= Keep /\ Keep <= MaxEvents /\ MaxEvents \in Nat
<1>1. MaxEvents \in Nat /\ 1 <= MaxEvents
  BY PiAssumption
<1>2. PICK k : k = (MaxEvents * 9) \div 10
  OBVIOUS
<1>3. k \in Nat /\ k <= MaxEvents
  BY <1>1, <1>2
<1>4. Keep = IF 1 > k THEN 1 ELSE k
  BY <1>2 DEF Keep, Maximum
<1> QED BY <1>1, <1>3, <1>4

LEMMA TrimmedIs ==
  ASSUME NEW S, NEW s \in Seq(S), Len(s) > MaxEvents
  PROVE  \E cut \in Nat : /\ cut + Keep = Len(s) /\ Trimmed(s) \in Seq(S)
                         /\ DOMAIN Trimmed(s) = 1..Keep
                         /\ \A n \in 1..Keep : Trimmed(s)[n] = s[n + cut]
<1>1. Keep \in Nat /\ 1 <= Keep /\ Keep <= MaxEvents /\ MaxEvents \in Nat /\ Len(s) \in Nat
  BY KeepIs, LenProperties
<1>2. PICK cut : cut = Len(s) - Keep
  OBVIOUS
<1>3. cut \in Nat /\ cut + Keep = Len(s)
  BY <1>1, <1>2
<1>4. PICK w : w = SubSeq(s, cut + 1, Len(s))
  OBVIOUS
<1>5. Trimmed(s) = w
  BY <1>1, <1>2, <1>4 DEF Trimmed
<1>6. cut + 1 \in 1..(Len(s) + 1) /\ Len(s) \in cut..Len(s) /\ (Len(s) - (cut + 1)) + 1 = Keep
  BY <1>1, <1>3
<1>7. \A n \in 1..Keep : n + cut \in 1..Len(s) /\ (cut + 1) + n - 1 = n + cut
  BY <1>1, <1>3
<1>8. w = [n \in 1..Keep |-> s[n + cut]]
  BY <1>3, <1>4, <1>6
<1>9. \A n \in 1..Keep : s[n + cut] \in S
  BY <1>7, ElementOfSeq
<1>10. w \in Seq(S)
  BY <1>1, <1>8, <1>9, IsASeq
<1> QED BY <1>3, <1>5, <1>8, <1>10

LEMMA FlushKeeps ==
  ASSUME PiInv, report.pc # "done", Flush
  PROVE  PiInv'
<1>1. /\ store' = Trimmed(store \o batch) /\ batch' = <<>>
      /\ UNCHANGED <<made, read, old, gen, resetting, files, report>>
  BY DEF Flush
<1>2. PiTypes /\ TableInv /\ ReportInv /\ gen \in [Files -> Nat]
  BY DEF PiInv, PiTypes
<1>3. store' \in Seq(Told(read, gen)) /\ batch' \in Seq(Told(read, gen))
  <2>1. store \in Seq(Told(read, gen)) /\ batch \in Seq(Told(read, gen))
    BY <1>2 DEF PiTypes
  <2>2. PICK s : s = store \o batch
    OBVIOUS
  <2>3. s \in Seq(Told(read, gen))
    BY <2>1, <2>2, ConcatProperties
  <2>4. Trimmed(s) \in Seq(Told(read, gen))
    <3>1. CASE Len(s) > MaxEvents
      BY <2>3, <3>1, TrimmedIs
    <3>2. CASE ~(Len(s) > MaxEvents)
      BY <2>3, <3>2 DEF Trimmed
    <3> QED BY <3>1, <3>2
  <2> QED BY <1>1, <2>2, <2>4, EmptySeq
<1>4. PiTypes'
  BY <1>1, <1>2, <1>3 DEF PiTypes
<1>5. TableInv'
  BY <1>1, <1>2 DEF TableInv
<1>6. ReportInv'
  BY <1>1, <1>2, FurtherRefl, ReportStays
<1> QED BY <1>4, <1>5, <1>6 DEF PiInv

\* A file that starts over: nothing is known of its new generation, and its
\* entry is not looked at until reset.
LEMMA RestartKeeps ==
  ASSUME PiInv, report.pc # "done", NEW f \in Files, Restart(f),
         batch' = batch, files' = files, report' = report,
         store' = store \/ store' = Without(store, f)
  PROVE  PiInv'
<1>1. /\ resetting = Absent /\ resetting' = f /\ made' = made
      /\ read' = [read EXCEPT ![f] = <<>>] /\ gen' = [gen EXCEPT ![f] = @ + 1]
  BY DEF Restart
<1>2. /\ PiTypes /\ TableInv /\ ReportInv
      /\ read \in [Files -> Seq(Rec)] /\ gen \in [Files -> Nat]
  BY DEF PiInv, PiTypes
<1>3. /\ gen' \in [Files -> Nat] /\ gen'[f] = gen[f] + 1
      /\ \A g \in Files : g # f => gen'[g] = gen[g] /\ read'[g] = read[g]
  BY <1>1, <1>2
<1>4. read' \in [Files -> Seq(Rec)] /\ read'[f] = <<>>
  <2>1. <<>> \in Seq(Rec)
    BY EmptySeq
  <2> QED BY <1>1, <1>2, <2>1
<1>5. Further(read, gen, read', gen')
  <2> SUFFICES ASSUME NEW g \in Files
               PROVE  /\ gen[g] <= gen'[g]
                      /\ gen'[g] = gen[g] => \A c : Answered(read[g], c) => Answered(read'[g], c)
    BY DEF Further
  <2>1. gen[g] \in Nat
    BY <1>2
  <2>2. CASE g = f
    <3>1. gen'[g] # gen[g] /\ gen[g] <= gen'[g]
      BY <1>3, <2>1, <2>2
    <3> QED BY <3>1
  <2>3. CASE g # f
    BY <1>3, <2>1, <2>3
  <2> QED BY <2>2, <2>3
<1>6. ReportInv'
  BY <1>2, <1>3, <1>5, ReportStays
<1>7. Told(read, gen) \subseteq Told(read', gen')
  BY <1>2, <1>3, <1>5, KnownStays
<1>8. batch \in Seq(Told(read, gen)) /\ store \in Seq(Told(read, gen))
  BY <1>2 DEF PiTypes
<1>9. store' \in Seq(Told(read, gen))
  <2>1. Without(store, f) \in Seq(Told(read, gen))
    BY <1>8, WithoutKeeps
  <2> QED BY <1>8, <2>1
<1>10. batch' \in Seq(Told(read', gen')) /\ store' \in Seq(Told(read', gen'))
  BY <1>7, <1>8, <1>9, SeqMonotonic
<1>11. PiTypes'
  BY <1>1, <1>2, <1>3, <1>4, <1>10 DEF PiTypes
<1>12. TableInv'
  <2> SUFFICES ASSUME NEW g \in Files, g # f
               PROVE  /\ g \in DOMAIN files => Describes(files[g], read'[g])
                      /\ g \notin DOMAIN files => Blank(read'[g])
    BY <1>1 DEF TableInv
  <2>1. g # resetting /\ read'[g] = read[g]
    BY <1>1, <1>3, PiAssumption
  <2> QED BY <1>2, <2>1 DEF TableInv
<1> QED BY <1>6, <1>11, <1>12 DEF PiInv

LEMMA ResetKeeps ==
  ASSUME PiInv, report.pc # "done", Reset
  PROVE  PiInv'
<1>1. /\ resetting # Absent /\ resetting' = Absent
      /\ files' = [f \in DOMAIN files \ {resetting} |-> files[f]]
      /\ UNCHANGED <<made, read, old, gen, batch, store, report>>
  BY DEF Reset
<1>2. PiTypes /\ TableInv /\ ReportInv /\ gen \in [Files -> Nat]
  BY DEF PiInv, PiTypes
<1>3. /\ DOMAIN files' = DOMAIN files \ {resetting}
      /\ \A f \in DOMAIN files' : files'[f] = files[f]
  BY <1>1
<1>4. PiTypes'
  BY <1>1, <1>2, <1>3 DEF PiTypes
<1>5. TableInv'
  <2> SUFFICES ASSUME NEW f \in Files
               PROVE  /\ f \in DOMAIN files' => Describes(files'[f], read[f])
                      /\ f \notin DOMAIN files' => Blank(read[f])
    BY <1>1 DEF TableInv
  <2>1. CASE f = resetting
    <3>1. read[f] = <<>> /\ DOMAIN <<>> = {}
      BY <1>1, <1>2, <2>1 DEF PiTypes
    <3> QED BY <1>3, <2>1, <3>1 DEF Blank
  <2>2. CASE f # resetting
    BY <1>2, <1>3, <2>2 DEF TableInv
  <2> QED BY <2>1, <2>2
<1>6. ReportInv'
  BY <1>1, <1>2, FurtherRefl, ReportStays
<1> QED BY <1>4, <1>5, <1>6 DEF PiInv

\* The scan sees events of the store, of which everything is known.
LEMMA ScanKeeps ==
  ASSUME PiInv, NEW now \in Nows, Scan(now)
  PROVE  PiInv'
<1>1. UNCHANGED <<made, read, old, gen, resetting, batch, store, files>>
  BY DEF Scan, tailVars
<1>2. PICK S : S = {<<store[i].file, store[i].gen, store[i].call>> : i \in DOMAIN store}
  OBVIOUS
<1>3. PICK r : r = [a \in {store[i].client : i \in DOMAIN store} |-> Scanned(a, now)]
  OBVIOUS
<1>4. PICK t : t = IF batch = <<>> /\ resetting = Absent THEN {Stamp} ELSE {}
  OBVIOUS
<1>5. report' = [pc |-> "scanned", now |-> now, rows |-> r, seen |-> S, stamp |-> t]
  BY <1>2, <1>3, <1>4, Zenon DEF Scan
<1>6. HasSeen(report', S) /\ report'.pc = "scanned"
  BY <1>5 DEF HasSeen
<1>7. SeenKnown(S, read, gen)
  <2>1. \A i \in DOMAIN store : store[i] \in Told(read, gen)
    BY LenProperties, ElementOfSeq DEF PiInv, PiTypes
  <2>2. ASSUME NEW i \in DOMAIN store
        PROVE  \E f \in Files, g \in Nat : \E c :
                 /\ <<store[i].file, store[i].gen, store[i].call>> = <<f, g, c>>
                 /\ Known(read, gen, f, g, c)
    <3>1. /\ store[i].file \in Files /\ store[i].gen \in Nat
          /\ Known(read, gen, store[i].file, store[i].gen, store[i].call)
      BY <2>1 DEF Told, EventType
    <3> QED BY <3>1
  <2> QED BY <1>2, <2>2 DEF SeenKnown
<1>8. ReportInv'
  <2>1. NoAnsweredOrphan'
    BY <1>6 DEF NoAnsweredOrphan
  <2>2. SeenKnown(S, read', gen')
    BY <1>1, <1>7
  <2> QED BY <1>6, <2>1, <2>2 DEF ReportInv
<1>9. PiTypes' /\ TableInv'
  BY <1>1 DEF PiInv, PiTypes, TableInv
<1> QED BY <1>8, <1>9 DEF PiInv

\* A call that the table has as an orphan came after every result of its id
\* that the scan has seen.
LEMMA SeenBeforeCalled ==
  ASSUME PiInv, NEW S, SeenKnown(S, read, gen),
         NEW f \in DOMAIN files, ~files[f].bad, NEW id \in DOMAIN files[f].orphans,
         <<f, gen[f], id>> \in S
  PROVE  \E n, m \in DOMAIN read[f] :
           n < m /\ read[f][n].line.call = id /\ id \in Calls(read[f][m].line)
<1>1. PICK f2, g, call : <<f, gen[f], id>> = <<f2, g, call>> /\ Known(read, gen, f2, g, call)
  BY DEF SeenKnown
<1>2. Known(read, gen, f, gen[f], id)
  BY <1>1
<1>3. f \in Files /\ read[f] \in Seq(Rec)
  BY DEF PiInv, PiTypes
<1>4. id # Absent
  <2>1. PICK a \in Agent, b \in BOOLEAN : \E o, t, c :
          /\ DOMAIN o \subseteq STRING
          /\ files[f] = [agent |-> a, bad |-> b, orphans |-> o, newestTs |-> t, contextTokens |-> c]
    BY DEF PiInv, PiTypes, IsEntry
  <2> QED BY <2>1, PiAssumption
<1>5. ASSUME f # resetting
      PROVE  \E n, m \in DOMAIN read[f] :
               n < m /\ read[f][n].line.call = id /\ id \in Calls(read[f][m].line)
  <2>1. PICK n \in DOMAIN read[f] : read[f][n].line.type = "toolResult" /\ read[f][n].line.call = id
    BY <1>2, <1>4 DEF Known, Answered
  <2>2. Holds(files[f].orphans, read[f])
    BY <1>3, <1>5 DEF PiInv, TableInv, Describes
  <2>3. PICK m \in DOMAIN read[f] : IsWaiting(read[f], m, id)
    BY <2>2 DEF Holds
  <2>4. id \in Calls(read[f][m].line) /\ read[f][m].line.type = "assistant"
    BY <2>3 DEF IsWaiting, Calls
  <2>5. DOMAIN read[f] = 1..Len(read[f]) /\ Len(read[f]) \in Nat
    BY <1>3, LenProperties
  <2>6. ~(n \in (m + 1)..Len(read[f]))
    BY <2>1, <2>3 DEF IsWaiting, Resolved
  <2>7. n # m
    BY <2>1, <2>4
  <2>8. n < m
    BY <2>5, <2>6, <2>7
  <2> QED BY <2>1, <2>4, <2>8
<1>6. CASE f = resetting
  <2>1. resetting # Absent
    BY <1>3, <1>6, PiAssumption
  <2>2. read[f] = <<>>
    BY <1>6, <2>1 DEF PiInv, PiTypes
  <2> QED BY <1>2, <1>4, <2>2 DEF Known, Answered
<1> QED BY <1>5, <1>6

LEMMA ReadTableKeeps ==
  ASSUME PiInv, ReadTable
  PROVE  PiInv'
<1>1. UNCHANGED <<made, read, old, gen, resetting, batch, store, files>>
  BY DEF ReadTable, tailVars
<1>2. PICK S : HasSeen(report, S) /\ SeenKnown(S, read, gen)
  BY DEF PiInv, ReportInv, ReadTable
<1>3. PICK usable : usable = {f \in DOMAIN files : ~files[f].bad}
  OBVIOUS
<1>4. PICK newest : report' = [report EXCEPT !.pc = "done",
             !.rows = [a \in DOMAIN report.rows \cup TableAgents |-> TableRow(a, newest)]]
  BY DEF ReadTable
<1>5. PICK now : now = report.now
  OBVIOUS
<1>6. PICK R : R = [a \in DOMAIN report.rows \cup TableAgents |-> TableRow(a, newest)]
  OBVIOUS
<1>7. report' = [report EXCEPT !.pc = "done", !.rows = R]
  BY <1>4, <1>6
<1>8. ASSUME NEW a \in DOMAIN R, NEW o \in R[a].overdue
      PROVE  \E f \in usable : \E id \in Overdue(f, now) : o = <<f, gen[f], id>>
  <2>1. R[a].overdue = TableRow(a, newest).overdue
    BY <1>6
  <2>2. TableRow(a, newest).overdue
          = UNION {{<<f, gen[f], id>> : id \in Overdue(f, now)} : f \in FilesOf(a)}
    BY <1>5 DEF TableRow
  <2>3. PICK f \in FilesOf(a) : o \in {<<f, gen[f], id>> : id \in Overdue(f, now)}
    BY <2>1, <2>2
  <2> QED BY <1>3, <2>3 DEF FilesOf, Usable
<1>9. report'.pc = "done" /\ report'.rows = R /\ report'.seen = S
  <2>1. PICK n, r, t : report = [pc |-> "scanned", now |-> n, rows |-> r, seen |-> S, stamp |-> t]
    BY <1>2 DEF HasSeen
  <2> QED BY <1>7, <2>1
<1>10. ASSUME NEW a \in DOMAIN R, NEW o \in R[a].overdue \cap S
      PROVE  \E n, m \in DOMAIN read[o[1]] :
               n < m /\ read[o[1]][n].line.call = o[3] /\ o[3] \in Calls(read[o[1]][m].line)
  <2>1. PICK f \in usable : \E id \in Overdue(f, now) : o = <<f, gen[f], id>>
    BY <1>8
  <2>2. PICK id \in Overdue(f, now) : o = <<f, gen[f], id>>
    BY <2>1
  <2>3. f \in DOMAIN files /\ ~files[f].bad /\ id \in DOMAIN files[f].orphans
    BY <1>3, <2>2 DEF Overdue
  <2>4. o[1] = f /\ o[3] = id /\ <<f, gen[f], id>> \in S
    BY <2>2
  <2> QED BY <1>2, <2>3, <2>4, SeenBeforeCalled
<1>11. NoAnsweredOrphan'
  BY <1>1, <1>9, <1>10 DEF NoAnsweredOrphan
<1>12. ReportInv'
  BY <1>9, <1>11 DEF ReportInv
<1>13. PiTypes' /\ TableInv'
  BY <1>1 DEF PiInv, PiTypes, TableInv
<1> QED BY <1>12, <1>13 DEF PiInv

LEMMA PiStep ==
  ASSUME PiInv, [PiNext]_piVars
  PROVE  PiInv'
<1>1. ASSUME PiNext PROVE PiInv'
  <2>1. report.pc # "done"
    BY <1>1 DEF PiNext
  <2>2. ASSUME NEW f \in Files, NEW line \in IF read[f] = <<>> THEN FirstLines ELSE Lines,
               HandleLine(f, line)
        PROVE  PiInv'
    BY <2>1, <2>2, HandleLineKeeps
  <2>3. CASE Flush
    BY <2>1, <2>3, FlushKeeps
  <2>4. CASE Reset
    BY <2>1, <2>4, ResetKeeps
  <2>5. ASSUME NEW f \in Files, Rotate(f) PROVE PiInv'
    BY <2>1, <2>5, RestartKeeps DEF Rotate
  <2>6. ASSUME NEW f \in Files, Truncate(f) PROVE PiInv'
    BY <2>1, <2>6, RestartKeeps DEF Truncate
  <2>7. ASSUME NEW now \in Nows, Scan(now) PROVE PiInv'
    BY <2>7, ScanKeeps
  <2>8. CASE ReadTable
    BY <2>8, ReadTableKeeps
  <2> QED BY <1>1, <2>2, <2>3, <2>4, <2>5, <2>6, <2>7, <2>8, Zenon DEF PiNext
<1>2. CASE UNCHANGED piVars
  BY <1>2 DEF piVars, tailVars, PiInv, PiTypes, TableInv, ReportInv, NoAnsweredOrphan
<1> QED BY <1>1, <1>2

------------------------------------------------------------------------------
(***************************************************************************)
(* Theorems.                                                               *)
(***************************************************************************)
\* The side table says of each file what its lines say, except between a new
\* start and reset; what a report has seen is among the lines (handle, reset,
\* Agents).
THEOREM PiInvariant == PiSpec => []PiInv
BY PiInitial, PiStep, PTL DEF PiSpec

LEMMA TableAnswers ==
  ASSUME PiInv
  PROVE  OrphansAreUnanswered
<1> SUFFICES ASSUME NEW f \in Files \ {resetting}
             PROVE  LET orphans == IF f \in DOMAIN files THEN files[f].orphans ELSE <<>>
                    IN  IF AgentOf(f) = Absent
                          THEN orphans = <<>>
                          ELSE {<<id, orphans[id]>> : id \in DOMAIN orphans}
                                 = {<<w[2], read[f][w[1]].ts>> : w \in Waiting(read[f])}
  BY DEF OrphansAreUnanswered
<1>1. AgentOf(f) = AgentIn(read[f])
  BY DEF AgentOf, AgentIn
<1>2. CASE f \in DOMAIN files
  <2>1. Describes(files[f], read[f])
    BY <1>2 DEF PiInv, TableInv
  <2>2. CASE AgentOf(f) = Absent
    BY <1>1, <1>2, <2>1, <2>2 DEF Describes
  <2>3. CASE AgentOf(f) # Absent
    <3>1. Holds(files[f].orphans, read[f])
      BY <1>1, <2>1, <2>3 DEF Describes
    <3>2. {<<id, files[f].orphans[id]>> : id \in DOMAIN files[f].orphans}
            = {<<w[2], read[f][w[1]].ts>> : w \in Waiting(read[f])}
      BY <3>1, HoldsIsEqual
    <3> QED BY <1>2, <2>3, <3>2
  <2> QED BY <2>2, <2>3
<1>3. CASE f \notin DOMAIN files
  <2>1. Blank(read[f]) /\ read[f] \in Seq(Rec)
    BY <1>3 DEF PiInv, PiTypes, TableInv
  <2>2. AgentOf(f) = Absent
    BY <1>1, <2>1, BlankHasNoAgent
  <2> QED BY <1>3, <2>2
<1> QED BY <1>2, <1>3

\* A file's orphans are exactly the calls that no line has answered, for any
\* files and lines (handle, reset).
THEOREM PiOrphansAreUnanswered == PiSpec => []OrphansAreUnanswered
BY PiInvariant, TableAnswers, PTL

\* A report counts no call as an orphan whose result it has counted, unless
\* the id was called again: for any interleaving of Agents with the tailer
\* (Agents, handle).
THEOREM PiNoAnsweredOrphan == PiSpec => []NoAnsweredOrphan
BY PiInvariant, PTL DEF PiInv, ReportInv

------------------------------------------------------------------------------
(***************************************************************************)
(* Quiet reports: what the events and the entries say of the lines.        *)
(***************************************************************************)
ToldLine == [line : {l \in Line : IsFiniteSet(l.calls)}, ts : Nat, seq : Nat, agent : Agent]

\* o are the lines of replaced files, rd those read.
Past(o, rd) ==
  /\ o \in [Files -> Seq(ToldLine)] /\ rd \in [Files -> Seq(Rec)]
  /\ \A f \in Files : \A n \in DOMAIN rd[f] : IsFiniteSet(rd[f][n].line.calls)

\* The lines that events are made of.
Counted(H) == {i \in Items(H) : At(H, i).agent # Absent /\ At(H, i).line.type # "blank"}

\* The event e is that of the line x.
Says(e, x) ==
  /\ e.ts = x.ts /\ e.client = x.agent /\ e.kind = Kind(x.line) /\ e.level = Level(x.line)
  /\ e.fallback <=> x.line.type = "router" /\ x.line.failed
  /\ e.toolCalls = IF x.line.type = "assistant" THEN Cardinality(x.line.calls) ELSE 0
  /\ e.cost = IF x.line.type \in {"assistant", "compaction", "usage"} THEN x.line.cost ELSE Absent
  /\ e.costDim = IF x.line.type \in {"assistant", "usage"} THEN x.line.model ELSE ""

OneToOne(b, D, C) ==
  /\ b \in [D -> C]
  /\ \A x, y \in D : b[x] = b[y] => x = y
  /\ \A c \in C : \E x \in D : b[x] = c

\* b finds the line of each event of s, and its file.
Finds(b, s, H) == \A n \in DOMAIN s : Says(s[n], At(H, b[n])) /\ s[n].file = b[n][1]

\* Those whose events come at p or later.
Left(H, p) == {i \in Counted(H) : At(H, i).seq >= p}

\* The events of s stand in the order of their lines, which come before q.
InOrder(b, s, H, q) ==
  /\ \A n \in DOMAIN s : At(H, b[n]).seq < q
  /\ \A m, n \in DOMAIN s : m < n => At(H, b[m]).seq < At(H, b[n]).seq

\* There is exactly one event in s for each line of H that makes one at p or later.
Matched(b, s, H, p, q) ==
  OneToOne(b, DOMAIN s, Left(H, p)) /\ Finds(b, s, H) /\ InOrder(b, s, H, q)

Tells(s, H, p, q) == \E b : Matched(b, s, H, p, q)

\* v is the newest time in the lines s, c the context of their last turn.
IsNewest(v, s) ==
  /\ v \in Nat
  /\ v = 0 \/ \E n \in DOMAIN s : s[n].line.type # "blank" /\ s[n].ts = v
  /\ \A n \in DOMAIN s : s[n].line.type # "blank" => s[n].ts <= v

IsContext(c, s) ==
  \/ Turns(s) = {} /\ c = 0
  \/ \E n \in Turns(s) : (\A m \in Turns(s) : m <= n) /\ c = s[n].line.tokens

EntryTells(fs, s) ==
  IsNewest(fs.newestTs, s) /\ IsContext(fs.contextTokens, s) /\ IsFiniteSet(DOMAIN fs.orphans)

EntriesTell ==
  \A f \in Files \ {resetting} :
    f \in DOMAIN files /\ ~files[f].bad => EntryTells(files[f], read[f])

\* The tailer was at st before it is at now.
Before(st, now) ==
  \A f \in Files : \/ st[f][1] < now[f][1]
                   \/ st[f][1] = now[f][1] /\ st[f][2] <= now[f][2]

Stamps == [Files -> Nat \X Nat]

ScanOf(now) == [a \in {store[i].client : i \in DOMAIN store} |-> Scanned(a, now)]

\* Between the halves of a report in which the tailer has done nothing, the
\* scan is that of the store, and nothing is under way.
ScanFresh ==
  report.pc = "scanned" =>
    \E now \in Nows : \E rows, seen, stamp :
      /\ report = [pc |-> "scanned", now |-> now, rows |-> rows, seen |-> seen, stamp |-> stamp]
      /\ stamp \subseteq Stamps /\ \A st \in stamp : Before(st, Stamp)
      /\ Stamp \in stamp => batch = <<>> /\ resetting = Absent /\ rows = ScanOf(now)

\* There is exactly one event for each line from p on, where p is what the cap
\* has left.
StoreTells == \E p \in 0..made : MayStart(p) /\ Tells(store \o batch, History, p, made)

QuietInv ==
  /\ Past(old, read)
  /\ StoreTells
  /\ EntriesTell
  /\ ScanFresh
  /\ QuietReport

\* Taken, of a file's lines.
TakenOf(s, n) == [line |-> s[n].line, ts |-> s[n].ts, seq |-> s[n].seq, agent |-> AgentIn(s)]

TakenIn(s) == [n \in DOMAIN s |-> TakenOf(s, n)]

LEMMA AgentInType ==
  ASSUME NEW s \in Seq(Rec) PROVE AgentIn(s) \in Agent
<1>1. CASE s # <<>>
  <2>1. 1 \in 1..Len(s)
    BY <1>1, EmptySeq
  <2>2. s[1] \in Rec
    BY <2>1, ElementOfSeq
  <2>3. s[1].line.cwd \in DOMAIN Base \cup {Absent}
    BY <2>2, LineTypes DEF Rec
  <2> QED BY <2>3 DEF AgentIn, Agent
<1>2. CASE s = <<>>
  BY <1>2 DEF AgentIn, Agent
<1> QED BY <1>1, <1>2

LEMMA TakenInType ==
  ASSUME NEW s \in Seq(Rec), \A n \in DOMAIN s : IsFiniteSet(s[n].line.calls)
  PROVE  /\ TakenIn(s) \in Seq(ToldLine) /\ Len(TakenIn(s)) = Len(s) /\ DOMAIN TakenIn(s) = DOMAIN s
         /\ \A n \in DOMAIN s : /\ TakenIn(s)[n].line = s[n].line /\ TakenIn(s)[n].ts = s[n].ts
                                /\ TakenIn(s)[n].agent = AgentIn(s)
<1> DEFINE n == Len(s)
           e(m) == [line |-> s[m].line, ts |-> s[m].ts, seq |-> s[m].seq, agent |-> AgentIn(s)]
<1>1. n \in Nat /\ DOMAIN s = 1..n
  BY LenProperties
<1>2. \A m \in 1..n : e(m) \in ToldLine
  <2> SUFFICES ASSUME NEW m \in 1..n PROVE e(m) \in ToldLine
    OBVIOUS
  <2>1. s[m] \in Rec /\ IsFiniteSet(s[m].line.calls)
    BY <1>1, ElementOfSeq
  <2>2. AgentIn(s) \in Agent
    BY AgentInType
  <2> QED BY <2>1, <2>2 DEF Rec, ToldLine
<1>3. TakenIn(s) = [m \in 1..n |-> e(m)]
  BY <1>1 DEF TakenIn, TakenOf
<1>4. [m \in 1..n |-> e(m)] \in Seq(ToldLine)
  <2> HIDE DEF e, n
  <2> QED BY <1>1, <1>2, IsASeq
<1>5. DOMAIN TakenIn(s) = 1..n
  BY <1>3
<1>6. Len(TakenIn(s)) = n
  BY <1>1, <1>3, <1>4, <1>5, LenProperties
<1> QED BY <1>1, <1>3, <1>4, <1>5, <1>6

\* History, of the lines of replaced files and those read.
HistoryOf(o, rd) == [f \in Files |-> o[f] \o TakenIn(rd[f])]

LEMMA HistoryIs ==
  ASSUME NEW o, NEW rd, Past(o, rd)
  PROVE  /\ HistoryOf(o, rd) \in [Files -> Seq(ToldLine)]
         /\ \A f \in Files : /\ TakenIn(rd[f]) \in Seq(ToldLine) /\ o[f] \in Seq(ToldLine)
                             /\ HistoryOf(o, rd)[f] = o[f] \o TakenIn(rd[f])
<1>1. ASSUME NEW f \in Files
      PROVE  /\ TakenIn(rd[f]) \in Seq(ToldLine) /\ o[f] \in Seq(ToldLine)
             /\ o[f] \o TakenIn(rd[f]) \in Seq(ToldLine)
  <2>1. rd[f] \in Seq(Rec) /\ \A n \in DOMAIN rd[f] : IsFiniteSet(rd[f][n].line.calls)
    BY DEF Past
  <2>2. TakenIn(rd[f]) \in Seq(ToldLine) /\ o[f] \in Seq(ToldLine)
    BY <2>1, TakenInType DEF Past
  <2> QED BY <2>2, ConcatProperties
<1> QED BY <1>1 DEF HistoryOf

LEMMA HistoryNow == History = HistoryOf(old, read)
BY DEF History, HistoryOf, Taken, TakenIn, TakenOf, AgentOf, AgentIn

LEMMA ConcatAppend ==
  ASSUME NEW S, NEW s \in Seq(S), NEW t \in Seq(S), NEW e \in S
  PROVE  s \o Append(t, e) = Append(s \o t, e)
<1>1. Append(t, e) = t \o <<e>> /\ Append(s \o t, e) = (s \o t) \o <<e>>
  BY ConcatProperties, AppendIsConcat
<1>2. <<e>> \in Seq(S)
  OBVIOUS
<1> QED BY <1>1, <1>2, ConcatAssociative

\* The line as it is read, and as it is taken of a file of agent a.
LineAt(line, ts, q) == [line |-> line, ts |-> ts, seq |-> q]

Of(line, ts, q, a) == [line |-> line, ts |-> ts, seq |-> q, agent |-> a]

LEMMA TakenGrows ==
  ASSUME NEW s \in Seq(Rec), \A n \in DOMAIN s : IsFiniteSet(s[n].line.calls),
         NEW line \in Line, IsFiniteSet(line.calls), NEW ts \in Nat, NEW q \in Nat,
         NEW t, t = Append(s, LineAt(line, ts, q))
  PROVE  /\ Grown(t, s, line, ts)
         /\ Of(line, ts, q, AgentIn(t)) \in ToldLine
         /\ TakenIn(t) = Append(TakenIn(s), Of(line, ts, q, AgentIn(t)))
         /\ \A n \in DOMAIN t : IsFiniteSet(t[n].line.calls)
<1> DEFINE x == Of(line, ts, q, AgentIn(t))
           y == LineAt(line, ts, q)
           u == Append(TakenIn(s), x)
<1>0. Grown(t, s, line, ts)
  BY DEF Grown, LineAt
<1>10. y \in Rec /\ y.line = line /\ y.ts = ts /\ y.seq = q /\ t = Append(s, y)
  BY DEF Rec, LineAt
<1> HIDE DEF y
<1>1. /\ t \in Seq(Rec) /\ Len(s) \in Nat /\ DOMAIN s = 1..Len(s)
      /\ Len(t) = Len(s) + 1 /\ DOMAIN t = 1..(Len(s) + 1)
      /\ \A m \in 1..Len(s) : t[m] = s[m]
      /\ t[Len(s) + 1].line = line /\ t[Len(s) + 1].ts = ts /\ t[Len(s) + 1].seq = q
  <2>1. /\ t \in Seq(Rec) /\ Len(t) = Len(s) + 1 /\ t[Len(s) + 1] = y
        /\ \A m \in 1..Len(s) : t[m] = s[m]
    BY <1>10, AppendProperties
  <2>2. Len(s) \in Nat /\ DOMAIN s = 1..Len(s) /\ DOMAIN t = 1..Len(t)
    BY <2>1, LenProperties
  <2> QED BY <1>10, <2>1, <2>2
<1>2. \A n \in DOMAIN t : IsFiniteSet(t[n].line.calls)
  <2> SUFFICES ASSUME NEW n \in 1..(Len(s) + 1) PROVE IsFiniteSet(t[n].line.calls)
    BY <1>1
  <2>1. n \in 1..Len(s) \/ n = Len(s) + 1
    BY <1>1
  <2> QED BY <1>1, <2>1
<1>3. /\ TakenIn(t) \in Seq(ToldLine) /\ Len(TakenIn(t)) = Len(t)
      /\ \A n \in DOMAIN t : TakenIn(t)[n] = TakenOf(t, n)
  <2>1. \A n \in DOMAIN t : TakenIn(t)[n] = TakenOf(t, n)
    BY DEF TakenIn, TakenOf
  <2> QED BY <1>1, <1>2, <2>1, TakenInType
<1>4. /\ TakenIn(s) \in Seq(ToldLine) /\ Len(TakenIn(s)) = Len(s)
      /\ \A n \in DOMAIN s : TakenIn(s)[n] = TakenOf(s, n)
  <2>1. \A n \in DOMAIN s : TakenIn(s)[n] = TakenOf(s, n)
    BY DEF TakenIn, TakenOf
  <2> QED BY <2>1, TakenInType
<1>5. x \in ToldLine
  <2>1. AgentIn(t) \in Agent
    BY <1>1, AgentInType
  <2> QED BY <2>1 DEF ToldLine, Of
<1>6. /\ u \in Seq(ToldLine) /\ Len(u) = Len(s) + 1 /\ u[Len(s) + 1] = x
      /\ \A n \in 1..Len(s) : u[n] = TakenIn(s)[n]
  <2> HIDE DEF x
  <2> QED BY <1>4, <1>5, AppendProperties
<1>7. ASSUME NEW n \in 1..Len(s) PROVE TakenIn(t)[n] = u[n]
  <2>1. s # <<>>
    BY <1>1, <1>7, EmptySeq
  <2>2. AgentIn(t) = AgentIn(s)
    BY <1>0, <2>1, AgentAppend
  <2>3. n \in DOMAIN t /\ n \in DOMAIN s /\ t[n] = s[n]
    BY <1>1
  <2>4. TakenIn(t)[n] = TakenIn(s)[n]
    BY <1>3, <1>4, <2>2, <2>3 DEF TakenOf
  <2> HIDE DEF u
  <2> QED BY <1>6, <2>4
<1>8. TakenIn(t)[Len(s) + 1] = u[Len(s) + 1]
  <2>1. Len(s) + 1 \in DOMAIN t
    BY <1>1
  <2>2. TakenIn(t)[Len(s) + 1] = x
    BY <1>1, <1>3, <2>1 DEF TakenOf, Of
  <2> HIDE DEF u, x
  <2> QED BY <1>6, <2>2
<1>9. TakenIn(t) = u
  <2> HIDE DEF u, x
  <2>1. \A n \in 1..Len(TakenIn(t)) : n \in 1..Len(s) \/ n = Len(s) + 1
    BY <1>1, <1>3
  <2>2. Len(TakenIn(t)) = Len(u)
    BY <1>1, <1>3, <1>6
  <2>3. \A n \in 1..Len(TakenIn(t)) : TakenIn(t)[n] = u[n]
    BY <1>7, <1>8, <2>1
  <2> QED BY <1>3, <1>6, <2>2, <2>3, SeqEqual
<1> QED BY <1>0, <1>2, <1>5, <1>9

LEMMA ItemIs ==
  ASSUME NEW H, NEW i
  PROVE  i \in Items(H) <=> \E f \in Files : \E n \in DOMAIN H[f] : i = <<f, n>>
<1>1. ASSUME NEW f \in Files, NEW n \in DOMAIN H[f], i = <<f, n>> PROVE i \in Items(H)
  <2>1. i \in {<<f, m>> : m \in DOMAIN H[f]}
    BY <1>1
  <2>2. {<<f, m>> : m \in DOMAIN H[f]} \in {{<<g, m>> : m \in DOMAIN H[g]} : g \in Files}
    OBVIOUS
  <2> QED BY <2>1, <2>2, Zenon DEF Items
<1>2. ASSUME i \in Items(H) PROVE \E f \in Files : \E n \in DOMAIN H[f] : i = <<f, n>>
  <2>1. PICK f \in Files : i \in {<<f, m>> : m \in DOMAIN H[f]}
    BY <1>2 DEF Items
  <2> QED BY <2>1
<1> QED BY <1>1, <1>2

LEMMA AtTold ==
  ASSUME NEW H \in [Files -> Seq(ToldLine)], NEW i \in Items(H)
  PROVE  /\ At(H, i) \in ToldLine /\ At(H, i).line \in Line /\ IsFiniteSet(At(H, i).line.calls)
         /\ At(H, i).ts \in Nat
<1>1. PICK f \in Files : \E n \in DOMAIN H[f] : i = <<f, n>>
  BY ItemIs
<1>2. PICK n \in DOMAIN H[f] : i = <<f, n>>
  BY <1>1
<1>3. H[f] \in Seq(ToldLine)
  OBVIOUS
<1>4. H[f][n] \in ToldLine
  BY <1>3, LenProperties, ElementOfSeq
<1>5. At(H, i) = H[f][n]
  BY <1>2 DEF At
<1> QED BY <1>4, <1>5 DEF ToldLine

\* K is H with the line x added to those of file f.
Extended(K, H, f, x) == K = [H EXCEPT ![f] = Append(H[f], x)]

LEMMA CountedGrows ==
  ASSUME NEW H \in [Files -> Seq(ToldLine)], NEW f \in Files, NEW x \in ToldLine,
         NEW K, Extended(K, H, f, x),
         NEW new, new = <<f, Len(H[f]) + 1>>, NEW p \in Nat
  PROVE  /\ x.agent # Absent /\ x.line.type # "blank" /\ x.seq >= p
              => Left(K, p) = Left(H, p) \cup {new}
         /\ x.agent = Absent \/ x.line.type = "blank" => Left(K, p) = Left(H, p)
         /\ new \notin Left(H, p) /\ At(K, new) = x
         /\ \A i \in Left(H, p) : At(K, i) = At(H, i)
<1> DEFINE n == Len(H[f])
<1>1. H[f] \in Seq(ToldLine) /\ n \in Nat /\ DOMAIN H[f] = 1..n
  BY LenProperties
<1>2. /\ Append(H[f], x) \in Seq(ToldLine) /\ Len(Append(H[f], x)) = n + 1
      /\ \A m \in 1..n : Append(H[f], x)[m] = H[f][m]
      /\ Append(H[f], x)[n + 1] = x
  BY <1>1, AppendProperties
<1>3. DOMAIN Append(H[f], x) = 1..(n + 1)
  BY <1>2, LenProperties
<1>4. /\ K[f] = Append(H[f], x) /\ \A g \in Files : g # f => K[g] = H[g]
  BY DEF Extended
<1>5. new = <<f, n + 1>> /\ new[1] = f /\ new[2] = n + 1
  OBVIOUS
<1> HIDE DEF n
<1>6. new \notin Items(H)
  <2>1. ~(n + 1 \in 1..n)
    BY <1>1
  <2> QED BY <1>1, <1>5, <2>1, ItemIs
<1>7. At(K, new) = x
  BY <1>2, <1>4, <1>5 DEF At
<1>8. ASSUME NEW i \in Items(H) PROVE i \in Items(K) /\ At(K, i) = At(H, i)
  <2>0. PICK g \in Files : \E m \in DOMAIN H[g] : i = <<g, m>>
    BY <1>8, ItemIs
  <2>1. PICK m \in DOMAIN H[g] : i = <<g, m>>
    BY <2>0
  <2>2. m \in DOMAIN K[g] /\ K[g][m] = H[g][m]
    <3>1. CASE g = f
      <4>1. m \in 1..n /\ m \in 1..(n + 1)
        BY <1>1, <2>1, <3>1
      <4> QED BY <1>2, <1>3, <1>4, <3>1, <4>1
    <3>2. CASE g # f
      BY <1>4, <2>1, <3>2
    <3> QED BY <3>1, <3>2
  <2>3. i \in Items(K)
    BY <2>1, <2>2, ItemIs
  <2> QED BY <2>1, <2>2, <2>3 DEF At
<1>9. new \in Items(K)
  <2>1. n + 1 \in 1..(n + 1)
    BY <1>1
  <2> QED BY <1>3, <1>4, <1>5, <2>1, ItemIs
<1>10. ASSUME NEW i \in Items(K), i # new PROVE i \in Items(H)
  <2>0. PICK g \in Files : \E m \in DOMAIN K[g] : i = <<g, m>>
    <3>1. i \in Items(K)
      BY <1>10
    <3> QED BY <3>1, ItemIs
  <2>1. PICK m \in DOMAIN K[g] : i = <<g, m>>
    BY <2>0
  <2>2. m \in DOMAIN H[g]
    <3>1. CASE g = f
      <4>1. m \in 1..(n + 1) /\ m # n + 1
        BY <1>3, <1>4, <1>5, <1>10, <2>1, <3>1
      <4> QED BY <1>1, <3>1, <4>1
    <3>2. CASE g # f
      BY <1>4, <2>1, <3>2
    <3> QED BY <3>1, <3>2
  <2> QED BY <2>1, <2>2, ItemIs
<1>11. ASSUME NEW i
       PROVE  i \in Left(K, p) <=>
                \/ i \in Left(H, p)
                \/ i = new /\ x.agent # Absent /\ x.line.type # "blank" /\ x.seq >= p
  <2>1. CASE i = new
    BY <1>6, <1>7, <1>9, <2>1 DEF Left, Counted
  <2>2. CASE i # new
    BY <1>8, <1>10, <2>2 DEF Left, Counted
  <2> QED BY <2>1, <2>2
<1>12. Left(H, p) \subseteq Items(H)
  BY DEF Left, Counted
<1> QED BY <1>6, <1>7, <1>8, <1>11, <1>12

\* A line without an agent, or blank, makes no event.
LEMMA NoEventTells ==
  ASSUME NEW H \in [Files -> Seq(ToldLine)], NEW f \in Files, NEW x \in ToldLine,
         NEW K, Extended(K, H, f, x), NEW p \in Nat, NEW q \in Nat,
         NEW s, Tells(s, H, p, q), x.agent = Absent \/ x.line.type = "blank"
  PROVE  Tells(s, K, p, q)
<1>1. PICK new : new = <<f, Len(H[f]) + 1>>
  OBVIOUS
<1>2. Left(K, p) = Left(H, p) /\ \A i \in Left(H, p) : At(K, i) = At(H, i)
  BY <1>1, CountedGrows
<1>3. PICK b : OneToOne(b, DOMAIN s, Left(H, p)) /\ Finds(b, s, H) /\ InOrder(b, s, H, q)
  BY DEF Tells, Matched
<1>4. \A n \in DOMAIN s : b[n] \in Left(H, p)
  BY <1>3 DEF OneToOne
<1>5. OneToOne(b, DOMAIN s, Left(K, p)) /\ Finds(b, s, K)
  BY <1>2, <1>3, <1>4 DEF Finds
<1>6. InOrder(b, s, K, q)
  BY <1>2, <1>3, <1>4 DEF InOrder
<1> QED BY <1>5, <1>6 DEF Tells, Matched

\* Any other makes one.
LEMMA EventTells ==
  ASSUME NEW H \in [Files -> Seq(ToldLine)], NEW f \in Files, NEW x \in ToldLine,
         NEW K, Extended(K, H, f, x),
         NEW V, NEW s \in Seq(V), NEW p \in Nat, NEW q \in Nat, p <= q, Tells(s, H, p, q),
         x.agent # Absent, x.line.type # "blank", x.seq = q,
         NEW e \in V, Says(e, x), e.file = f
  PROVE  Tells(Append(s, e), K, p, q + 1)
<1>1. PICK new : new = <<f, Len(H[f]) + 1>>
  OBVIOUS
<1>2. /\ Left(K, p) = Left(H, p) \cup {new} /\ new \notin Left(H, p) /\ At(K, new) = x
      /\ \A i \in Left(H, p) : At(K, i) = At(H, i)
  <2>1. x.seq >= p
    OBVIOUS
  <2> QED BY <1>1, <2>1, CountedGrows
<1>3. PICK b : OneToOne(b, DOMAIN s, Left(H, p)) /\ Finds(b, s, H) /\ InOrder(b, s, H, q)
  BY DEF Tells, Matched
<1>4. PICK n \in Nat : n = Len(s) /\ DOMAIN s = 1..n
  BY LenProperties
<1>5. PICK u : u = Append(s, e)
  OBVIOUS
<1>6. DOMAIN u = 1..(n + 1) /\ (\A m \in 1..n : u[m] = s[m]) /\ u[n + 1] = e
  <2>1. /\ u \in Seq(V) /\ Len(u) = n + 1 /\ (\A m \in 1..n : u[m] = s[m]) /\ u[n + 1] = e
    BY <1>4, <1>5, AppendProperties
  <2> QED BY <2>1, LenProperties
<1> DEFINE c == [m \in 1..(n + 1) |-> IF m = n + 1 THEN new ELSE b[m]]
<1>7. /\ \A m \in 1..n : m \in 1..(n + 1) /\ m # n + 1
      /\ \A m \in 1..(n + 1) : m \in 1..n \/ m = n + 1
  OBVIOUS
<1>8. /\ \A m \in 1..n : b[m] \in Left(H, p)
      /\ \A m, k \in 1..n : b[m] = b[k] => m = k
      /\ \A i \in Left(H, p) : \E m \in 1..n : b[m] = i
  BY <1>3, <1>4 DEF OneToOne
<1>9. c[n + 1] = new /\ \A m \in 1..n : c[m] = b[m]
  BY <1>7
<1>10. c \in [1..(n + 1) -> Left(K, p)]
  BY <1>2, <1>7, <1>8
<1> HIDE DEF c
<1>11. OneToOne(c, DOMAIN u, Left(K, p))
  <2>1. ASSUME NEW m \in 1..(n + 1), NEW k \in 1..(n + 1), c[m] = c[k] PROVE m = k
    <3>1. \A j \in 1..n : c[j] = b[j] /\ c[j] # c[n + 1]
      BY <1>2, <1>8, <1>9
    <3>2. CASE m \in 1..n /\ k \in 1..n
      <4>1. b[m] = b[k]
        BY <2>1, <3>1, <3>2
      <4> QED BY <1>8, <3>2, <4>1
    <3> QED BY <1>7, <2>1, <3>1, <3>2
  <2>2. ASSUME NEW i \in Left(K, p) PROVE \E m \in 1..(n + 1) : c[m] = i
    <3>1. CASE i = new
      <4>1. n + 1 \in 1..(n + 1)
        OBVIOUS
      <4> QED BY <1>9, <3>1, <4>1
    <3>2. CASE i \in Left(H, p)
      BY <1>7, <1>8, <1>9, <3>2
    <3> QED BY <1>2, <3>1, <3>2
  <2> QED BY <1>6, <1>10, <2>1, <2>2 DEF OneToOne
<1>12. Finds(c, u, K)
  <2> SUFFICES ASSUME NEW m \in 1..(n + 1)
               PROVE  Says(u[m], At(K, c[m])) /\ u[m].file = c[m][1]
    BY <1>6 DEF Finds
  <2>1. CASE m = n + 1
    <3>1. u[m] = e /\ At(K, c[m]) = x /\ c[m] = new
      BY <1>2, <1>6, <1>9, <2>1
    <3>2. new[1] = f
      BY <1>1
    <3> QED BY <3>1, <3>2
  <2>2. CASE m \in 1..n
    <3>1. u[m] = s[m] /\ c[m] = b[m] /\ At(K, b[m]) = At(H, b[m])
      BY <1>2, <1>6, <1>8, <1>9, <2>2
    <3>2. Says(s[m], At(H, b[m])) /\ s[m].file = b[m][1]
      BY <1>3, <1>4, <2>2 DEF Finds
    <3> QED BY <3>1, <3>2
  <2> QED BY <1>7, <2>1, <2>2
<1>13. InOrder(c, u, K, q + 1)
  <2>1. At(K, c[n + 1]).seq = q
    BY <1>2, <1>9
  <2>2. ASSUME NEW m \in 1..n
        PROVE  /\ At(K, c[m]).seq = At(H, b[m]).seq
               /\ At(H, b[m]).seq \in Nat /\ At(H, b[m]).seq < q
    <3>1. b[m] \in Left(H, p) /\ c[m] = b[m] /\ At(K, b[m]) = At(H, b[m])
      BY <1>2, <1>8, <1>9
    <3>2. At(H, b[m]) \in ToldLine
      <4>1. b[m] \in Items(H)
        BY <3>1 DEF Left, Counted
      <4> QED BY <4>1, AtTold
    <3> QED BY <1>3, <1>4, <3>1, <3>2 DEF InOrder, ToldLine
  <2>3. \A m, k \in 1..n : m < k => At(H, b[m]).seq < At(H, b[k]).seq
    BY <1>3, <1>4 DEF InOrder
  <2>4. ASSUME NEW m \in 1..(n + 1) PROVE At(K, c[m]).seq < q + 1
    BY <1>7, <2>1, <2>2
  <2>5. ASSUME NEW m \in 1..(n + 1), NEW k \in 1..(n + 1), m < k
        PROVE  At(K, c[m]).seq < At(K, c[k]).seq
    <3>1. m \in 1..n
      BY <2>5
    <3>2. CASE k = n + 1
      BY <2>1, <2>2, <3>1, <3>2
    <3>3. CASE k \in 1..n
      BY <2>2, <2>3, <2>5, <3>1, <3>3
    <3> QED BY <1>7, <3>2, <3>3
  <2> QED BY <1>6, <2>4, <2>5 DEF InOrder
<1> QED BY <1>5, <1>11, <1>12, <1>13 DEF Tells, Matched

\* c finds what is left of s, in s.
Others(s, f, n) == {m \in 1..n : s[m].file # f}

LeftIn(w, s, f, n) ==
  \E c : /\ OneToOne(c, DOMAIN w, Others(s, f, n))
         /\ \A m \in DOMAIN w : w[m] = s[c[m]]
         /\ \A m, k \in DOMAIN w : m < k => c[m] < c[k]

LEMMA LeftStep ==
  ASSUME NEW S, NEW s \in Seq(S), NEW f, NEW n \in Nat, n + 1 \in 1..Len(s),
         NEW w \in Seq(S), LeftIn(w, s, f, n)
  PROVE  LeftIn(Step(w, s[n + 1], f), s, f, n + 1)
<1>0. /\ \A m \in 1..n : m \in 1..(n + 1) /\ m # n + 1
      /\ \A m \in 1..(n + 1) : m \in 1..n \/ m = n + 1
      /\ n + 1 \in 1..(n + 1)
  OBVIOUS
<1>1. PICK c : /\ OneToOne(c, DOMAIN w, Others(s, f, n))
               /\ \A m \in DOMAIN w : w[m] = s[c[m]]
               /\ \A m, k \in DOMAIN w : m < k => c[m] < c[k]
  BY DEF LeftIn
<1>2. CASE s[n + 1].file = f
  <2>1. Others(s, f, n + 1) = Others(s, f, n)
    BY <1>0, <1>2 DEF Others
  <2>2. Step(w, s[n + 1], f) = w
    BY <1>2 DEF Step
  <2> QED BY <1>1, <2>1, <2>2 DEF LeftIn
<1>3. CASE s[n + 1].file # f
  <2>1. Others(s, f, n + 1) = Others(s, f, n) \cup {n + 1} /\ n + 1 \notin Others(s, f, n)
    BY <1>0, <1>3 DEF Others
  <2>2. PICK l \in Nat : l = Len(w) /\ DOMAIN w = 1..l
    BY LenProperties
  <2>3. PICK u : u = Append(w, s[n + 1])
    OBVIOUS
  <2>4. DOMAIN u = 1..(l + 1) /\ (\A m \in 1..l : u[m] = w[m]) /\ u[l + 1] = s[n + 1]
    <3>1. s[n + 1] \in S
      BY ElementOfSeq
    <3>2. u \in Seq(S) /\ Len(u) = l + 1 /\ (\A m \in 1..l : u[m] = w[m]) /\ u[l + 1] = s[n + 1]
      BY <2>2, <2>3, <3>1, AppendProperties
    <3> QED BY <3>2, LenProperties
  <2> DEFINE d == [m \in 1..(l + 1) |-> IF m = l + 1 THEN n + 1 ELSE c[m]]
  <2>5. /\ \A m \in 1..l : m \in 1..(l + 1) /\ m # l + 1
        /\ \A m \in 1..(l + 1) : m \in 1..l \/ m = l + 1
        /\ l + 1 \in 1..(l + 1)
    OBVIOUS
  <2>6. /\ \A m \in 1..l : c[m] \in Others(s, f, n)
        /\ \A m, k \in 1..l : c[m] = c[k] => m = k
        /\ \A i \in Others(s, f, n) : \E m \in 1..l : c[m] = i
    BY <1>1, <2>2 DEF OneToOne
  <2>7. d[l + 1] = n + 1 /\ \A m \in 1..l : d[m] = c[m]
    BY <2>5
  <2>8. d \in [1..(l + 1) -> Others(s, f, n + 1)]
    BY <2>1, <2>5, <2>6
  <2> HIDE DEF d
  <2>9. ASSUME NEW m \in 1..(l + 1), NEW k \in 1..(l + 1), d[m] = d[k] PROVE m = k
    BY <2>1, <2>5, <2>6, <2>7, <2>9
  <2>10. ASSUME NEW i \in Others(s, f, n + 1) PROVE \E m \in 1..(l + 1) : d[m] = i
    BY <2>1, <2>5, <2>6, <2>7
  <2>11. OneToOne(d, DOMAIN u, Others(s, f, n + 1))
    BY <2>4, <2>8, <2>9, <2>10 DEF OneToOne
  <2>12. \A m \in DOMAIN u : u[m] = s[d[m]]
    BY <1>1, <2>2, <2>4, <2>5, <2>7
  <2>13. Step(w, s[n + 1], f) = u
    BY <1>3, <2>3 DEF Step
  <2>14. ASSUME NEW m \in DOMAIN u, NEW k \in DOMAIN u, m < k PROVE d[m] < d[k]
    <3>1. m \in 1..l /\ d[m] = c[m]
      BY <2>4, <2>7, <2>14
    <3>2. CASE k = l + 1
      <4>1. c[m] \in 1..n
        BY <2>6, <3>1 DEF Others
      <4> QED BY <2>7, <3>1, <3>2, <4>1
    <3>3. CASE k \in 1..l
      BY <1>1, <2>2, <2>7, <2>14, <3>1, <3>3
    <3> QED BY <2>4, <2>5, <3>2, <3>3
  <2> QED BY <2>11, <2>12, <2>13, <2>14 DEF LeftIn
<1> QED BY <1>2, <1>3

LEMMA WithoutIs ==
  ASSUME NEW S, NEW s \in Seq(S), NEW f
  PROVE  LeftIn(Without(s, f), s, f, Len(s))
<1>1. Len(s) \in Nat
  BY LenProperties
<1> DEFINE n == Len(s)
           kept == CHOOSE k : IsKept(k, s, f, n)
<1>2. IsKept(kept, s, f, n)
  BY <1>1, KeptExists
<1>3. Without(s, f) = kept[n]
  BY DEF Without, IsKept, Step
<1> HIDE DEF kept
<1>4. \A m \in 0..n : kept[m] = IF m = 0 THEN <<>> ELSE Step(kept[m - 1], s[m], f)
  BY <1>2 DEF IsKept
<1> DEFINE M == {m \in Nat : m <= n => kept[m] \in Seq(S) /\ LeftIn(kept[m], s, f, m)}
<1>5. 0 \in M
  <2>1. kept[0] = <<>>
    BY <1>1, <1>4
  <2>2. LeftIn(<<>>, s, f, 0)
    <3>1. OneToOne(<<>>, DOMAIN <<>>, Others(s, f, 0)) /\ DOMAIN <<>> = {}
      BY DEF OneToOne, Others
    <3> QED BY <3>1 DEF LeftIn
  <2> QED BY <2>1, <2>2, EmptySeq
<1>6. ASSUME NEW m \in M \cap Nat PROVE m + 1 \in M
  <2> SUFFICES ASSUME m + 1 <= n PROVE kept[m + 1] \in Seq(S) /\ LeftIn(kept[m + 1], s, f, m + 1)
    OBVIOUS
  <2>1. kept[m] \in Seq(S) /\ LeftIn(kept[m], s, f, m) /\ m + 1 \in 1..Len(s)
    BY <1>1
  <2>2. m + 1 \in 0..n /\ m + 1 # 0 /\ (m + 1) - 1 = m
    BY <1>1
  <2>3. kept[m + 1] = Step(kept[m], s[m + 1], f)
    BY <1>4, <2>2
  <2>4. kept[m + 1] \in Seq(S)
    BY <2>1, <2>3, ElementOfSeq, AppendProperties DEF Step
  <2> QED BY <2>1, <2>3, <2>4, LeftStep
<1>7. n \in M
  <2> HIDE DEF M
  <2> QED BY <1>1, <1>5, <1>6, SetInduction
<1> QED BY <1>1, <1>3, <1>7

\* The events of a file go with its lines.
LEMMA FileGone ==
  ASSUME NEW H \in [Files -> Seq(ToldLine)], NEW f \in Files, NEW K, K = [H EXCEPT ![f] = <<>>],
         NEW S, NEW s \in Seq(S), NEW p, NEW q, Tells(s, H, p, q)
  PROVE  Tells(Without(s, f), K, p, q)
<1>1. PICK w : w = Without(s, f)
  OBVIOUS
<1>2. PICK n \in Nat : n = Len(s) /\ DOMAIN s = 1..n
  BY LenProperties
<1>3. PICK c : /\ OneToOne(c, DOMAIN w, Others(s, f, n))
               /\ \A m \in DOMAIN w : w[m] = s[c[m]]
               /\ \A m, k \in DOMAIN w : m < k => c[m] < c[k]
  BY <1>1, <1>2, WithoutIs DEF LeftIn
<1>4. PICK b : OneToOne(b, DOMAIN s, Left(H, p)) /\ Finds(b, s, H) /\ InOrder(b, s, H, q)
  BY DEF Tells, Matched
<1>5. K[f] = <<>> /\ DOMAIN <<>> = {} /\ \A g \in Files : g # f => K[g] = H[g]
  OBVIOUS
<1>6. ASSUME NEW i PROVE i \in Left(K, p) <=> i \in Left(H, p) /\ i[1] # f
  <2>1. i \in Items(K) <=> i \in Items(H) /\ i[1] # f
    <3>1. ASSUME i \in Items(K) PROVE i \in Items(H) /\ i[1] # f
      <4>1. PICK g \in Files : \E m \in DOMAIN K[g] : i = <<g, m>>
        BY <3>1, ItemIs, Zenon
      <4>2. g # f /\ K[g] = H[g] /\ i[1] = g
        BY <1>5, <4>1
      <4> QED BY <4>1, <4>2, ItemIs, Zenon
    <3>2. ASSUME i \in Items(H), i[1] # f PROVE i \in Items(K)
      <4>1. PICK g \in Files : \E m \in DOMAIN H[g] : i = <<g, m>>
        BY <3>2, ItemIs
      <4>2. g # f /\ K[g] = H[g]
        BY <1>5, <3>2, <4>1
      <4> QED BY <4>1, <4>2, ItemIs, Zenon
    <3> QED BY <3>1, <3>2
  <2>2. i \in Items(H) /\ i[1] # f => At(K, i) = At(H, i)
    <3> SUFFICES ASSUME i \in Items(H), i[1] # f PROVE At(K, i) = At(H, i)
      OBVIOUS
    <3>1. i[1] \in Files
      BY ItemIs
    <3> QED BY <1>5, <3>1 DEF At
  <2> QED BY <2>1, <2>2 DEF Left, Counted
<1>7. ASSUME NEW i \in Left(K, p) PROVE At(K, i) = At(H, i)
  <2>1. i \in Left(H, p) /\ i[1] # f
    BY <1>6
  <2>2. i \in Items(H)
    BY <2>1 DEF Left, Counted
  <2>3. PICK g \in Files : \E m \in DOMAIN H[g] : i = <<g, m>>
    BY <2>2, ItemIs
  <2>4. i[1] \in Files
    BY <2>3
  <2> QED BY <1>5, <2>1, <2>4 DEF At
<1> DEFINE d == [m \in DOMAIN w |-> b[c[m]]]
<1>8. \A m \in DOMAIN w : /\ c[m] \in 1..n /\ s[c[m]].file # f /\ w[m] = s[c[m]]
                          /\ d[m] = b[c[m]]
  BY <1>3 DEF OneToOne, Others
<1>9. \A m \in 1..n : b[m] \in Left(H, p) /\ s[m].file = b[m][1] /\ Says(s[m], At(H, b[m]))
  BY <1>2, <1>4 DEF OneToOne, Finds
<1>10. d \in [DOMAIN w -> Left(K, p)]
  BY <1>6, <1>8, <1>9
<1> HIDE DEF d
<1>11. ASSUME NEW m \in DOMAIN w, NEW k \in DOMAIN w, d[m] = d[k] PROVE m = k
  BY <1>2, <1>3, <1>4, <1>8, <1>11 DEF OneToOne
<1>12. ASSUME NEW i \in Left(K, p) PROVE \E m \in DOMAIN w : d[m] = i
  <2>1. PICK k \in 1..n : b[k] = i
    BY <1>2, <1>4, <1>6 DEF OneToOne
  <2>2. s[k].file # f
    BY <1>6, <1>9, <2>1
  <2>3. PICK m \in DOMAIN w : c[m] = k
    BY <1>3, <2>2 DEF OneToOne, Others
  <2> QED BY <1>8, <2>1, <2>3
<1>13. OneToOne(d, DOMAIN w, Left(K, p))
  BY <1>10, <1>11, <1>12 DEF OneToOne
<1>14. Finds(d, w, K)
  <2> SUFFICES ASSUME NEW m \in DOMAIN w PROVE Says(w[m], At(K, d[m])) /\ w[m].file = d[m][1]
    BY DEF Finds
  <2>1. d[m] \in Left(K, p)
    BY <1>10
  <2>2. At(K, d[m]) = At(H, d[m])
    BY <1>7, <2>1
  <2> QED BY <1>8, <1>9, <2>2
<1>15. InOrder(d, w, K, q)
  <2>1. ASSUME NEW m \in DOMAIN w PROVE At(K, d[m]) = At(H, b[c[m]]) /\ c[m] \in DOMAIN s
    <3>1. d[m] \in Left(K, p)
      BY <1>10
    <3> QED BY <1>2, <1>7, <1>8, <3>1
  <2>2. ASSUME NEW m \in DOMAIN w PROVE At(K, d[m]).seq < q
    BY <1>4, <2>1 DEF InOrder
  <2>3. ASSUME NEW m \in DOMAIN w, NEW k \in DOMAIN w, m < k
        PROVE  At(K, d[m]).seq < At(K, d[k]).seq
    <3>1. c[m] < c[k]
      BY <1>3, <2>3
    <3> QED BY <1>4, <2>1, <3>1 DEF InOrder
  <2> QED BY <2>2, <2>3 DEF InOrder
<1> QED BY <1>1, <1>13, <1>14, <1>15 DEF Tells, Matched

\* Numbers that grow are as far apart as they are many.
LEMMA Climb ==
  ASSUME NEW n \in Nat, NEW v, \A k \in 1..n : v[k] \in Nat,
         \A j, k \in 1..n : j < k => v[j] < v[k]
  PROVE  \A a, b \in 1..n : a <= b => v[a] + (b - a) <= v[b]
<1> SUFFICES ASSUME NEW a \in 1..n PROVE \A b \in 1..n : a <= b => v[a] + (b - a) <= v[b]
  OBVIOUS
<1> DEFINE M == {d \in Nat : a + d <= n => v[a] + d <= v[a + d]}
<1>1. 0 \in M
  OBVIOUS
<1>2. ASSUME NEW d \in M \cap Nat PROVE d + 1 \in M
  <2> SUFFICES ASSUME a + (d + 1) <= n PROVE v[a] + (d + 1) <= v[a + (d + 1)]
    OBVIOUS
  <2>1. PICK j, k : j = a + d /\ k = a + (d + 1)
    OBVIOUS
  <2>2. j \in 1..n /\ k \in 1..n /\ j < k
    BY <2>1
  <2>3. v[j] < v[k] /\ v[j] \in Nat /\ v[k] \in Nat /\ v[a] \in Nat
    BY <2>2
  <2>4. v[a] + d <= v[j]
    BY <2>1, <2>2
  <2> QED BY <2>1, <2>3, <2>4
<1>3. Nat \subseteq M
  <2> HIDE DEF M
  <2> QED BY <1>1, <1>2, SetInduction
<1> SUFFICES ASSUME NEW b \in 1..n, a <= b PROVE v[a] + (b - a) <= v[b]
  OBVIOUS
<1>4. b - a \in M /\ a + (b - a) = b
  BY <1>3
<1> QED BY <1>4

\* The events that the cap leaves are those of the lines from some later one on.
LEMMA TrimTells ==
  ASSUME NEW H \in [Files -> Seq(ToldLine)], NEW V, NEW s \in Seq(V), Len(s) > MaxEvents,
         NEW p \in Nat, NEW q \in Nat, Tells(s, H, p, q)
  PROVE  \E p2 \in Nat : /\ Tells(Trimmed(s), H, p2, q)
                         /\ MaxEvents < q /\ p2 + Keep <= q
<1>1. PICK b : OneToOne(b, DOMAIN s, Left(H, p)) /\ Finds(b, s, H) /\ InOrder(b, s, H, q)
  BY DEF Tells, Matched
<1>2. PICK n \in Nat : n = Len(s) /\ DOMAIN s = 1..n
  BY LenProperties
<1>3. PICK w : w = Trimmed(s)
  OBVIOUS
<1>4. PICK cut \in Nat : cut + Keep = n /\ DOMAIN w = 1..Keep /\ \A m \in 1..Keep : w[m] = s[m + cut]
  BY <1>2, <1>3, TrimmedIs
<1>5. Keep \in Nat /\ 1 <= Keep /\ MaxEvents \in Nat
  BY KeepIs
<1>6. PICK v : v = [m \in 1..n |-> At(H, b[m]).seq]
  OBVIOUS
<1>7. ASSUME NEW m \in 1..n
      PROVE  b[m] \in Left(H, p) /\ v[m] = At(H, b[m]).seq /\ v[m] \in Nat /\ v[m] < q /\ p <= v[m]
  <2>1. b[m] \in Left(H, p)
    BY <1>1, <1>2 DEF OneToOne
  <2>2. b[m] \in Items(H) /\ At(H, b[m]).seq >= p
    BY <2>1 DEF Left, Counted
  <2>3. At(H, b[m]) \in ToldLine
    BY <2>2, AtTold
  <2>4. v[m] = At(H, b[m]).seq
    BY <1>6
  <2> QED BY <1>1, <1>2, <2>1, <2>2, <2>3, <2>4 DEF InOrder, ToldLine
<1>8. \A j, k \in 1..n : j < k => v[j] < v[k]
  BY <1>1, <1>2, <1>7 DEF InOrder
<1>9. \A j, k \in 1..n : j <= k => v[j] + (k - j) <= v[k]
  BY <1>7, <1>8, Climb
<1>10. PICK p2 : p2 = v[cut + 1]
  OBVIOUS
<1>11. cut + 1 \in 1..n /\ n \in 1..n /\ 1 \in 1..n
  BY <1>4, <1>5
<1>12. p2 \in Nat /\ p <= p2
  BY <1>7, <1>10, <1>11
<1>13. p2 + Keep <= q
  <2>1. v[cut + 1] + (n - (cut + 1)) <= v[n]
    BY <1>4, <1>5, <1>9, <1>11
  <2>2. v[n] \in Nat /\ v[n] < q
    BY <1>7, <1>11
  <2> QED BY <1>4, <1>5, <1>10, <1>12, <2>1, <2>2
<1>14. MaxEvents < q
  <2>1. v[1] + (n - 1) <= v[n]
    BY <1>9, <1>11
  <2>2. v[n] \in Nat /\ v[n] < q /\ v[1] \in Nat
    BY <1>7, <1>11
  <2> QED BY <1>2, <1>5, <2>1, <2>2
<1> DEFINE c == [m \in 1..Keep |-> b[m + cut]]
<1>15. ASSUME NEW m \in 1..Keep
       PROVE  /\ m + cut \in 1..n /\ cut + 1 <= m + cut
              /\ c[m] = b[m + cut] /\ w[m] = s[m + cut]
  BY <1>4, <1>5
<1> HIDE DEF c
<1>16. ASSUME NEW i \in Left(H, p2) PROVE i \in Left(H, p) /\ \E m \in 1..Keep : c[m] = i
  <2>1. i \in Counted(H) /\ i \in Items(H) /\ At(H, i).seq >= p2
    BY DEF Left, Counted
  <2>2. At(H, i).seq \in Nat
    BY <2>1, AtTold DEF ToldLine
  <2>3. i \in Left(H, p)
    BY <1>12, <2>1, <2>2 DEF Left
  <2>4. PICK k \in 1..n : b[k] = i
    BY <1>1, <1>2, <2>3 DEF OneToOne
  <2>5. v[k] >= v[cut + 1]
    BY <1>7, <1>10, <2>1, <2>4
  <2>6. ~(k < cut + 1)
    BY <1>7, <1>8, <1>11, <2>5
  <2>7. PICK m : m = k - cut
    OBVIOUS
  <2>8. m \in 1..Keep /\ m + cut = k
    BY <1>4, <1>5, <2>6, <2>7
  <2> QED BY <1>15, <2>3, <2>4, <2>8
<1>17. ASSUME NEW m \in 1..Keep PROVE c[m] \in Left(H, p2)
  <2>1. b[m + cut] \in Left(H, p) /\ v[m + cut] = At(H, b[m + cut]).seq
    BY <1>7, <1>15
  <2>2. v[m + cut] >= p2
    <3>1. PICK k : k = m + cut
      OBVIOUS
    <3>2. k \in 1..n /\ cut + 1 <= k
      BY <1>15, <3>1
    <3>3. v[cut + 1] + (k - (cut + 1)) <= v[k]
      BY <1>9, <1>11, <3>2
    <3>4. v[k] \in Nat
      BY <1>7, <3>2
    <3> QED BY <1>10, <1>12, <3>1, <3>2, <3>3, <3>4
  <2> QED BY <1>15, <2>1, <2>2 DEF Left
<1>18. OneToOne(c, DOMAIN w, Left(H, p2))
  <2>1. c \in [1..Keep -> Left(H, p2)]
    BY <1>17 DEF c
  <2>2. ASSUME NEW m \in 1..Keep, NEW k \in 1..Keep, c[m] = c[k] PROVE m = k
    <3>1. b[m + cut] = b[k + cut] /\ m + cut \in 1..n /\ k + cut \in 1..n
      BY <1>15, <2>2
    <3>2. m + cut = k + cut
      BY <1>1, <1>2, <3>1 DEF OneToOne
    <3> QED BY <1>5, <3>2
  <2> QED BY <1>4, <1>16, <2>1, <2>2 DEF OneToOne
<1>19. Finds(c, w, H)
  <2> SUFFICES ASSUME NEW m \in 1..Keep PROVE Says(w[m], At(H, c[m])) /\ w[m].file = c[m][1]
    BY <1>4 DEF Finds
  <2>1. m + cut \in DOMAIN s /\ c[m] = b[m + cut] /\ w[m] = s[m + cut]
    BY <1>2, <1>15
  <2> QED BY <1>1, <2>1 DEF Finds
<1>20. InOrder(c, w, H, q)
  <2>1. ASSUME NEW m \in 1..Keep PROVE At(H, c[m]).seq < q
    BY <1>1, <1>2, <1>15 DEF InOrder
  <2>2. ASSUME NEW m \in 1..Keep, NEW k \in 1..Keep, m < k PROVE At(H, c[m]).seq < At(H, c[k]).seq
    <3>1. m + cut \in 1..n /\ k + cut \in 1..n /\ c[m] = b[m + cut] /\ c[k] = b[k + cut]
      BY <1>15
    <3>2. m + cut < k + cut
      BY <1>5, <2>2
    <3> QED BY <1>1, <1>2, <3>1, <3>2 DEF InOrder
  <2> QED BY <1>4, <2>1, <2>2 DEF InOrder
<1>21. Tells(w, H, p2, q)
  BY <1>18, <1>19, <1>20 DEF Tells, Matched
<1> QED BY <1>3, <1>12, <1>13, <1>14, <1>21

------------------------------------------------------------------------------
(***************************************************************************)
(* What the entry of a file says of its lines.                             *)
(***************************************************************************)
LEMMA FoldedRest ==
  ASSUME NEW fs, IsEntry(fs), NEW line \in Line, NEW ts
  PROVE  /\ Folded(fs, line, ts).newestTs = Maximum(fs.newestTs, ts)
         /\ Folded(fs, line, ts).contextTokens =
              IF line.type = "assistant" /\ line.tokens # Absent THEN line.tokens ELSE fs.contextTokens
<1>1. PICK a, b, o, t, c :
        fs = [agent |-> a, bad |-> b, orphans |-> o, newestTs |-> t, contextTokens |-> c]
  BY DEF IsEntry
<1>2. PICK t2, c2, o2 :
        /\ t2 = Maximum(fs.newestTs, ts)
        /\ c2 = IF line.type = "assistant" /\ line.tokens # Absent
                  THEN line.tokens ELSE fs.contextTokens
        /\ Folded(fs, line, ts) = [fs EXCEPT !.newestTs = t2, !.contextTokens = c2, !.orphans = o2]
  BY DEF Folded
<1>3. Folded(fs, line, ts)
        = [agent |-> a, bad |-> b, orphans |-> o2, newestTs |-> t2, contextTokens |-> c2]
  BY <1>1, <1>2
<1> QED BY <1>2, <1>3

LEMMA NewestGrows ==
  ASSUME NEW s \in Seq(Rec), NEW line \in Line, NEW ts \in Nat, NEW t, Grown(t, s, line, ts),
         NEW v, IsNewest(v, s)
  PROVE  IsNewest(IF line.type = "blank" THEN v ELSE Maximum(v, ts), t)
<1> DEFINE w == IF line.type = "blank" THEN v ELSE Maximum(v, ts)
<1>1. PICK n \in Nat : n = Len(s) /\ DOMAIN s = 1..n
  BY LenProperties
<1>2. /\ DOMAIN t = 1..(n + 1) /\ \A m \in 1..n : t[m] = s[m]
      /\ t[n + 1].line = line /\ t[n + 1].ts = ts
  BY <1>1, AppendFacts
<1>3. /\ v \in Nat /\ \A m \in 1..n : s[m].line.type # "blank" => s[m].ts <= v
      /\ v = 0 \/ \E m \in 1..n : s[m].line.type # "blank" /\ s[m].ts = v
  BY <1>1 DEF IsNewest
<1>4. w \in Nat /\ v <= w /\ (line.type # "blank" => ts <= w) /\ (w = v \/ (line.type # "blank" /\ w = ts))
  BY <1>3 DEF Maximum
<1> HIDE DEF w
<1>5. ASSUME NEW m \in 1..(n + 1), t[m].line.type # "blank" PROVE t[m].ts <= w
  <2>1. CASE m = n + 1
    BY <1>2, <1>4, <1>5, <2>1
  <2>2. CASE m \in 1..n
    <3>1. s[m].line.type # "blank" /\ t[m] = s[m]
      BY <1>2, <1>5, <2>2
    <3>2. s[m].ts <= v
      BY <1>3, <2>2, <3>1
    <3>3. s[m].ts \in Nat
      <4>1. s[m] \in Rec
        BY <1>1, <2>2, ElementOfSeq
      <4> QED BY <4>1 DEF Rec
    <3> QED BY <1>3, <1>4, <3>1, <3>2, <3>3
  <2> QED BY <2>1, <2>2
<1>6. w = 0 \/ \E m \in 1..(n + 1) : t[m].line.type # "blank" /\ t[m].ts = w
  <2>1. CASE w = v
    <3>1. ASSUME NEW m \in 1..n PROVE m \in 1..(n + 1)
      OBVIOUS
    <3> QED BY <1>2, <1>3, <2>1, <3>1
  <2>2. CASE line.type # "blank" /\ w = ts
    <3>1. n + 1 \in 1..(n + 1)
      OBVIOUS
    <3> QED BY <1>2, <2>2, <3>1
  <2> QED BY <1>4, <2>1, <2>2
<1> QED BY <1>2, <1>4, <1>5, <1>6 DEF IsNewest, w

LEMMA ContextGrows ==
  ASSUME NEW s \in Seq(Rec), NEW line \in Line, NEW ts \in Nat, NEW t, Grown(t, s, line, ts),
         NEW c, IsContext(c, s)
  PROVE  IsContext(IF line.type = "assistant" /\ line.tokens # Absent THEN line.tokens ELSE c, t)
<1>1. PICK n \in Nat : n = Len(s) /\ DOMAIN s = 1..n
  BY LenProperties
<1>2. /\ DOMAIN t = 1..(n + 1) /\ \A m \in 1..n : t[m] = s[m] /\ t[n + 1].line = line
  BY <1>1, AppendFacts
<1>3. /\ \A m \in 1..n : m \in 1..(n + 1) /\ m # n + 1 /\ m <= n + 1
      /\ \A m \in 1..(n + 1) : m \in 1..n \/ m = n + 1
      /\ n + 1 \in 1..(n + 1) /\ n + 1 <= n + 1
  OBVIOUS
<1>4. /\ t[n + 1].line = line /\ \A m \in 1..n : t[m] = s[m]
  <2>1. t[n + 1].line = line
    BY <1>1, AppendFacts
  <2> QED BY <1>1, <2>1, AppendFacts
<1>5. Turns(s) \subseteq 1..n /\ Turns(t) \subseteq 1..(n + 1)
  BY <1>1, <1>2 DEF Turns
<1>6. \A m \in 1..n : m \in Turns(t) <=> m \in Turns(s)
  BY <1>1, <1>2, <1>3, <1>4 DEF Turns
<1>7. n + 1 \in Turns(t) <=> line.type = "assistant" /\ line.tokens # Absent
  BY <1>2, <1>3, <1>4 DEF Turns
<1>8. CASE line.type = "assistant" /\ line.tokens # Absent
  <2>1. n + 1 \in Turns(t) /\ \A m \in Turns(t) : m <= n + 1
    BY <1>3, <1>5, <1>7, <1>8
  <2> QED BY <1>4, <1>8, <2>1 DEF IsContext
<1>9. CASE ~(line.type = "assistant" /\ line.tokens # Absent)
  <2>1. Turns(t) = Turns(s)
    BY <1>3, <1>5, <1>6, <1>7, <1>9
  <2>2. IsContext(c, t)
    <3>1. CASE Turns(s) = {} /\ c = 0
      BY <2>1, <3>1 DEF IsContext
    <3>2. ASSUME NEW m \in Turns(s), \A k \in Turns(s) : k <= m, c = s[m].line.tokens
          PROVE  IsContext(c, t)
      <4>1. t[m] = s[m]
        BY <1>4, <1>5
      <4> QED BY <2>1, <3>2, <4>1 DEF IsContext
    <3> QED BY <3>1, <3>2 DEF IsContext
  <2> QED BY <1>9, <2>2
<1> QED BY <1>8, <1>9

\* Folding a line into an entry keeps what it says of the file's lines.
LEMMA FoldedTells ==
  ASSUME NEW s \in Seq(Rec), NEW line \in Line, IsFiniteSet(line.calls), NEW ts \in Nat,
         NEW t, Grown(t, s, line, ts), line.type # "blank",
         NEW fs, IsEntry(fs), EntryTells(fs, s)
  PROVE  EntryTells(Folded(fs, line, ts), t)
<1> DEFINE p == Folded(fs, line, ts)
<1>1. IsNewest(p.newestTs, t)
  <2>1. IsNewest(Maximum(fs.newestTs, ts), t)
    BY NewestGrows DEF EntryTells
  <2> QED BY <2>1, FoldedRest
<1>2. IsContext(p.contextTokens, t)
  <2>1. p.contextTokens =
          IF line.type = "assistant" /\ line.tokens # Absent THEN line.tokens ELSE fs.contextTokens
    BY FoldedRest
  <2>2. IsContext(fs.contextTokens, s)
    BY DEF EntryTells
  <2> HIDE DEF p
  <2> QED BY <2>1, <2>2, ContextGrows
<1>3. IsFiniteSet(DOMAIN p.orphans)
  <2>1. DOMAIN p.orphans \subseteq DOMAIN fs.orphans \cup line.calls
    <3>1. p.orphans = Orphans(fs.orphans, line, ts)
      BY FoldedFields
    <3>2. DOMAIN Orphans(fs.orphans, line, ts) \subseteq DOMAIN fs.orphans \cup line.calls
      BY DEF Orphans, Calls
    <3> HIDE DEF p
    <3> QED BY <3>1, <3>2
  <2>2. IsFiniteSet(DOMAIN fs.orphans \cup line.calls)
    BY FS_Union DEF EntryTells
  <2> HIDE DEF p
  <2> QED BY <2>1, <2>2, FS_Subset
<1> QED BY <1>1, <1>2, <1>3 DEF EntryTells

LEMMA BlankTells ==
  ASSUME NEW s \in Seq(Rec), NEW line \in Line, NEW ts \in Nat,
         NEW t, Grown(t, s, line, ts), line.type = "blank", NEW fs, EntryTells(fs, s)
  PROVE  EntryTells(fs, t)
<1>1. IsNewest(fs.newestTs, t)
  BY NewestGrows DEF EntryTells
<1>2. IsContext(fs.contextTokens, t)
  BY ContextGrows DEF EntryTells
<1> QED BY <1>1, <1>2 DEF EntryTells

\* An entry that is made for a line, and can be told, knows of no other.
LEMMA MadeTells ==
  ASSUME PiTypes, EntriesTell, NEW f \in Files, f # resetting, NEW line \in Line,
         NEW fs, fs = FileState(f, line), ~fs.bad
  PROVE  EntryTells(fs, read[f])
<1>1. CASE f \in DOMAIN files
  BY <1>1 DEF FileState, EntriesTell
<1>2. CASE f \notin DOMAIN files
  <2>1. \/ fs = [NewFile EXCEPT !.bad = TRUE]
        \/ read[f] = <<>> /\ fs = [NewFile EXCEPT !.agent = Base[line.cwd]]
    BY <1>2 DEF FileState
  <2>2. read[f] = <<>> /\ fs.newestTs = 0 /\ fs.contextTokens = 0 /\ fs.orphans = <<>>
    BY <2>1 DEF NewFile
  <2>3. DOMAIN <<>> = {} /\ IsFiniteSet({})
    BY FS_EmptySet
  <2>4. IsNewest(0, <<>>) /\ IsContext(0, <<>>)
    BY <2>3 DEF IsNewest, IsContext, Turns
  <2> QED BY <2>2, <2>3, <2>4 DEF EntryTells
<1> QED BY <1>1, <1>2

LEMMA HandleEntriesTell ==
  ASSUME PiInv, EntriesTell, NEW f \in Files, NEW line \in FirstLines \cup Lines, HandleLine(f, line)
  PROVE  EntriesTell'
<1>1. PICK ts \in Nat :
        /\ read' = [read EXCEPT ![f] = Append(@, [line |-> line, ts |-> ts, seq |-> made])]
        /\ \/ line.type = "blank" /\ files' = files
           \/ /\ line.type # "blank" /\ FileState(f, line).bad
              /\ files' = SetFile(f, FileState(f, line))
           \/ /\ line.type # "blank" /\ ~FileState(f, line).bad
              /\ files' = SetFile(f, Folded(FileState(f, line), line, ts))
  <2>1. line \in Line
    BY PiAssumption
  <2>2. \A ts \in IF line.ts = Absent THEN Nows ELSE {line.ts} : ts \in Nat
    BY <2>1, PiAssumption, LineTypes
  <2> QED BY <2>2 DEF HandleLine
<1>2. PICK t : read' = [read EXCEPT ![f] = t] /\ Grown(t, read[f], line, ts)
  <2>1. made \in Nat
    BY DEF PiInv, PiTypes
  <2>2. PICK t : t = Append(read[f], [line |-> line, ts |-> ts, seq |-> made])
    OBVIOUS
  <2>3. read' = [read EXCEPT ![f] = t]
    BY <1>1, <2>2
  <2> QED BY <2>1, <2>2, <2>3 DEF Grown
<1>3. /\ read[f] \in Seq(Rec) /\ read' \in [Files -> Seq(Rec)] /\ read'[f] = t
      /\ \A g \in Files : g # f => read'[g] = read[g]
  <2>1. read \in [Files -> Seq(Rec)]
    BY DEF PiInv, PiTypes
  <2>2. read' = [read EXCEPT ![f] = t]
    BY <1>2
  <2>3. t \in Seq(Rec)
    BY <1>2, <2>1, PiAssumption, AppendFacts
  <2> QED BY <2>1, <2>2, <2>3
<1>4. resetting = Absent /\ resetting' = Absent /\ f # resetting /\ line \in Line /\ IsFiniteSet(line.calls)
  BY PiAssumption DEF HandleLine
<1>5. PICK fs : fs = FileState(f, line)
  OBVIOUS
<1>6. IsEntry(fs)
  BY <1>2, <1>4, <1>5, HandleDescribes DEF PiInv
<1> SUFFICES ASSUME NEW g \in Files, g \in DOMAIN files', ~files'[g].bad
             PROVE  EntryTells(files'[g], read'[g])
  BY DEF EntriesTell
<1>7. CASE line.type = "blank"
  <2>1. files' = files
    BY <1>1, <1>7
  <2>2. EntryTells(files[g], read[g])
    BY <1>4, <2>1, PiAssumption DEF EntriesTell
  <2>3. CASE g = f
    BY <1>2, <1>3, <1>4, <1>7, <2>1, <2>2, <2>3, BlankTells
  <2>4. CASE g # f
    BY <1>3, <2>1, <2>2, <2>4
  <2> QED BY <2>3, <2>4
<1>8. CASE line.type # "blank"
  <2>1. PICK new : files' = SetFile(f, new) /\ \/ fs.bad /\ new = fs
                                               \/ ~fs.bad /\ new = Folded(fs, line, ts)
    BY <1>1, <1>5, <1>8
  <2>2. /\ files'[g] = IF g = f THEN new ELSE files[g]
        /\ g # f => g \in DOMAIN files
    BY <2>1 DEF SetFile
  <2>3. CASE g = f
    <3>1. ~fs.bad /\ new = Folded(fs, line, ts)
      BY <2>1, <2>2, <2>3
    <3>2. EntryTells(fs, read[f])
      BY <1>4, <1>5, <3>1, MadeTells DEF PiInv
    <3>3. EntryTells(new, t)
      BY <1>2, <1>3, <1>4, <1>6, <1>8, <3>1, <3>2, FoldedTells
    <3> QED BY <1>3, <2>2, <2>3, <3>3
  <2>4. CASE g # f
    BY <1>3, <1>4, <2>2, <2>4, PiAssumption DEF EntriesTell
  <2> QED BY <2>3, <2>4
<1> QED BY <1>7, <1>8

------------------------------------------------------------------------------
(***************************************************************************)
(* Steps.                                                                  *)
(***************************************************************************)
\* How far the tailer has come, of the generations and the lines read.
StampOf(gn, rd) == [f \in Files |-> <<gn[f], Len(rd[f])>>]

Forward(gn, rd, gn2, rd2) ==
  \A f \in Files : gn[f] < gn2[f] \/ (gn[f] = gn2[f] /\ Len(rd[f]) <= Len(rd2[f]))

LEMMA StampIs ==
  ASSUME NEW gn \in [Files -> Nat], NEW rd \in [Files -> Seq(Rec)]
  PROVE  /\ StampOf(gn, rd) \in Stamps
         /\ \A f \in Files : /\ StampOf(gn, rd)[f][1] = gn[f] /\ StampOf(gn, rd)[f][2] = Len(rd[f])
                             /\ gn[f] \in Nat /\ Len(rd[f]) \in Nat
<1>1. \A f \in Files : gn[f] \in Nat /\ Len(rd[f]) \in Nat
  BY LenProperties
<1> QED BY <1>1 DEF StampOf, Stamps

LEMMA BeforeMoves ==
  ASSUME NEW gn \in [Files -> Nat], NEW rd \in [Files -> Seq(Rec)],
         NEW gn2 \in [Files -> Nat], NEW rd2 \in [Files -> Seq(Rec)],
         Forward(gn, rd, gn2, rd2), NEW st \in Stamps, Before(st, StampOf(gn, rd))
  PROVE  Before(st, StampOf(gn2, rd2))
<1> DEFINE a == StampOf(gn, rd)
           b == StampOf(gn2, rd2)
<1> SUFFICES ASSUME NEW f \in Files
             PROVE  st[f][1] < b[f][1] \/ (st[f][1] = b[f][1] /\ st[f][2] <= b[f][2])
  BY DEF Before
<1>1. /\ a[f][1] = gn[f] /\ a[f][2] = Len(rd[f]) /\ gn[f] \in Nat /\ Len(rd[f]) \in Nat
      /\ b[f][1] = gn2[f] /\ b[f][2] = Len(rd2[f]) /\ gn2[f] \in Nat /\ Len(rd2[f]) \in Nat
  BY StampIs
<1>2. st[f][1] \in Nat /\ st[f][2] \in Nat
  BY DEF Stamps
<1>3. st[f][1] < a[f][1] \/ (st[f][1] = a[f][1] /\ st[f][2] <= a[f][2])
  BY DEF Before
<1>4. gn[f] < gn2[f] \/ (gn[f] = gn2[f] /\ Len(rd[f]) <= Len(rd2[f]))
  BY DEF Forward
<1> HIDE DEF a, b
<1> QED BY <1>1, <1>2, <1>3, <1>4

\* A step that takes the tailer further ends the quiet.
LEMMA FreshEnds ==
  ASSUME PiInv, PiInv', ScanFresh, report.pc # "done", report' = report,
         Forward(gen, read, gen', read'), NEW f \in Files,
         gen[f] < gen'[f] \/ Len(read[f]) < Len(read'[f])
  PROVE  ScanFresh' /\ QuietReport'
<1>1. /\ gen \in [Files -> Nat] /\ read \in [Files -> Seq(Rec)]
      /\ gen' \in [Files -> Nat] /\ read' \in [Files -> Seq(Rec)]
  BY DEF PiInv, PiTypes
<1>2. Stamp = StampOf(gen, read) /\ Stamp' = StampOf(gen', read')
  BY DEF Stamp, StampOf
<1>3. QuietReport'
  BY DEF QuietReport
<1>4. ~Before(Stamp', Stamp)
  <2>1. /\ Stamp[f][1] = gen[f] /\ Stamp[f][2] = Len(read[f]) /\ gen[f] \in Nat /\ Len(read[f]) \in Nat
        /\ Stamp'[f][1] = gen'[f] /\ Stamp'[f][2] = Len(read'[f])
        /\ gen'[f] \in Nat /\ Len(read'[f]) \in Nat
    BY <1>1, <1>2, StampIs
  <2>2. gen[f] < gen'[f] \/ (gen[f] = gen'[f] /\ Len(read[f]) < Len(read'[f]))
    BY <2>1 DEF Forward
  <2>3. ~(Stamp'[f][1] < Stamp[f][1] \/ (Stamp'[f][1] = Stamp[f][1] /\ Stamp'[f][2] <= Stamp[f][2]))
    BY <2>1, <2>2
  <2> QED BY <2>3 DEF Before
<1>5. ASSUME report.pc = "scanned" PROVE ScanFresh'
  <2>1. PICK now \in Nows : \E rows, seen, stamp :
          /\ report = [pc |-> "scanned", now |-> now, rows |-> rows, seen |-> seen, stamp |-> stamp]
          /\ stamp \subseteq Stamps /\ \A st \in stamp : Before(st, Stamp)
    BY <1>5 DEF ScanFresh
  <2>2. PICK rows, seen, stamp :
          /\ report = [pc |-> "scanned", now |-> now, rows |-> rows, seen |-> seen, stamp |-> stamp]
          /\ stamp \subseteq Stamps /\ \A st \in stamp : Before(st, Stamp)
    BY <2>1
  <2>3. \A st \in stamp : Before(st, Stamp')
    BY <1>1, <1>2, <2>2, BeforeMoves
  <2>4. Stamp' \notin stamp
    BY <1>4, <2>2
  <2>5. report' = [pc |-> "scanned", now |-> now, rows |-> rows, seen |-> seen, stamp |-> stamp]
    BY <2>2
  <2> HIDE DEF Stamp
  <2> QED BY <2>2, <2>3, <2>4, <2>5, Zenon DEF ScanFresh
<1>6. ASSUME report.pc # "scanned" PROVE ScanFresh'
  BY <1>6 DEF ScanFresh
<1> QED BY <1>3, <1>5, <1>6

\* So does one that finds something under way.
LEMMA FreshNever ==
  ASSUME ScanFresh, report.pc # "done", report' = report, UNCHANGED <<gen, read>>,
         batch # <<>> \/ resetting # Absent
  PROVE  ScanFresh' /\ QuietReport'
<1>1. Stamp' = Stamp
  BY DEF Stamp
<1>2. QuietReport'
  BY DEF QuietReport
<1>3. ASSUME report.pc = "scanned" PROVE ScanFresh'
  <2>1. PICK now \in Nows : \E rows, seen, stamp :
          /\ report = [pc |-> "scanned", now |-> now, rows |-> rows, seen |-> seen, stamp |-> stamp]
          /\ stamp \subseteq Stamps /\ \A st \in stamp : Before(st, Stamp)
          /\ Stamp \in stamp => batch = <<>> /\ resetting = Absent
    BY <1>3 DEF ScanFresh
  <2>2. PICK rows, seen, stamp :
          /\ report = [pc |-> "scanned", now |-> now, rows |-> rows, seen |-> seen, stamp |-> stamp]
          /\ stamp \subseteq Stamps /\ \A st \in stamp : Before(st, Stamp)
          /\ Stamp \in stamp => batch = <<>> /\ resetting = Absent
    BY <2>1
  <2>3. Stamp \notin stamp
    BY <2>2
  <2>4. /\ report' = [pc |-> "scanned", now |-> now, rows |-> rows, seen |-> seen, stamp |-> stamp]
        /\ \A st \in stamp : Before(st, Stamp')
        /\ Stamp' \notin stamp
    BY <1>1, <2>2, <2>3
  <2> HIDE DEF Stamp
  <2> QED BY <2>2, <2>4, Zenon DEF ScanFresh
<1>4. ASSUME report.pc # "scanned" PROVE ScanFresh'
  BY <1>4 DEF ScanFresh
<1> QED BY <1>2, <1>3, <1>4

LEMMA EventsTyped ==
  ASSUME PiInv
  PROVE  store \in Seq(EventType) /\ batch \in Seq(EventType) /\ store \o batch \in Seq(EventType)
<1>1. Told(read, gen) \subseteq EventType
  BY DEF Told
<1>2. store \in Seq(EventType) /\ batch \in Seq(EventType)
  BY <1>1, SeqMonotonic DEF PiInv, PiTypes
<1> QED BY <1>2, ConcatProperties

LEMMA EventSays ==
  ASSUME NEW f, NEW line, NEW ts, NEW q, NEW a, FileState(f, line).agent = a
  PROVE  Says(Event(f, line, ts), [line |-> line, ts |-> ts, seq |-> q, agent |-> a])
<1>1. PICK x : x = [line |-> line, ts |-> ts, seq |-> q, agent |-> a]
  OBVIOUS
<1>2. x.line = line /\ x.ts = ts /\ x.agent = a
  BY <1>1
<1>3. PICK e : e = Event(f, line, ts)
  OBVIOUS
<1>4. /\ e.ts = ts /\ e.client = a /\ e.kind = Kind(line) /\ e.level = Level(line)
      /\ e.toolCalls = (IF line.type = "assistant" THEN Cardinality(line.calls) ELSE 0)
      /\ e.cost = (IF line.type \in {"assistant", "compaction", "usage"} THEN line.cost ELSE Absent)
      /\ e.costDim = (IF line.type \in {"assistant", "usage"} THEN line.model ELSE "")
  BY <1>3 DEF Event
<1>5. e.fallback <=> line.type = "router" /\ line.failed
  BY <1>3 DEF Event
<1> QED BY <1>1, <1>2, <1>3, <1>4, <1>5 DEF Says

LEMMA HandleLineIs ==
  ASSUME PiInv, NEW f \in Files, NEW line \in FirstLines \cup Lines, HandleLine(f, line)
  PROVE  \E ts \in Nat :
           /\ read'[f] = Append(read[f], [line |-> line, ts |-> ts, seq |-> made])
           /\ Grown(read'[f], read[f], line, ts) /\ \A g \in Files : g # f => read'[g] = read[g]
           /\ \/ /\ line.type = "blank" \/ FileState(f, line).bad
                 /\ batch' = batch /\ made' = made
              \/ /\ line.type # "blank" /\ ~FileState(f, line).bad
                 /\ batch' = Append(batch, Event(f, line, ts)) /\ made' = made + 1
<1>1. line \in Line
  BY PiAssumption
<1>2. \A ts \in IF line.ts = Absent THEN Nows ELSE {line.ts} : ts \in Nat
  BY <1>1, PiAssumption, LineTypes
<1>3. PICK ts \in Nat :
        /\ read' = [read EXCEPT ![f] = Append(@, [line |-> line, ts |-> ts, seq |-> made])]
        /\ \/ /\ line.type = "blank" \/ FileState(f, line).bad
              /\ batch' = batch /\ made' = made
           \/ /\ line.type # "blank" /\ ~FileState(f, line).bad
              /\ batch' = Append(batch, Event(f, line, ts)) /\ made' = made + 1
  BY <1>2 DEF HandleLine
<1>4. read \in [Files -> Seq(Rec)] /\ made \in Nat
  BY DEF PiInv, PiTypes
<1>5. PICK t : t = Append(read[f], [line |-> line, ts |-> ts, seq |-> made])
  OBVIOUS
<1>6. read' = [read EXCEPT ![f] = t]
  BY <1>3, <1>5
<1>7. read'[f] = t /\ \A g \in Files : g # f => read'[g] = read[g]
  BY <1>4, <1>6
<1>8. Grown(read'[f], read[f], line, ts)
  BY <1>4, <1>5, <1>7 DEF Grown
<1> QED BY <1>3, <1>5, <1>7, <1>8

\* A line makes an event, or none (processLine, handle).
LEMMA HandleTells ==
  ASSUME PiInv, PiInv', Past(old, read), StoreTells,
         NEW f \in Files, NEW line \in FirstLines \cup Lines, HandleLine(f, line)
  PROVE  Past(old', read') /\ StoreTells'
<1>1. PICK ts \in Nat :
        /\ read'[f] = Append(read[f], [line |-> line, ts |-> ts, seq |-> made])
        /\ Grown(read'[f], read[f], line, ts) /\ \A g \in Files : g # f => read'[g] = read[g]
        /\ \/ /\ line.type = "blank" \/ FileState(f, line).bad
              /\ batch' = batch /\ made' = made
           \/ /\ line.type # "blank" /\ ~FileState(f, line).bad
              /\ batch' = Append(batch, Event(f, line, ts)) /\ made' = made + 1
  BY HandleLineIs
<1>2. line \in Line /\ IsFiniteSet(line.calls)
  BY PiAssumption
<1>3. PICK s, t : /\ s = read[f] /\ t = read'[f] /\ Grown(t, s, line, ts)
                  /\ t = Append(s, LineAt(line, ts, made))
  BY <1>1 DEF LineAt
<1>4. /\ read \in [Files -> Seq(Rec)] /\ read' \in [Files -> Seq(Rec)] /\ s \in Seq(Rec) /\ t \in Seq(Rec)
      /\ made \in Nat /\ \A n \in DOMAIN s : IsFiniteSet(s[n].line.calls)
  BY <1>3 DEF PiInv, PiTypes, Past
<1>5. PICK x : x = Of(line, ts, made, AgentIn(t))
  OBVIOUS
<1>6. /\ x \in ToldLine /\ TakenIn(t) = Append(TakenIn(s), x)
      /\ \A n \in DOMAIN t : IsFiniteSet(t[n].line.calls)
  <2>1. PICK q \in Nat : q = made
    BY <1>4
  <2>2. t = Append(s, LineAt(line, ts, q)) /\ x = Of(line, ts, q, AgentIn(t))
    BY <1>3, <1>5, <2>1
  <2>3. s \in Seq(Rec) /\ \A n \in DOMAIN s : IsFiniteSet(s[n].line.calls)
    BY <1>4
  <2>4. /\ Of(line, ts, q, AgentIn(t)) \in ToldLine
        /\ TakenIn(t) = Append(TakenIn(s), Of(line, ts, q, AgentIn(t)))
        /\ \A n \in DOMAIN t : IsFiniteSet(t[n].line.calls)
    BY <1>2, <2>2, <2>3, TakenGrows, Zenon
  <2> QED BY <2>2, <2>4
<1>7. x.line = line /\ x.ts = ts /\ x.seq = made /\ x.agent = AgentIn(t)
  BY <1>5 DEF Of
<1>8. old' = old /\ store' = store /\ resetting = Absent
  BY DEF HandleLine
<1>9. Past(old, read')
  <2>1. old \in [Files -> Seq(ToldLine)] /\ \A g \in Files : \A n \in DOMAIN read[g] : IsFiniteSet(read[g][n].line.calls)
    BY DEF Past
  <2>2. ASSUME NEW g \in Files PROVE \A n \in DOMAIN read'[g] : IsFiniteSet(read'[g][n].line.calls)
    <3>1. CASE g = f
      BY <1>3, <1>6, <3>1
    <3>2. CASE g # f
      BY <1>1, <2>1, <3>2
    <3> QED BY <3>1, <3>2
  <2> QED BY <1>4, <2>1, <2>2 DEF Past
<1>10. PICK H, K : H = HistoryOf(old, read) /\ K = HistoryOf(old, read')
  OBVIOUS
<1>11. H = History /\ K = History'
  <2>1. History' = HistoryOf(old', read')
    BY DEF History, HistoryOf, Taken, TakenIn, TakenOf, AgentOf, AgentIn
  <2> QED BY <1>8, <1>10, <2>1, HistoryNow
<1>12. H \in [Files -> Seq(ToldLine)] /\ K \in [Files -> Seq(ToldLine)]
  BY <1>9, <1>10, HistoryIs
<1>13. Extended(K, H, f, x)
  <2>1. \A g \in Files : /\ H[g] = old[g] \o TakenIn(read[g]) /\ K[g] = old[g] \o TakenIn(read'[g])
                        /\ old[g] \in Seq(ToldLine) /\ TakenIn(read[g]) \in Seq(ToldLine)
    <3>1. Past(old, read)
      OBVIOUS
    <3>2. \A g \in Files : /\ H[g] = old[g] \o TakenIn(read[g])
                          /\ old[g] \in Seq(ToldLine) /\ TakenIn(read[g]) \in Seq(ToldLine)
      BY <1>10, <3>1, HistoryIs
    <3>3. \A g \in Files : K[g] = old[g] \o TakenIn(read'[g])
      BY <1>9, <1>10, HistoryIs
    <3> QED BY <3>2, <3>3
  <2>2. K[f] = Append(H[f], x)
    <3>1. PICK o, u : o = old[f] /\ u = TakenIn(read[f])
      OBVIOUS
    <3>2. H[f] = o \o u /\ o \in Seq(ToldLine) /\ u \in Seq(ToldLine)
      BY <2>1, <3>1
    <3>3. K[f] = o \o Append(u, x)
      BY <1>3, <1>6, <2>1, <3>1
    <3>4. o \o Append(u, x) = Append(o \o u, x)
      BY <1>6, <3>2, ConcatAppend
    <3> QED BY <3>2, <3>3, <3>4
  <2>3. ASSUME NEW g \in Files, g # f PROVE K[g] = H[g]
    BY <1>1, <2>1, <2>3
  <2> QED BY <1>12, <2>2, <2>3 DEF Extended
<1>14. PICK p \in 0..made : MayStart(p) /\ Tells(store \o batch, H, p, made)
  BY <1>11 DEF StoreTells
<1>21. p \in Nat /\ p <= made
  BY <1>4, <1>14
<1>15. PICK fs : fs = FileState(f, line)
  OBVIOUS
<1>16. f # resetting
  BY <1>8, PiAssumption
<1>17. /\ IsEntry(fs)
       /\ line.type # "blank" => /\ fs.bad => Describes(fs, t)
                                 /\ ~fs.bad => Describes(Folded(fs, line, ts), t)
  BY <1>2, <1>3, <1>15, <1>16, HandleDescribes DEF PiInv
<1>18. ASSUME batch' = batch, made' = made, line.type = "blank" \/ fs.bad
       PROVE  Tells(store' \o batch', K, p, made')
  <2>1. x.line.type = "blank" \/ x.agent = Absent
    BY <1>7, <1>17, <1>18 DEF Describes
  <2>2. Tells(store \o batch, K, p, made)
    BY <1>4, <1>6, <1>12, <1>13, <1>14, <1>21, <2>1, NoEventTells
  <2> QED BY <1>8, <1>18, <2>2
<1>19. ASSUME line.type # "blank", ~fs.bad, batch' = Append(batch, Event(f, line, ts)),
              made' = made + 1
       PROVE  Tells(store' \o batch', K, p, made')
  <2>1. PICK e : e = Event(f, line, ts)
    OBVIOUS
  <2>2. fs.agent = AgentIn(t) /\ AgentIn(t) # Absent
    <3>1. Describes(Folded(fs, line, ts), t)
      BY <1>17, <1>19
    <3>2. Folded(fs, line, ts).bad = fs.bad /\ Folded(fs, line, ts).agent = fs.agent
      BY <1>2, <1>17, FoldedFields
    <3> QED BY <1>19, <3>1, <3>2 DEF Describes
  <2>3. Says(e, x)
    BY <1>5, <1>15, <2>1, <2>2, EventSays DEF Of
  <2>4. e \in EventType /\ e.file = f
    BY <1>2, <1>15, <1>17, <2>1, EventTyped DEF PiInv
  <2>5. store \in Seq(EventType) /\ batch \in Seq(EventType) /\ store \o batch \in Seq(EventType)
    BY EventsTyped
  <2>6. Tells(Append(store \o batch, e), K, p, made + 1)
    BY <1>4, <1>6, <1>7, <1>12, <1>13, <1>14, <1>21, <1>19, <2>2, <2>3, <2>4, <2>5, EventTells
  <2>7. store \o Append(batch, e) = Append(store \o batch, e)
    BY <2>4, <2>5, ConcatAppend
  <2> QED BY <1>8, <1>19, <2>1, <2>6, <2>7
<1>20. Tells(store' \o batch', K, p, made')
  BY <1>1, <1>15, <1>18, <1>19
<1>22. p \in 0..made' /\ MayStart(p)'
  <2>1. made' = made \/ made' = made + 1
    BY <1>1
  <2>2. Keep \in Nat /\ MaxEvents \in Nat
    BY KeepIs
  <2> QED BY <1>4, <1>14, <1>21, <2>1, <2>2 DEF MayStart
<1> QED BY <1>8, <1>9, <1>11, <1>20, <1>22 DEF StoreTells

LEMMA HandleQuiet ==
  ASSUME PiInv, PiInv', QuietInv, report.pc # "done",
         NEW f \in Files, NEW line \in FirstLines \cup Lines, HandleLine(f, line)
  PROVE  QuietInv'
<1>1. Past(old', read') /\ StoreTells'
  BY HandleTells DEF QuietInv
<1>2. EntriesTell'
  BY HandleEntriesTell DEF QuietInv
<1>3. UNCHANGED <<old, gen, resetting, store, report>>
  BY DEF HandleLine
<1>5. ScanFresh' /\ QuietReport'
  <2>1. PICK ts \in Nat :
          Grown(read'[f], read[f], line, ts) /\ \A g \in Files : g # f => read'[g] = read[g]
    BY HandleLineIs
  <2>2. /\ gen \in [Files -> Nat] /\ read \in [Files -> Seq(Rec)]
    BY DEF PiInv, PiTypes
  <2>3. \A g \in Files : gen[g] \in Nat /\ Len(read[g]) \in Nat
    BY <2>2, LenProperties
  <2>4. Len(read'[f]) = Len(read[f]) + 1
    BY <2>1, <2>2, PiAssumption, AppendFacts
  <2>5. Len(read[f]) < Len(read'[f])
    BY <2>3, <2>4
  <2>6. Forward(gen, read, gen', read')
    <3> SUFFICES ASSUME NEW g \in Files PROVE gen[g] = gen'[g] /\ Len(read[g]) <= Len(read'[g])
      BY DEF Forward
    <3>1. CASE g = f
      BY <1>3, <2>3, <2>4, <3>1
    <3>2. CASE g # f
      BY <1>3, <2>1, <2>3, <3>2
    <3> QED BY <3>1, <3>2
  <2> QED BY <1>3, <2>5, <2>6, FreshEnds DEF QuietInv
<1> QED BY <1>1, <1>2, <1>5 DEF QuietInv

\* What the cap drops makes the events those of the lines from a later one on.
LEMMA FlushQuiet ==
  ASSUME PiInv, QuietInv, report.pc # "done", Flush
  PROVE  QuietInv'
<1>1. /\ batch # <<>> /\ store' = Trimmed(store \o batch) /\ batch' = <<>>
      /\ UNCHANGED <<made, read, old, gen, resetting, files, report>>
  BY DEF Flush
<1>2. PICK s : s = store \o batch
  OBVIOUS
<1>3. s \in Seq(EventType) /\ store' = Trimmed(s) /\ made \in Nat
  BY <1>1, <1>2, EventsTyped DEF PiInv, PiTypes
<1>4. PICK H : H = History /\ H \in [Files -> Seq(ToldLine)]
  BY HistoryIs, HistoryNow DEF QuietInv
<1>5. History' = H
  BY <1>1, <1>4 DEF History, Taken, AgentOf
<1>6. PICK p \in 0..made : MayStart(p) /\ Tells(s, H, p, made)
  BY <1>2, <1>4 DEF QuietInv, StoreTells
<1>7. \E p2 \in 0..made : MayStart(p2) /\ Tells(Trimmed(s), H, p2, made)
  <2>1. CASE Len(s) > MaxEvents
    <3>1. PICK p2 \in Nat : /\ Tells(Trimmed(s), H, p2, made)
                            /\ MaxEvents < made /\ p2 + Keep <= made
      <4>1. p \in Nat
        BY <1>3, <1>6
      <4> QED BY <1>3, <1>4, <1>6, <2>1, <4>1, TrimTells
    <3>2. p2 \in 0..made /\ MayStart(p2)
      BY <1>3, <3>1, KeepIs DEF MayStart
    <3> QED BY <3>1, <3>2
  <2>2. CASE ~(Len(s) > MaxEvents)
    BY <1>6, <2>2 DEF Trimmed
  <2> QED BY <2>1, <2>2
<1>8. StoreTells'
  <2>1. PICK w : w = Trimmed(s) /\ w \in Seq(EventType)
    <3>1. CASE Len(s) > MaxEvents
      BY <1>3, <3>1, TrimmedIs
    <3>2. CASE ~(Len(s) > MaxEvents)
      BY <1>3, <3>2 DEF Trimmed
    <3> QED BY <3>1, <3>2
  <2>2. store' \o batch' = w
    BY <1>1, <1>3, <2>1, ConcatEmptySeq
  <2>3. PICK p2 \in 0..made : MayStart(p2) /\ Tells(w, H, p2, made)
    BY <1>7, <2>1
  <2>4. made' = made /\ MayStart(p2)'
    BY <1>1, <2>3 DEF MayStart
  <2> QED BY <1>5, <2>2, <2>3, <2>4 DEF StoreTells
<1>9. Past(old', read') /\ EntriesTell'
  BY <1>1 DEF QuietInv, EntriesTell
<1>10. ScanFresh' /\ QuietReport'
  BY <1>1, FreshNever DEF QuietInv
<1> QED BY <1>8, <1>9, <1>10 DEF QuietInv

\* What stays as it is tells what it told.
LEMMA StoreTellsStill ==
  ASSUME StoreTells, made' = made, store' \o batch' = store \o batch, History' = History
  PROVE  StoreTells'
<1>1. PICK p \in 0..made : MayStart(p) /\ Tells(store \o batch, History, p, made)
  BY DEF StoreTells
<1>2. MayStart(p)'
  BY <1>1 DEF MayStart
<1> HIDE DEF History
<1> QED BY <1>1, <1>2 DEF StoreTells

LEMMA ResetQuiet ==
  ASSUME PiInv, QuietInv, report.pc # "done", Reset
  PROVE  QuietInv'
<1>1. /\ resetting # Absent /\ resetting' = Absent
      /\ files' = [f \in DOMAIN files \ {resetting} |-> files[f]]
      /\ UNCHANGED <<made, read, old, gen, batch, store, report>>
  BY DEF Reset
<1>2. History' = History
  BY <1>1 DEF History, Taken, AgentOf
<1>3. StoreTells'
  BY <1>1, <1>2, StoreTellsStill DEF QuietInv
<1>4. Past(old', read')
  BY <1>1 DEF QuietInv
<1>5. EntriesTell'
  <2> SUFFICES ASSUME NEW f \in Files, f \in DOMAIN files', ~files'[f].bad
               PROVE  EntryTells(files'[f], read[f])
    BY <1>1 DEF EntriesTell
  <2>1. f # resetting /\ f \in DOMAIN files /\ files'[f] = files[f]
    BY <1>1
  <2> QED BY <2>1 DEF QuietInv, EntriesTell
<1>6. ScanFresh' /\ QuietReport'
  BY <1>1, FreshNever DEF QuietInv
<1> QED BY <1>3, <1>4, <1>5, <1>6 DEF QuietInv

LEMMA NothingTaken == TakenIn(<<>>) = <<>>
<1>1. DOMAIN <<>> = {}
  OBVIOUS
<1>2. \A n \in DOMAIN <<>> : IsFiniteSet(<<>>[n].line.calls)
  BY <1>1
<1>3. TakenIn(<<>>) \in Seq(ToldLine) /\ Len(TakenIn(<<>>)) = 0
  BY <1>2, EmptySeq, TakenInType
<1> QED BY <1>3, EmptySeq

\* What a file that starts over leaves of the lines and of the report.
LEMMA RestartQuiet ==
  ASSUME PiInv, PiInv', QuietInv, report.pc # "done", NEW f \in Files, Restart(f),
         UNCHANGED <<files, report>>
  PROVE  /\ read'[f] = <<>> /\ \A g \in Files : g # f => read'[g] = read[g]
         /\ old' \in [Files -> Seq(ToldLine)] => Past(old', read')
         /\ batch = <<>> /\ EntriesTell' /\ ScanFresh' /\ QuietReport'
<1>1. /\ resetting = Absent /\ batch = <<>> /\ resetting' = f
      /\ read' = [read EXCEPT ![f] = <<>>] /\ gen' = [gen EXCEPT ![f] = @ + 1]
  BY DEF Restart
<1>2. /\ gen \in [Files -> Nat] /\ read \in [Files -> Seq(Rec)]
      /\ gen' \in [Files -> Nat] /\ read' \in [Files -> Seq(Rec)]
  BY DEF PiInv, PiTypes
<1>3. /\ read'[f] = <<>> /\ gen'[f] = gen[f] + 1 /\ gen[f] \in Nat
      /\ \A g \in Files : g # f => read'[g] = read[g] /\ gen'[g] = gen[g]
  BY <1>1, <1>2
<1>4. \A g \in Files : gen[g] \in Nat /\ Len(read[g]) \in Nat
  BY <1>2, LenProperties
<1>5. ASSUME old' \in [Files -> Seq(ToldLine)] PROVE Past(old', read')
  <2>1. ASSUME NEW g \in Files PROVE \A n \in DOMAIN read'[g] : IsFiniteSet(read'[g][n].line.calls)
    <3>1. CASE g = f
      <4>1. DOMAIN <<>> = {}
        OBVIOUS
      <4> QED BY <1>3, <3>1, <4>1
    <3>2. CASE g # f
      <4>1. \A n \in DOMAIN read[g] : IsFiniteSet(read[g][n].line.calls)
        BY DEF QuietInv, Past
      <4> QED BY <1>3, <3>2, <4>1
    <3> QED BY <3>1, <3>2
  <2> QED BY <1>2, <1>5, <2>1 DEF Past
<1>6. EntriesTell'
  <2> SUFFICES ASSUME NEW g \in Files, g # f, g \in DOMAIN files, ~files[g].bad
               PROVE  EntryTells(files[g], read'[g])
    BY <1>1 DEF EntriesTell
  <2>1. g # resetting /\ read'[g] = read[g]
    BY <1>1, <1>3, PiAssumption
  <2> QED BY <2>1 DEF QuietInv, EntriesTell
<1>7. Forward(gen, read, gen', read') /\ gen[f] < gen'[f]
  <2>1. gen[f] < gen'[f]
    BY <1>3
  <2> SUFFICES ASSUME NEW g \in Files, g # f
               PROVE  gen[g] = gen'[g] /\ Len(read[g]) <= Len(read'[g])
    BY <2>1 DEF Forward
  <2> QED BY <1>3, <1>4
<1>8. ScanFresh' /\ QuietReport'
  BY <1>7, FreshEnds DEF QuietInv
<1> QED BY <1>1, <1>3, <1>5, <1>6, <1>8

\* The events of a replaced file stay.
LEMMA RotateQuiet ==
  ASSUME PiInv, PiInv', QuietInv, report.pc # "done", NEW f \in Files, Rotate(f)
  PROVE  QuietInv'
<1>1. /\ Restart(f) /\ old' = [old EXCEPT ![f] = @ \o Taken(f)]
      /\ batch' = batch /\ store' = store /\ made' = made /\ UNCHANGED <<files, report>>
  BY DEF Rotate, Restart
<1>2. PICK H : H = HistoryOf(old, read)
  OBVIOUS
<1>3. /\ H \in [Files -> Seq(ToldLine)] /\ Past(old, read) /\ H = History
      /\ \A g \in Files : H[g] = old[g] \o TakenIn(read[g])
  BY <1>2, HistoryIs, HistoryNow DEF QuietInv
<1>4. /\ old' \in [Files -> Seq(ToldLine)] /\ old'[f] = H[f]
      /\ \A g \in Files : g # f => old'[g] = old[g]
  <2>1. old \in [Files -> Seq(ToldLine)]
    BY <1>3 DEF Past
  <2>2. Taken(f) = TakenIn(read[f])
    BY DEF Taken, TakenIn, TakenOf, AgentOf, AgentIn
  <2>3. PICK u : u = old[f] \o Taken(f)
    OBVIOUS
  <2>4. u = H[f]
    BY <1>3, <2>2, <2>3
  <2>5. old' = [old EXCEPT ![f] = u]
    BY <1>1, <2>3
  <2>6. u \in Seq(ToldLine)
    BY <1>3, <2>4
  <2> QED BY <2>1, <2>4, <2>5, <2>6
<1>5. /\ read'[f] = <<>> /\ (\A g \in Files : g # f => read'[g] = read[g])
      /\ Past(old', read') /\ EntriesTell' /\ ScanFresh' /\ QuietReport'
  BY <1>1, <1>4, RestartQuiet
<1>6. PICK K : K = HistoryOf(old', read')
  OBVIOUS
<1>7. /\ K \in [Files -> Seq(ToldLine)] /\ K = History'
      /\ \A g \in Files : K[g] = old'[g] \o TakenIn(read'[g])
  <2>1. K \in [Files -> Seq(ToldLine)] /\ \A g \in Files : K[g] = old'[g] \o TakenIn(read'[g])
    BY <1>5, <1>6, HistoryIs
  <2>2. History' = HistoryOf(old', read')
    BY DEF History, HistoryOf, Taken, TakenIn, TakenOf, AgentOf, AgentIn
  <2> QED BY <1>6, <2>1, <2>2
<1>8. K = H
  <2>1. ASSUME NEW g \in Files PROVE K[g] = H[g]
    <3>1. CASE g = f
      <4>1. K[f] = H[f] \o <<>>
        BY <1>4, <1>5, <1>7, NothingTaken
      <4>2. H[f] \in Seq(ToldLine)
        BY <1>3
      <4> QED BY <3>1, <4>1, <4>2, ConcatEmptySeq
    <3>2. CASE g # f
      BY <1>3, <1>4, <1>5, <1>7, <3>2
    <3> QED BY <3>1, <3>2
  <2> QED BY <1>3, <1>7, <2>1
<1>9. StoreTells'
  BY <1>1, <1>3, <1>7, <1>8, StoreTellsStill DEF QuietInv
<1> QED BY <1>5, <1>9 DEF QuietInv

\* The events of one that is cut off go.
LEMMA TruncateQuiet ==
  ASSUME PiInv, PiInv', QuietInv, report.pc # "done", NEW f \in Files, Truncate(f)
  PROVE  QuietInv'
<1>1. /\ Restart(f) /\ old' = [old EXCEPT ![f] = <<>>] /\ store' = Without(store, f)
      /\ batch' = batch /\ made' = made /\ UNCHANGED <<files, report>>
  BY DEF Truncate, Restart
<1>2. PICK H : H = HistoryOf(old, read)
  OBVIOUS
<1>3. /\ H \in [Files -> Seq(ToldLine)] /\ Past(old, read) /\ H = History
      /\ \A g \in Files : H[g] = old[g] \o TakenIn(read[g])
  BY <1>2, HistoryIs, HistoryNow DEF QuietInv
<1>4. /\ old' \in [Files -> Seq(ToldLine)] /\ old'[f] = <<>>
      /\ \A g \in Files : g # f => old'[g] = old[g]
  <2>1. old \in [Files -> Seq(ToldLine)] /\ <<>> \in Seq(ToldLine)
    BY <1>3, EmptySeq DEF Past
  <2> QED BY <1>1, <2>1
<1>5. /\ read'[f] = <<>> /\ (\A g \in Files : g # f => read'[g] = read[g]) /\ batch = <<>>
      /\ Past(old', read') /\ EntriesTell' /\ ScanFresh' /\ QuietReport'
  BY <1>1, <1>4, RestartQuiet
<1>6. PICK K : K = HistoryOf(old', read')
  OBVIOUS
<1>7. /\ K \in [Files -> Seq(ToldLine)] /\ K = History'
      /\ \A g \in Files : K[g] = old'[g] \o TakenIn(read'[g])
  <2>1. K \in [Files -> Seq(ToldLine)] /\ \A g \in Files : K[g] = old'[g] \o TakenIn(read'[g])
    BY <1>5, <1>6, HistoryIs
  <2>2. History' = HistoryOf(old', read')
    BY DEF History, HistoryOf, Taken, TakenIn, TakenOf, AgentOf, AgentIn
  <2> QED BY <1>6, <2>1, <2>2
<1>8. K = [H EXCEPT ![f] = <<>>]
  <2>1. K[f] = <<>>
    <3>1. K[f] = <<>> \o <<>>
      BY <1>4, <1>5, <1>7, NothingTaken
    <3>2. <<>> \in Seq(ToldLine)
      BY EmptySeq
    <3> QED BY <3>1, <3>2, ConcatEmptySeq
  <2>2. ASSUME NEW g \in Files, g # f PROVE K[g] = H[g]
    BY <1>3, <1>4, <1>5, <1>7, <2>2
  <2> QED BY <1>3, <1>7, <2>1, <2>2
<1>9. store \in Seq(EventType) /\ store \o batch = store
  <2>1. store \in Seq(EventType) /\ store \o <<>> = store
    BY EventsTyped, ConcatEmptySeq
  <2> QED BY <1>5, <2>1
<1>10. PICK p \in 0..made : MayStart(p) /\ Tells(store, H, p, made)
  BY <1>3, <1>9 DEF QuietInv, StoreTells
<1>11. Tells(Without(store, f), K, p, made)
  BY <1>3, <1>8, <1>9, <1>10, FileGone
<1>12. store' \o batch' = Without(store, f)
  BY <1>1, <1>5, <1>9, WithoutKeeps, ConcatEmptySeq
<1>13. MayStart(p)'
  BY <1>1, <1>10 DEF MayStart
<1>14. StoreTells'
  BY <1>1, <1>7, <1>10, <1>11, <1>12, <1>13 DEF StoreTells
<1> QED BY <1>5, <1>14 DEF QuietInv

LEMMA ScanQuiet ==
  ASSUME PiInv, QuietInv, NEW now \in Nows, Scan(now)
  PROVE  QuietInv'
<1>1. UNCHANGED <<made, read, old, gen, resetting, batch, store, files>>
  BY DEF Scan, tailVars
<1>2. PICK S : S = {<<store[i].file, store[i].gen, store[i].call>> : i \in DOMAIN store}
  OBVIOUS
<1>3. PICK r : r = ScanOf(now)
  OBVIOUS
<1>4. PICK t : t = IF batch = <<>> /\ resetting = Absent THEN {Stamp} ELSE {}
  OBVIOUS
<1>5. report' = [pc |-> "scanned", now |-> now, rows |-> r, seen |-> S, stamp |-> t]
  BY <1>2, <1>3, <1>4, Zenon DEF Scan, ScanOf
<1>6. report'.pc = "scanned"
  BY <1>5
<1>7. Stamp \in Stamps /\ Before(Stamp, Stamp)
  <2>1. gen \in [Files -> Nat] /\ read \in [Files -> Seq(Rec)] /\ Stamp = StampOf(gen, read)
    BY DEF PiInv, PiTypes, Stamp, StampOf
  <2> HIDE DEF Stamp
  <2>2. \A f \in Files : Stamp[f][1] = gen[f] /\ Stamp[f][2] = Len(read[f]) /\ Len(read[f]) \in Nat
    BY <2>1, StampIs
  <2>3. Before(Stamp, Stamp)
    BY <2>2 DEF Before
  <2> QED BY <2>1, <2>3, StampIs
<1>8. Stamp' = Stamp /\ ScanOf(now)' = ScanOf(now)
  <2>1. Stamp' = Stamp
    BY <1>1 DEF Stamp
  <2>2. ScanOf(now)' = ScanOf(now)
    BY <1>1 DEF ScanOf, Scanned
  <2> QED BY <2>1, <2>2
<1>9. ScanFresh'
  <2>1. t \subseteq Stamps /\ (\A st \in t : Before(st, Stamp)) /\ (Stamp \in t => batch = <<>> /\ resetting = Absent)
    BY <1>4, <1>7
  <2>2. t \subseteq Stamps /\ (\A st \in t : Before(st, Stamp'))
    BY <1>8, <2>1
  <2>3. Stamp' \in t => batch' = <<>> /\ resetting' = Absent /\ r = ScanOf(now)'
    BY <1>1, <1>3, <1>8, <2>1
  <2> HIDE DEF Stamp, ScanOf
  <2> QED BY <1>5, <2>2, <2>3, Zenon DEF ScanFresh
<1>10. QuietReport'
  BY <1>6 DEF QuietReport
<1>11. Past(old', read') /\ EntriesTell' /\ StoreTells'
  <2>1. History' = History
    BY <1>1 DEF History, Taken, AgentOf
  <2>2. StoreTells'
    BY <1>1, <2>1, StoreTellsStill DEF QuietInv
  <2>3. Past(old', read')
    BY <1>1 DEF QuietInv
  <2>4. EntriesTell'
    BY <1>1 DEF QuietInv, EntriesTell
  <2> QED BY <2>2, <2>3, <2>4
<1> QED BY <1>9, <1>10, <1>11 DEF QuietInv

LEMMA QuietInitial == PiInit => QuietInv
<1> SUFFICES ASSUME PiInit PROVE QuietInv
  OBVIOUS
<1>1. /\ read = [f \in Files |-> <<>>] /\ old = read /\ batch = <<>> /\ store = <<>> /\ files = <<>>
      /\ report = [pc |-> "idle"] /\ made = 0 /\ DOMAIN <<>> = {}
  BY DEF PiInit
<1>2. Past(old, read)
  <2>1. <<>> \in Seq(ToldLine) /\ <<>> \in Seq(Rec)
    BY EmptySeq
  <2> QED BY <1>1, <2>1 DEF Past
<1>4. EntriesTell
  BY <1>1 DEF EntriesTell
<1>5. ScanFresh /\ QuietReport
  BY <1>1 DEF ScanFresh, QuietReport
<1>6. PICK H : H = HistoryOf(old, read)
  OBVIOUS
<1>7. \A f \in Files : H[f] = <<>>
  <2>1. \A f \in Files : H[f] = <<>> \o <<>>
    <3>1. \A f \in Files : H[f] = old[f] \o TakenIn(read[f])
      BY <1>2, <1>6, HistoryIs
    <3>2. \A f \in Files : old[f] = <<>> /\ read[f] = <<>>
      BY <1>1
    <3> QED BY <3>1, <3>2, NothingTaken
  <2>2. <<>> \o <<>> = <<>>
    BY EmptySeq, ConcatEmptySeq
  <2> QED BY <2>1, <2>2
<1>8. Left(H, 0) = {}
  <2>1. \A i : i \notin Items(H)
    BY <1>1, <1>7, ItemIs
  <2> QED BY <2>1 DEF Left, Counted
<1>9. Tells(<<>>, H, 0, 0)
  <2>1. OneToOne(<<>>, DOMAIN <<>>, {}) /\ Finds(<<>>, <<>>, H) /\ InOrder(<<>>, <<>>, H, 0)
    BY <1>1 DEF OneToOne, Finds, InOrder
  <2> QED BY <1>8, <2>1 DEF Tells, Matched
<1>10. store \o batch = <<>>
  BY <1>1, EmptySeq, ConcatEmptySeq
<1>11. StoreTells
  <2>1. History = H
    BY <1>6, HistoryNow
  <2>2. 0 \in 0..made /\ MayStart(0)
    BY <1>1 DEF MayStart
  <2> HIDE DEF History
  <2> QED BY <1>1, <1>9, <1>10, <2>1, <2>2 DEF StoreTells
<1> QED BY <1>2, <1>4, <1>5, <1>11 DEF QuietInv

------------------------------------------------------------------------------
(***************************************************************************)
(* Counts, sums and greatest elements along a one-to-one map.              *)
(***************************************************************************)
LEMMA OneToOneIsBijection ==
  ASSUME NEW b, NEW D, NEW C, OneToOne(b, D, C)
  PROVE  b \in Bijection(D, C) /\ ExistsBijection(D, C)
BY DEF OneToOne, Bijection, Injection, Surjection, IsInjective, ExistsBijection

\* D1 and C1 correspond.
Match(b, D, D1, C, C1) ==
  D1 \subseteq D /\ C1 \subseteq C /\ \A x \in D : x \in D1 <=> b[x] \in C1

LEMMA RestrictedOneToOne ==
  ASSUME NEW b, NEW D, NEW C, OneToOne(b, D, C), NEW D1, NEW C1, Match(b, D, D1, C, C1)
  PROVE  OneToOne([x \in D1 |-> b[x]], D1, C1)
<1> DEFINE c == [x \in D1 |-> b[x]]
<1>1. \A x \in D1 : x \in D /\ c[x] = b[x] /\ c[x] \in C1
  BY DEF Match
<1>2. c \in [D1 -> C1]
  BY <1>1
<1> HIDE DEF c
<1>3. \A x, y \in D1 : c[x] = c[y] => x = y
  BY <1>1 DEF OneToOne
<1>4. \A z \in C1 : \E x \in D1 : c[x] = z
  <2> SUFFICES ASSUME NEW z \in C1 PROVE \E x \in D1 : c[x] = z
    OBVIOUS
  <2>1. PICK x \in D : b[x] = z
    BY DEF OneToOne, Match
  <2>2. x \in D1
    BY <2>1 DEF Match
  <2> QED BY <1>1, <2>1, <2>2
<1>5. OneToOne(c, D1, C1)
  BY <1>2, <1>3, <1>4 DEF OneToOne
<1> QED BY <1>5 DEF c

LEMMA CountsMatch ==
  ASSUME NEW b, NEW D, NEW C, OneToOne(b, D, C), IsFiniteSet(D), NEW D1, NEW C1, Match(b, D, D1, C, C1)
  PROVE  /\ IsFiniteSet(D1) /\ IsFiniteSet(C1) /\ Cardinality(D1) = Cardinality(C1)
         /\ Cardinality(D1) \in Nat
<1>1. ExistsBijection(D1, C1)
  BY RestrictedOneToOne, OneToOneIsBijection
<1>2. IsFiniteSet(D1)
  BY FS_Subset DEF Match
<1> QED BY <1>1, <1>2, FS_Bijection, FS_CardinalityType

LEMMA SumsMatch ==
  ASSUME NEW b, NEW D, NEW C, OneToOne(b, D, C), IsFiniteSet(D), NEW D1, NEW C1, Match(b, D, D1, C, C1),
         NEW f, NEW g \in [C1 -> Int], DOMAIN f = D1, f = [x \in D1 |-> f[x]],
         \A x \in D1 : f[x] = g[b[x]]
  PROVE  SumOver(f) = SumOver(g)
<1> DEFINE c == [x \in D1 |-> b[x]]
<1>1. c \in Bijection(D1, C1) /\ \A x \in D1 : c[x] = b[x]
  BY RestrictedOneToOne, OneToOneIsBijection
<1>2. IsFiniteSet(D1)
  BY FS_Subset DEF Match
<1> HIDE DEF c
<1>3. f = [x \in D1 |-> g[c[x]]]
  BY <1>1
<1> QED BY <1>1, <1>2, <1>3, SumBijection

LEMMA MaxIs ==
  ASSUME NEW S \in SUBSET Nat, NEW v \in S, \A y \in S : y <= v
  PROVE  Max(S) = v
<1>1. \A y \in S : v >= y
  OBVIOUS
<1>2. Max(S) \in S /\ \A y \in S : Max(S) >= y
  BY <1>1 DEF Max
<1>3. PICK m : m = Max(S)
  OBVIOUS
<1>4. m \in Nat /\ v \in Nat /\ m >= v /\ m <= v
  BY <1>2, <1>3
<1> QED BY <1>3, <1>4

LEMMA NewestIs ==
  ASSUME NEW s \in Seq(Rec), NEW v, IsNewest(v, s)
  PROVE  NewestIn(s) = v
<1> DEFINE S == {0} \cup {s[n].ts : n \in {m \in DOMAIN s : s[m].line.type # "blank"}}
<1>1. \A n \in DOMAIN s : s[n].ts \in Nat
  <2>1. \A n \in DOMAIN s : s[n] \in Rec
    BY LenProperties, ElementOfSeq
  <2> QED BY <2>1 DEF Rec
<1>2. S \in SUBSET Nat
  BY <1>1
<1>3. v \in S
  BY DEF IsNewest
<1>4. \A y \in S : y <= v
  BY DEF IsNewest
<1>5. Max(S) = v
  <2> HIDE DEF S
  <2> QED BY <1>2, <1>3, <1>4, MaxIs
<1> QED BY <1>5 DEF NewestIn

LEMMA ContextIs ==
  ASSUME NEW s \in Seq(Rec), NEW c, IsContext(c, s)
  PROVE  ContextIn(s) = c
<1>1. CASE Turns(s) = {} /\ c = 0
  BY <1>1 DEF ContextIn
<1>2. ASSUME NEW n \in Turns(s), \A m \in Turns(s) : m <= n, c = s[n].line.tokens
      PROVE  ContextIn(s) = c
  <2>1. DOMAIN s = 1..Len(s) /\ Len(s) \in Nat
    BY LenProperties
  <2>2. Turns(s) \in SUBSET Nat
    BY <2>1 DEF Turns
  <2>3. Max(Turns(s)) = n
    BY <1>2, <2>2, MaxIs
  <2> QED BY <1>2, <2>3 DEF ContextIn
<1> QED BY <1>1, <1>2 DEF IsContext

------------------------------------------------------------------------------
(***************************************************************************)
(* The scan.                                                               *)
(***************************************************************************)
\* The parts of Scanned.
EventsOf(s, a) == {i \in DOMAIN s : s[i].client = a}
Window(s, a, now) == {i \in EventsOf(s, a) : s[i].ts > now - Lookback}
OfKind(s, a, now, kind) == {i \in Window(s, a, now) : s[i].kind = kind}
Paying(S, s) == {i \in S : s[i].cost # Absent}
Spending(S, s) == SumOver([i \in S |-> s[i].cost])
PaidSince(s, a, from, now) == {i \in Paying(EventsOf(s, a), s) : s[i].ts \in from..now}

\* r are the numbers of the events of agent a in s.
Numbers(r, s, a, now) ==
  /\ r.lastSeen = Max({0} \cup {s[i].ts : i \in EventsOf(s, a)})
  /\ r.spendToday = Spending(PaidSince(s, a, Midnight(now), now), s)
  /\ r.spendHour = Spending(PaidSince(s, a, now - Hour, now), s)
  /\ r.compactions = Cardinality(OfKind(s, a, now, "compaction"))
  /\ r.toolErrors = Cardinality({i \in OfKind(s, a, now, "toolResult") : s[i].level = "error"})
  /\ r.toolCalls = SumOver([i \in OfKind(s, a, now, "assistant") |-> s[i].toolCalls])
  /\ r.fallbackN = Cardinality({i \in OfKind(s, a, now, "router") : s[i].fallback})
  /\ r.fallbackD = Cardinality(OfKind(s, a, now, "router"))
  /\ \A m \in DOMAIN r.models :
       m # "" /\ r.models[m] = Spending({i \in Paying(Window(s, a, now), s) : s[i].costDim = m}, s)

LEMMA ScannedNumbers ==
  ASSUME store \in Seq(EventType), NEW a, EventsOf(store, a) # {}, NEW now
  PROVE  Numbers(Scanned(a, now), store, a, now)
<1>1. PICK v : v = Max({store[i].ts : i \in EventsOf(store, a)})
  OBVIOUS
<1>2. PICK st : st = Spending(PaidSince(store, a, Midnight(now), now), store)
  OBVIOUS
<1>3. PICK sh : sh = Spending(PaidSince(store, a, now - Hour, now), store)
  OBVIOUS
<1>4. PICK c : c = Cardinality(OfKind(store, a, now, "compaction"))
  OBVIOUS
<1>5. PICK te : te = Cardinality({i \in OfKind(store, a, now, "toolResult") : store[i].level = "error"})
  OBVIOUS
<1>6. PICK tc : tc = SumOver([i \in OfKind(store, a, now, "assistant") |-> store[i].toolCalls])
  OBVIOUS
<1>7. PICK fn : fn = Cardinality({i \in OfKind(store, a, now, "router") : store[i].fallback})
  OBVIOUS
<1>8. PICK fd : fd = Cardinality(OfKind(store, a, now, "router"))
  OBVIOUS
<1>9. PICK ms : ms = [m \in {store[i].costDim : i \in Paying(Window(store, a, now), store)} \ {""} |->
                       Spending({i \in Paying(Window(store, a, now), store) : store[i].costDim = m}, store)]
  OBVIOUS
<1>10. PICK r : r = [lastSeen |-> v, spendToday |-> st, spendHour |-> sh, compactions |-> c, toolErrors |-> te,
                     toolCalls |-> tc, fallbackN |-> fn, fallbackD |-> fd, models |-> ms]
  OBVIOUS
<1>11. Scanned(a, now) = r
  BY <1>1, <1>2, <1>3, <1>4, <1>5, <1>6, <1>7, <1>8, <1>9, <1>10, Zenon
     DEF Scanned, EventsOf, Window, OfKind, Paying, Spending, PaidSince
<1>12. \A m \in DOMAIN ms :
         m # "" /\ ms[m] = Spending({i \in Paying(Window(store, a, now), store) : store[i].costDim = m}, store)
  BY <1>9
<1>13. v = Max({0} \cup {store[i].ts : i \in EventsOf(store, a)})
  <2> DEFINE g == [i \in EventsOf(store, a) |-> store[i].ts]
             T == {g[i] : i \in DOMAIN g}
  <2>1. DOMAIN store = 1..Len(store) /\ Len(store) \in Nat /\ \A i \in DOMAIN store : store[i] \in EventType
    BY LenProperties, ElementOfSeq
  <2>2. IsFiniteSet(EventsOf(store, a))
    <3>1. IsFiniteSet(DOMAIN store)
      BY <2>1, FS_Interval
    <3> QED BY <3>1, FS_Subset DEF EventsOf
  <2>3. DOMAIN g = EventsOf(store, a) /\ IsFiniteSet(T)
    <3>1. DOMAIN g = EventsOf(store, a)
      OBVIOUS
    <3> HIDE DEF g
    <3> QED BY <2>2, <3>1, ImageFinite
  <2>4. T = {store[i].ts : i \in EventsOf(store, a)}
    OBVIOUS
  <2>5. T \in SUBSET Nat /\ T # {}
    <3>1. \A i \in DOMAIN store : store[i].ts \in Nat
      BY <2>1 DEF EventType
    <3>2. EventsOf(store, a) \subseteq DOMAIN store
      BY DEF EventsOf
    <3> HIDE DEF T
    <3> QED BY <2>4, <3>1, <3>2
  <2> HIDE DEF T
  <2>6. PICK w \in T : \A y \in T : y <= w
    BY <2>3, <2>5, GreatestElement
  <2>7. Max(T) = w
    BY <2>5, <2>6, MaxIs
  <2>8. Max({0} \cup T) = w
    <3>1. {0} \cup T \in SUBSET Nat /\ w \in {0} \cup T /\ \A y \in {0} \cup T : y <= w
      BY <2>5, <2>6
    <3> QED BY <3>1, MaxIs
  <2> QED BY <1>1, <2>4, <2>7, <2>8
<1>14. /\ r.lastSeen = v /\ r.spendToday = st /\ r.spendHour = sh /\ r.compactions = c /\ r.toolErrors = te
       /\ r.toolCalls = tc /\ r.fallbackN = fn /\ r.fallbackD = fd /\ r.models = ms
  BY <1>10
<1>15. Numbers(r, store, a, now)
  BY <1>2, <1>3, <1>4, <1>5, <1>6, <1>7, <1>8, <1>12, <1>13, <1>14, Zenon DEF Numbers
<1> QED BY <1>11, <1>15

LEMMA UnseenNumbers ==
  ASSUME NEW s, NEW a, EventsOf(s, a) = {}, NEW now
  PROVE  Numbers(Unseen, s, a, now)
<1>1. /\ \A from : PaidSince(s, a, from, now) = {}
      /\ \A kind : OfKind(s, a, now, kind) = {}
      /\ Window(s, a, now) = {}
  BY DEF PaidSince, OfKind, Window, Paying
<1>2. Spending({}, s) = 0
  <2>1. DOMAIN [i \in {} |-> s[i].cost] = {}
    OBVIOUS
  <2> QED BY <2>1, SumEmpty DEF Spending
<1>3. SumOver([i \in {} |-> s[i].toolCalls]) = 0
  <2>1. DOMAIN [i \in {} |-> s[i].toolCalls] = {}
    OBVIOUS
  <2> QED BY <2>1, SumEmpty
<1>4. Cardinality({}) = 0
  BY FS_EmptySet
<1>5. Max({0} \cup {s[i].ts : i \in EventsOf(s, a)}) = 0
  <2>1. {0} \cup {s[i].ts : i \in EventsOf(s, a)} = {0}
    OBVIOUS
  <2>2. Max({0}) = 0
    <3>1. {0} \in SUBSET Nat /\ 0 \in {0} /\ \A y \in {0} : y <= 0
      OBVIOUS
    <3> QED BY <3>1, MaxIs
  <2> QED BY <2>1, <2>2
<1>6. DOMAIN <<>> = {}
  OBVIOUS
<1>7. /\ Unseen.lastSeen = 0 /\ Unseen.spendToday = 0 /\ Unseen.spendHour = 0 /\ Unseen.compactions = 0
      /\ Unseen.toolErrors = 0 /\ Unseen.toolCalls = 0 /\ Unseen.fallbackN = 0 /\ Unseen.fallbackD = 0
      /\ Unseen.models = <<>>
  BY DEF Unseen
<1>8. /\ {i \in OfKind(s, a, now, "toolResult") : s[i].level = "error"} = {}
      /\ {i \in OfKind(s, a, now, "router") : s[i].fallback} = {}
  BY <1>1
<1>9. SumOver([i \in OfKind(s, a, now, "assistant") |-> s[i].toolCalls]) = 0
  BY <1>1, <1>3
<1> QED BY <1>1, <1>2, <1>4, <1>5, <1>6, <1>7, <1>8, <1>9 DEF Numbers

LEMMA KindIs ==
  ASSUME NEW line, NEW t \in {"assistant", "toolResult", "compaction", "router", "usage"}
  PROVE  Kind(line) = t <=> line.type = t
BY DEF Kind

\* The event e of the line x, in the terms of Scanned and of QuietReport.
LEMMA SaysOf ==
  ASSUME NEW e \in EventType, NEW x \in ToldLine, Says(e, x)
  PROVE  /\ e.ts = x.ts /\ e.client = x.agent
         /\ \A t \in {"assistant", "toolResult", "compaction", "router", "usage"} :
              e.kind = t <=> x.line.type = t
         /\ x.line.type = "toolResult" => (e.level = "error" <=> x.line.failed)
         /\ x.line.type = "router" => (e.fallback <=> x.line.failed)
         /\ x.line.type = "assistant" => e.toolCalls = Cardinality(x.line.calls)
         /\ e.cost # Absent <=> /\ x.line.type \in {"assistant", "compaction", "usage"}
                                /\ x.line.cost # Absent
         /\ e.cost # Absent => e.cost = x.line.cost
         /\ \A m : m # "" =>
              (e.costDim = m <=> x.line.type \in {"assistant", "usage"} /\ x.line.model = m)
<1>1. e.ts = x.ts /\ e.client = x.agent /\ e.kind = Kind(x.line) /\ e.level = Level(x.line)
  BY DEF Says
<1>2. x.line.type = "toolResult" => (Level(x.line) = "error" <=> x.line.failed)
  BY DEF Level
<1>3. \A t \in {"assistant", "toolResult", "compaction", "router", "usage"} : e.kind = t <=> x.line.type = t
  BY <1>1, KindIs
<1>4. /\ e.fallback <=> x.line.type = "router" /\ x.line.failed
      /\ e.toolCalls = IF x.line.type = "assistant" THEN Cardinality(x.line.calls) ELSE 0
      /\ e.cost = IF x.line.type \in {"assistant", "compaction", "usage"} THEN x.line.cost ELSE Absent
      /\ e.costDim = IF x.line.type \in {"assistant", "usage"} THEN x.line.model ELSE ""
  BY DEF Says
<1> QED BY <1>1, <1>2, <1>3, <1>4

\* What is counted of the store is what the lines say.
LEMMA NumbersTell ==
  ASSUME NEW H, \A i \in Items(H) : At(H, i) \in ToldLine, NEW s \in Seq(EventType),
         NEW b, OneToOne(b, DOMAIN s, Counted(H)), Finds(b, s, H),
         NEW a, a # Absent, NEW now \in Nat, NEW r, Numbers(r, s, a, now)
  PROVE  ScanTells(r, H, a, now)
<1>1. OneToOne(b, DOMAIN s, Counted(H)) /\ Finds(b, s, H)
  OBVIOUS
<1>2. PICK D, C : D = DOMAIN s /\ C = Counted(H) /\ OneToOne(b, D, C)
  BY <1>1
<1>3. IsFiniteSet(D) /\ \A i \in D : s[i] \in EventType
  BY <1>2, LenProperties, ElementOfSeq, FS_Interval
<1> DEFINE x(i) == At(H, b[i])
<1>4. ASSUME NEW i \in D
      PROVE  /\ b[i] \in Items(H) /\ b[i] \in C /\ x(i).line.type # "blank"
             /\ x(i) \in ToldLine /\ Says(s[i], x(i))
  BY <1>1, <1>2 DEF Finds, OneToOne, Counted
<1>5. ASSUME NEW i \in D
      PROVE  /\ s[i].ts = x(i).ts /\ s[i].client = x(i).agent
             /\ \A t \in {"assistant", "toolResult", "compaction", "router", "usage"} :
                  s[i].kind = t <=> x(i).line.type = t
             /\ x(i).line.type = "toolResult" => (s[i].level = "error" <=> x(i).line.failed)
             /\ x(i).line.type = "router" => (s[i].fallback <=> x(i).line.failed)
             /\ x(i).line.type = "assistant" => s[i].toolCalls = Cardinality(x(i).line.calls)
             /\ s[i].cost # Absent <=> /\ x(i).line.type \in {"assistant", "compaction", "usage"}
                                       /\ x(i).line.cost # Absent
             /\ s[i].cost # Absent => s[i].cost = x(i).line.cost
             /\ \A m : m # "" =>
                  (s[i].costDim = m <=> x(i).line.type \in {"assistant", "usage"} /\ x(i).line.model = m)
  BY <1>3, <1>4, SaysOf
<1>6. Match(b, D, EventsOf(s, a), C, About(H, a))
  <2>1. EventsOf(s, a) \subseteq D /\ About(H, a) \subseteq C
    BY <1>2 DEF EventsOf, About, Counted
  <2>2. ASSUME NEW i \in D PROVE i \in EventsOf(s, a) <=> b[i] \in About(H, a)
    BY <1>2, <1>4, <1>5 DEF EventsOf, About
  <2> QED BY <2>1, <2>2 DEF Match
<1>7. /\ EventsOf(s, a) \subseteq D /\ About(H, a) \subseteq C
      /\ \A i \in D : i \in EventsOf(s, a) <=> b[i] \in About(H, a)
  BY <1>6 DEF Match
<1>8. ASSUME NEW t \in {"assistant", "toolResult", "compaction", "router", "usage"}
      PROVE  Match(b, D, OfKind(s, a, now, t), C, Typed(H, a, t, now))
  <2>1. OfKind(s, a, now, t) \subseteq D /\ Typed(H, a, t, now) \subseteq C
    BY <1>7 DEF OfKind, Window, Typed
  <2>2. ASSUME NEW i \in D PROVE i \in OfKind(s, a, now, t) <=> b[i] \in Typed(H, a, t, now)
    BY <1>5, <1>7 DEF OfKind, Window, Typed
  <2> QED BY <2>1, <2>2 DEF Match
<1>9. \A t \in {"assistant", "toolResult", "compaction", "router", "usage"} :
        /\ OfKind(s, a, now, t) \subseteq D /\ Typed(H, a, t, now) \subseteq C
        /\ \A i \in D : /\ i \in OfKind(s, a, now, t) <=> b[i] \in Typed(H, a, t, now)
                        /\ i \in OfKind(s, a, now, t) => x(i).line.type = t
  <2>1. \A t \in {"assistant", "toolResult", "compaction", "router", "usage"} :
          /\ OfKind(s, a, now, t) \subseteq D /\ Typed(H, a, t, now) \subseteq C
          /\ \A i \in D : i \in OfKind(s, a, now, t) <=> b[i] \in Typed(H, a, t, now)
    BY <1>8 DEF Match
  <2>2. ASSUME NEW t \in {"assistant", "toolResult", "compaction", "router", "usage"},
               NEW i \in D, i \in OfKind(s, a, now, t)
        PROVE  x(i).line.type = t
    BY <1>5, <2>2 DEF OfKind
  <2> QED BY <2>1, <2>2
<1>10. r.compactions = Cardinality(Typed(H, a, "compaction", now))
  <2>1. r.compactions = Cardinality(OfKind(s, a, now, "compaction"))
    BY DEF Numbers
  <2>2. Match(b, D, OfKind(s, a, now, "compaction"), C, Typed(H, a, "compaction", now))
    BY <1>8
  <2> QED BY <1>2, <1>3, <2>1, <2>2, CountsMatch
<1>11. r.fallbackD = Cardinality(Typed(H, a, "router", now))
  <2>1. r.fallbackD = Cardinality(OfKind(s, a, now, "router"))
    BY DEF Numbers
  <2>2. Match(b, D, OfKind(s, a, now, "router"), C, Typed(H, a, "router", now))
    BY <1>8
  <2> QED BY <1>2, <1>3, <2>1, <2>2, CountsMatch
<1>12. r.toolErrors = Cardinality({i \in Typed(H, a, "toolResult", now) : At(H, i).line.failed})
  <2>1. PICK D1, C1 : /\ D1 = {i \in OfKind(s, a, now, "toolResult") : s[i].level = "error"}
                      /\ C1 = {i \in Typed(H, a, "toolResult", now) : At(H, i).line.failed}
    OBVIOUS
  <2>2. Match(b, D, D1, C, C1)
    <3>1. D1 \subseteq D /\ C1 \subseteq C
      BY <1>9, <2>1
    <3>2. ASSUME NEW i \in D PROVE i \in D1 <=> b[i] \in C1
      BY <1>5, <1>9, <2>1
    <3> QED BY <3>1, <3>2 DEF Match
  <2>3. r.toolErrors = Cardinality(D1)
    BY <2>1 DEF Numbers
  <2> QED BY <1>2, <1>3, <2>1, <2>2, <2>3, CountsMatch
<1>13. r.fallbackN = Cardinality({i \in Typed(H, a, "router", now) : At(H, i).line.failed})
  <2>1. PICK D1, C1 : /\ D1 = {i \in OfKind(s, a, now, "router") : s[i].fallback}
                      /\ C1 = {i \in Typed(H, a, "router", now) : At(H, i).line.failed}
    OBVIOUS
  <2>2. Match(b, D, D1, C, C1)
    <3>1. D1 \subseteq D /\ C1 \subseteq C
      BY <1>9, <2>1
    <3>2. ASSUME NEW i \in D PROVE i \in D1 <=> b[i] \in C1
      BY <1>5, <1>9, <2>1
    <3> QED BY <3>1, <3>2 DEF Match
  <2>3. r.fallbackN = Cardinality(D1)
    BY <2>1 DEF Numbers
  <2> QED BY <1>2, <1>3, <2>1, <2>2, <2>3, CountsMatch
<1>14. r.toolCalls = SumOver([i \in Typed(H, a, "assistant", now) |-> Cardinality(At(H, i).line.calls)])
  <2>1. PICK D1, C1 : D1 = OfKind(s, a, now, "assistant") /\ C1 = Typed(H, a, "assistant", now)
    OBVIOUS
  <2>2. Match(b, D, D1, C, C1)
    BY <1>8, <2>1
  <2>3. PICK f, g : f = [i \in D1 |-> s[i].toolCalls] /\ g = [i \in C1 |-> Cardinality(At(H, i).line.calls)]
    OBVIOUS
  <2>4. g \in [C1 -> Int]
    <3>1. ASSUME NEW i \in C1 PROVE Cardinality(At(H, i).line.calls) \in Int
      <4>1. i \in Items(H)
        BY <1>2, <1>9, <2>1 DEF Counted
      <4>2. IsFiniteSet(At(H, i).line.calls)
        BY <4>1 DEF ToldLine
      <4> QED BY <4>2, FS_CardinalityType
    <3> QED BY <2>3, <3>1
  <2>5. \A i \in D1 : f[i] = g[b[i]]
    <3>1. \A i \in D1 : i \in D /\ b[i] \in C1 /\ x(i).line.type = "assistant"
      BY <1>9, <2>1
    <3> QED BY <1>5, <2>3, <3>1
  <2>6. DOMAIN f = D1 /\ f = [i \in D1 |-> f[i]]
    BY <2>3
  <2>7. SumOver(f) = SumOver(g)
    BY <1>2, <1>3, <2>2, <2>4, <2>5, <2>6, SumsMatch
  <2>8. r.toolCalls = SumOver(f)
    BY <2>1, <2>3 DEF Numbers
  <2> QED BY <2>1, <2>3, <2>7, <2>8
\* Sums of costs.
<1>15. ASSUME NEW D1, NEW C1, Match(b, D, D1, C, C1), \A i \in D1 : s[i].cost # Absent
       PROVE  Spending(D1, s) = Costs(C1, H)
  <2>1. PICK f, g : f = [i \in D1 |-> s[i].cost] /\ g = [i \in C1 |-> At(H, i).line.cost]
    OBVIOUS
  <2>2. \A i \in D1 : i \in D /\ b[i] \in C1 /\ s[i].cost = x(i).line.cost
    BY <1>5, <1>15 DEF Match
  <2>3. \A i \in D1 : f[i] = g[b[i]]
    BY <2>1, <2>2
  <2>4. g \in [C1 -> Int]
    <3>1. ASSUME NEW c \in C1 PROVE At(H, c).line.cost \in Int
      <4>1. PICK i \in D : b[i] = c
        BY <1>2, <1>15 DEF OneToOne, Match
      <4>2. i \in D1
        BY <1>15, <4>1 DEF Match
      <4>3. s[i].cost \in Nat
        BY <1>3, <1>15, <4>1, <4>2 DEF EventType
      <4> QED BY <2>2, <4>1, <4>2, <4>3
    <3> QED BY <2>1, <3>1
  <2>5. DOMAIN f = D1 /\ f = [i \in D1 |-> f[i]]
    BY <2>1
  <2>6. SumOver(f) = SumOver(g)
    BY <1>2, <1>3, <1>15, <2>3, <2>4, <2>5, SumsMatch
  <2> QED BY <2>1, <2>6 DEF Spending, Costs
<1>16. ASSUME NEW from
       PROVE  Spending(PaidSince(s, a, from, now), s) = Costs(CostSince(H, a, from, now), H)
  <2>1. PICK D1, C1 : D1 = PaidSince(s, a, from, now) /\ C1 = CostSince(H, a, from, now)
    OBVIOUS
  <2>2. Match(b, D, D1, C, C1)
    <3>1. D1 \subseteq D /\ C1 \subseteq C
      BY <1>7, <2>1 DEF PaidSince, Paying, CostSince
    <3>2. ASSUME NEW i \in D PROVE i \in D1 <=> b[i] \in C1
      <4>1. i \in D1 <=> i \in EventsOf(s, a) /\ s[i].cost # Absent /\ s[i].ts \in from..now
        BY <2>1 DEF PaidSince, Paying
      <4>2. b[i] \in C1 <=> /\ b[i] \in About(H, a) /\ x(i).line.type \in {"assistant", "compaction", "usage"}
                            /\ x(i).line.cost # Absent /\ x(i).ts \in from..now
        BY <2>1 DEF CostSince
      <4> QED BY <1>5, <1>7, <4>1, <4>2
    <3> QED BY <3>1, <3>2 DEF Match
  <2>3. \A i \in D1 : s[i].cost # Absent
    BY <2>1 DEF PaidSince, Paying
  <2> QED BY <1>15, <2>1, <2>2, <2>3
<1>17. ASSUME NEW m \in DOMAIN r.models PROVE r.models[m] = Costs(CostOn(H, a, m, now), H)
  <2>1. PICK D1, C1 : /\ D1 = {i \in Paying(Window(s, a, now), s) : s[i].costDim = m}
                      /\ C1 = CostOn(H, a, m, now)
    OBVIOUS
  <2>2. m # "" /\ r.models[m] = Spending(D1, s)
    BY <1>17, <2>1 DEF Numbers
  <2>3. Match(b, D, D1, C, C1)
    <3>1. D1 \subseteq D /\ C1 \subseteq C
      BY <1>7, <2>1 DEF Paying, Window, CostOn, Typed
    <3>2. ASSUME NEW i \in D PROVE i \in D1 <=> b[i] \in C1
      <4>1. i \in D1 <=> /\ i \in EventsOf(s, a) /\ s[i].ts > now - Lookback
                         /\ s[i].cost # Absent /\ s[i].costDim = m
        BY <2>1 DEF Paying, Window
      <4>2. b[i] \in C1 <=> /\ b[i] \in About(H, a) /\ x(i).line.type \in {"assistant", "usage"}
                            /\ x(i).ts > now - Lookback
                            /\ x(i).line.model = m /\ x(i).line.cost # Absent
        BY <2>1 DEF CostOn, Typed
      <4> QED BY <1>5, <1>7, <2>2, <4>1, <4>2
    <3> QED BY <3>1, <3>2 DEF Match
  <2>4. \A i \in D1 : s[i].cost # Absent
    BY <2>1 DEF Paying
  <2> QED BY <1>15, <2>1, <2>2, <2>3, <2>4
<1>18. r.lastSeen = Max({0} \cup {At(H, i).ts : i \in About(H, a)})
  <2>1. {s[i].ts : i \in EventsOf(s, a)} = {At(H, i).ts : i \in About(H, a)}
    <3>1. ASSUME NEW i \in EventsOf(s, a) PROVE \E c \in About(H, a) : At(H, c).ts = s[i].ts
      BY <1>5, <1>7
    <3>2. ASSUME NEW c \in About(H, a) PROVE \E i \in EventsOf(s, a) : s[i].ts = At(H, c).ts
      <4>1. PICK i \in D : b[i] = c
        BY <1>2, <1>7 DEF OneToOne
      <4> QED BY <1>5, <1>7, <4>1
    <3> QED BY <3>1, <3>2
  <2>2. r.lastSeen = Max({0} \cup {s[i].ts : i \in EventsOf(s, a)})
    BY DEF Numbers
  <2> QED BY <2>1, <2>2
<1>19. /\ r.spendToday = Costs(CostSince(H, a, now - (now % Day), now), H)
       /\ r.spendHour = Costs(CostSince(H, a, now - Hour, now), H)
  <2>1. /\ r.spendToday = Spending(PaidSince(s, a, Midnight(now), now), s)
        /\ r.spendHour = Spending(PaidSince(s, a, now - Hour, now), s)
    BY DEF Numbers
  <2>2. Midnight(now) = now - (now % Day)
    BY DEF Midnight
  <2> QED BY <1>16, <2>1, <2>2
<1> QED BY <1>10, <1>11, <1>12, <1>13, <1>14, <1>17, <1>18, <1>19 DEF ScanTells

------------------------------------------------------------------------------
(***************************************************************************)
(* The side table.                                                         *)
(***************************************************************************)
LEMMA OverdueCounted ==
  ASSUME NEW s \in Seq(Rec), NEW o, Holds(o, s), IsFiniteSet(DOMAIN o), NEW now,
         NEW late, late = {id \in DOMAIN o : o[id] < now - OrphanAfter}
  PROVE  Cardinality(late) = Cardinality(LateCalls(s, now)) /\ Cardinality(late) \in Nat
<1>1. ASSUME NEW w \in LateCalls(s, now)
      PROVE  \E n \in DOMAIN s : \E id : w = <<n, id>> /\ IsWaiting(s, n, id) /\ id \in late
  <2>1. w \in Waiting(s) /\ s[w[1]].ts < now - OrphanAfter
    BY DEF LateCalls
  <2>2. PICK n, id : n \in DOMAIN s /\ w = <<n, id>> /\ IsWaiting(s, n, id)
    BY <2>1, WaitingIs
  <2>3. id \in DOMAIN o /\ o[id] = s[n].ts
    BY <2>2 DEF Holds
  <2> QED BY <2>1, <2>2, <2>3
<1>2. ASSUME NEW id \in late
      PROVE  \E n \in DOMAIN s : IsWaiting(s, n, id) /\ <<n, id>> \in LateCalls(s, now)
  <2>1. PICK n \in DOMAIN s : IsWaiting(s, n, id) /\ o[id] = s[n].ts
    BY DEF Holds
  <2>2. <<n, id>> \in Waiting(s)
    BY <2>1, WaitingIs
  <2> QED BY <2>1, <2>2 DEF LateCalls
<1>3. ASSUME NEW n, NEW m, NEW id, IsWaiting(s, n, id), IsWaiting(s, m, id) PROVE n = m
  <2>1. DOMAIN s = 1..Len(s) /\ Len(s) \in Nat
    BY LenProperties
  <2>2. n \in 1..Len(s) /\ m \in 1..Len(s) /\ id \in Calls(s[n].line) /\ id \in Calls(s[m].line)
    BY <1>3, <2>1 DEF IsWaiting
  <2>3. ~(m \in (n + 1)..Len(s)) /\ ~(n \in (m + 1)..Len(s))
    BY <1>3, <2>2 DEF IsWaiting
  <2> QED BY <2>1, <2>2, <2>3
<1> DEFINE b == [id \in late |-> CHOOSE w \in LateCalls(s, now) : w[2] = id]
<1>4. \A id \in late : b[id] \in LateCalls(s, now) /\ b[id][2] = id
  <2> SUFFICES ASSUME NEW id \in late
               PROVE  b[id] \in LateCalls(s, now) /\ b[id][2] = id
    OBVIOUS
  <2>1. \E w \in LateCalls(s, now) : w[2] = id
    BY <1>2
  <2> QED BY <2>1
<1>5. b \in [late -> LateCalls(s, now)]
  BY <1>4
<1> HIDE DEF b
<1>6. \A x, y \in late : b[x] = b[y] => x = y
  BY <1>4
<1>7. ASSUME NEW w \in LateCalls(s, now) PROVE \E id \in late : b[id] = w
  <2>1. PICK n, id : w = <<n, id>> /\ IsWaiting(s, n, id) /\ id \in late
    BY <1>1
  <2>2. PICK m, call : b[id] = <<m, call>> /\ IsWaiting(s, m, call)
    BY <1>1, <1>4, <2>1
  <2>3. call = id
    BY <1>4, <2>1, <2>2
  <2>4. m = n
    BY <1>3, <2>1, <2>2, <2>3
  <2> QED BY <2>1, <2>2, <2>3, <2>4
<1>8. OneToOne(b, late, LateCalls(s, now))
  BY <1>5, <1>6, <1>7 DEF OneToOne
<1>9. IsFiniteSet(late)
  BY FS_Subset
<1> QED BY <1>8, <1>9, OneToOneIsBijection, FS_Bijection, FS_CardinalityType

\* While nothing is under way, the files of the table that can be told are
\* those with a header.
LEMMA TableTells ==
  ASSUME PiInv, EntriesTell, resetting = Absent, NEW a, a # Absent
  PROVE  /\ FilesOf(a) = {f \in Files : AgentIn(read[f]) = a}
         /\ \A f \in FilesOf(a) : /\ f \in Files /\ read[f] \in Seq(Rec)
                                  /\ Holds(files[f].orphans, read[f]) /\ EntryTells(files[f], read[f])
<1>1. ASSUME NEW f \in Files PROVE f # resetting /\ read[f] \in Seq(Rec)
  BY PiAssumption DEF PiInv, PiTypes
<1>2. DOMAIN files \subseteq Files
  BY DEF PiInv, PiTypes
<1>3. ASSUME NEW f \in FilesOf(a)
      PROVE  /\ f \in Files /\ read[f] \in Seq(Rec) /\ AgentIn(read[f]) = a
             /\ Holds(files[f].orphans, read[f]) /\ EntryTells(files[f], read[f])
  <2>1. f \in DOMAIN files /\ f \in Files /\ ~files[f].bad /\ files[f].agent = a
    BY <1>2 DEF FilesOf, Usable
  <2>2. Describes(files[f], read[f])
    BY <1>1, <2>1 DEF PiInv, TableInv
  <2>3. EntryTells(files[f], read[f])
    BY <1>1, <2>1 DEF EntriesTell
  <2> QED BY <1>1, <2>1, <2>2, <2>3 DEF Describes
<1>4. ASSUME NEW f \in Files, AgentIn(read[f]) = a PROVE f \in FilesOf(a)
  <2>1. ~Blank(read[f])
    BY <1>1, <1>4, BlankHasNoAgent
  <2>2. f \in DOMAIN files
    BY <1>1, <2>1 DEF PiInv, TableInv
  <2>3. Describes(files[f], read[f])
    BY <1>1, <2>2 DEF PiInv, TableInv
  <2>4. ~files[f].bad /\ files[f].agent = a
    BY <1>4, <2>3 DEF Describes
  <2> QED BY <2>2, <2>4 DEF FilesOf, Usable
<1> QED BY <1>3, <1>4

LEMMA RowTold ==
  ASSUME PiInv, EntriesTell, resetting = Absent, NEW a, a # Absent,
         NEW newest, \A x \in TableAgents : newest[x] \in NewestOf(FilesOf(x))
  PROVE  TableTold(TableRow(a, newest), read, a, report.now)
<1> DEFINE own == {f \in Files : AgentIn(read[f]) = a}
           row == TableRow(a, newest)
           now == report.now
<1>1. /\ FilesOf(a) = own
      /\ \A f \in own : /\ f \in Files /\ read[f] \in Seq(Rec)
                        /\ Holds(files[f].orphans, read[f]) /\ EntryTells(files[f], read[f])
  BY TableTells
<1>2. /\ row.orphans = SumOver([f \in FilesOf(a) |-> Cardinality(Overdue(f, now))])
      /\ a \in TableAgents => row.session = newest[a] /\ row.context = files[newest[a]].contextTokens
  <2>1. PICK sc, od, ov, se, co :
          /\ row = [scan |-> sc, orphans |-> od, overdue |-> ov, session |-> se, context |-> co]
          /\ od = SumOver([f \in FilesOf(a) |-> Cardinality(Overdue(f, now))])
          /\ se = (IF a \in TableAgents THEN newest[a] ELSE Absent)
          /\ co = (IF a \in TableAgents THEN files[newest[a]].contextTokens ELSE 0)
    BY DEF TableRow
  <2> HIDE DEF row, now
  <2> QED BY <2>1
<1> HIDE DEF row
<1>3. ASSUME NEW f \in own
      PROVE  /\ Cardinality(Overdue(f, now)) = Cardinality(LateCalls(read[f], now))
             /\ files[f].newestTs = NewestIn(read[f]) /\ files[f].contextTokens = ContextIn(read[f])
  <2>1. read[f] \in Seq(Rec) /\ Holds(files[f].orphans, read[f]) /\ EntryTells(files[f], read[f])
    BY <1>1
  <2>2. PICK late : late = Overdue(f, now)
    OBVIOUS
  <2>3. late = {id \in DOMAIN files[f].orphans : files[f].orphans[id] < now - OrphanAfter}
    BY <2>2 DEF Overdue
  <2>4. PICK o : o = files[f].orphans
    OBVIOUS
  <2>5. Holds(o, read[f]) /\ IsFiniteSet(DOMAIN o) /\ late = {id \in DOMAIN o : o[id] < now - OrphanAfter}
    BY <2>1, <2>3, <2>4 DEF EntryTells
  <2> HIDE DEF now
  <2>6. Cardinality(late) = Cardinality(LateCalls(read[f], now))
    BY <2>1, <2>5, OverdueCounted
  <2> QED BY <2>1, <2>2, <2>6, NewestIs, ContextIs DEF EntryTells
<1> HIDE DEF now
<1>4. row.orphans = SumOver([f \in own |-> Cardinality(LateCalls(read[f], now))])
  <2>1. [f \in FilesOf(a) |-> Cardinality(Overdue(f, now))] = [f \in own |-> Cardinality(LateCalls(read[f], now))]
    BY <1>1, <1>3
  <2> QED BY <1>2, <2>1
<1>5. ASSUME own # {}
      PROVE  /\ row.session \in own /\ \A g \in own : NewestIn(read[g]) <= NewestIn(read[row.session])
             /\ row.context = ContextIn(read[row.session])
  <2>1. a \in TableAgents
    <3>1. PICK f \in FilesOf(a) : TRUE
      BY <1>1, <1>5
    <3>2. f \in Usable /\ files[f].agent = a
      BY <3>1 DEF FilesOf
    <3> QED BY <3>2 DEF TableAgents
  <2>2. PICK f : f = newest[a]
    OBVIOUS
  <2>3. f \in own /\ \A g \in own : files[g].newestTs <= files[f].newestTs
    <3>1. newest[a] \in NewestOf(FilesOf(a))
      BY <2>1
    <3>2. f \in NewestOf(own)
      BY <1>1, <2>2, <3>1
    <3> HIDE DEF own
    <3> QED BY <3>2 DEF NewestOf
  <2>4. row.session = f /\ row.context = files[f].contextTokens
    BY <1>2, <2>1, <2>2
  <2>5. row.context = ContextIn(read[f])
    BY <1>3, <2>3, <2>4
  <2>6. \A g \in own : NewestIn(read[g]) <= NewestIn(read[f])
    BY <1>3, <2>3
  <2> QED BY <2>3, <2>4, <2>5, <2>6
<1>6. row.session \in {f \in own : \A g \in own : NewestIn(read[g]) <= NewestIn(read[f])} <=>
        row.session \in own /\ \A g \in own : NewestIn(read[g]) <= NewestIn(read[row.session])
  <2> HIDE DEF own
  <2> QED OBVIOUS
<1>7. TableTold(row, read, a, now)
  BY <1>4, <1>5, <1>6 DEF TableTold
<1> QED BY <1>7 DEF row, now

------------------------------------------------------------------------------
(***************************************************************************)
(* Quiet reports.                                                          *)
(***************************************************************************)
\* The lines from p on are where they are among all lines.
LEMMA SinceIs ==
  ASSUME NEW H, NEW p
  PROVE  /\ \A i \in Items(Since(H, p)) : i \in Items(H) /\ At(Since(H, p), i) = At(H, i)
         /\ Counted(Since(H, p)) = Left(H, p)
<1> DEFINE K == Since(H, p)
<1>1. \A f \in Files : /\ DOMAIN K[f] = {m \in DOMAIN H[f] : H[f][m].seq >= p}
                       /\ \A n \in DOMAIN K[f] : K[f][n] = H[f][n]
  BY DEF Since
<1> HIDE DEF K
<1>2. ASSUME NEW i \in Items(K)
      PROVE  i \in Items(H) /\ At(K, i) = At(H, i) /\ At(H, i).seq >= p
  <2>0. PICK f \in Files : \E n \in DOMAIN K[f] : i = <<f, n>>
    BY <1>2, ItemIs
  <2>1. PICK n \in DOMAIN K[f] : i = <<f, n>>
    BY <2>0
  <2>2. n \in DOMAIN H[f] /\ K[f][n] = H[f][n] /\ H[f][n].seq >= p
    BY <1>1, <2>1
  <2>3. i \in Items(H)
    BY <2>1, <2>2, ItemIs
  <2> QED BY <2>1, <2>2, <2>3 DEF At
<1>3. ASSUME NEW i \in Items(H), At(H, i).seq >= p PROVE i \in Items(K)
  <2>0. PICK f \in Files : \E n \in DOMAIN H[f] : i = <<f, n>>
    BY <1>3, ItemIs
  <2>1. PICK n \in DOMAIN H[f] : i = <<f, n>>
    BY <2>0
  <2>2. H[f][n].seq >= p
    BY <1>3, <2>1 DEF At
  <2>3. n \in DOMAIN K[f]
    BY <1>1, <2>1, <2>2
  <2> QED BY <2>1, <2>3, ItemIs
<1>4. ASSUME NEW i PROVE i \in Counted(K) <=> i \in Left(H, p)
  <2>1. CASE i \in Items(K)
    BY <1>2, <2>1 DEF Counted, Left
  <2>2. CASE i \notin Items(K)
    BY <1>3, <2>2 DEF Counted, Left
  <2> QED BY <2>1, <2>2
<1>5. Counted(K) = Left(H, p)
  BY <1>4 DEF Counted, Left
<1> QED BY <1>2, <1>5 DEF K

\* The agents of the events and of the entries are those of the lines from p
\* on, and of the headers.
LEMMA AgentsTold ==
  ASSUME PiInv, QuietInv, resetting = Absent,
         NEW K, NEW b, OneToOne(b, DOMAIN store, Counted(K)), Finds(b, store, K)
  PROVE  {store[i].client : i \in DOMAIN store} \cup TableAgents
           = ({At(K, i).agent : i \in {j \in Items(K) : At(K, j).line.type # "blank"}}
                \cup {AgentIn(read[f]) : f \in Files}) \ {Absent}
<1> DEFINE clients == {store[i].client : i \in DOMAIN store}
           told == {At(K, i).agent : i \in {j \in Items(K) : At(K, j).line.type # "blank"}}
           heads == {AgentIn(read[f]) : f \in Files}
<1>1. ASSUME NEW i \in DOMAIN store PROVE store[i].client \in told \ {Absent}
  <2>1. b[i] \in Counted(K) /\ Says(store[i], At(K, b[i]))
    BY DEF OneToOne, Finds
  <2> QED BY <2>1 DEF Counted, Says
<1>2. ASSUME NEW j \in Items(K), At(K, j).line.type # "blank", At(K, j).agent # Absent
      PROVE  At(K, j).agent \in clients
  <2>1. j \in Counted(K)
    BY <1>2 DEF Counted
  <2>2. PICK i \in DOMAIN store : b[i] = j
    BY <2>1 DEF OneToOne
  <2> QED BY <2>2 DEF Finds, Says
<1>3. ASSUME NEW a \in TableAgents PROVE a \in heads \ {Absent}
  <2>1. PICK f \in Usable : files[f].agent = a
    BY DEF TableAgents
  <2>2. f \in DOMAIN files /\ ~files[f].bad /\ f \in Files /\ f # resetting
    BY <2>1, PiAssumption DEF Usable, PiInv, PiTypes
  <2>3. Describes(files[f], read[f])
    BY <2>2 DEF PiInv, TableInv
  <2>4. a # Absent /\ AgentIn(read[f]) = a
    BY <2>1, <2>2, <2>3 DEF Describes
  <2> QED BY <2>2, <2>4
<1>4. ASSUME NEW f \in Files, AgentIn(read[f]) # Absent PROVE AgentIn(read[f]) \in TableAgents
  <2>1. PICK a : a = AgentIn(read[f])
    OBVIOUS
  <2>2. FilesOf(a) = {g \in Files : AgentIn(read[g]) = a}
    BY <1>4, <2>1, TableTells DEF QuietInv
  <2>3. f \in FilesOf(a)
    BY <2>1, <2>2
  <2> QED BY <2>1, <2>3 DEF FilesOf, TableAgents
<1>5. ASSUME NEW a PROVE a \in clients \cup TableAgents <=> a \in (told \cup heads) \ {Absent}
  <2>1. ASSUME a \in clients \cup TableAgents PROVE a \in (told \cup heads) \ {Absent}
    BY <1>1, <1>3, <2>1
  <2>2. ASSUME a \in (told \cup heads) \ {Absent} PROVE a \in clients \cup TableAgents
    <3>1. CASE a \in told
      <4>1. PICK j \in Items(K) : At(K, j).line.type # "blank" /\ At(K, j).agent = a
        BY <3>1
      <4> HIDE DEF clients
      <4> QED BY <1>2, <2>2, <4>1
    <3>2. CASE a \in heads
      <4>1. PICK f \in Files : AgentIn(read[f]) = a
        BY <3>2
      <4> HIDE DEF clients, told, heads
      <4> QED BY <1>4, <2>2, <4>1
    <3> HIDE DEF clients, told, heads
    <3> QED BY <2>2, <3>1, <3>2
  <2> QED BY <2>1, <2>2
<1> HIDE DEF clients, told, heads
<1>6. clients \cup TableAgents = (told \cup heads) \ {Absent}
  BY <1>5
<1> QED BY <1>6 DEF clients, told, heads

LEMMA ReadTableQuiet ==
  ASSUME PiInv, QuietInv, ReadTable
  PROVE  QuietInv'
<1>1. UNCHANGED <<made, read, old, gen, resetting, batch, store, files>>
  BY DEF ReadTable, tailVars
<1>2. PICK newest :
        /\ \A a \in TableAgents : newest[a] \in NewestOf(FilesOf(a))
        /\ report' = [report EXCEPT
             !.pc = "done", !.rows = [a \in DOMAIN report.rows \cup TableAgents |-> TableRow(a, newest)]]
  BY DEF ReadTable
<1>3. PICK now \in Nows : \E rows, seen, stamp :
        /\ report = [pc |-> "scanned", now |-> now, rows |-> rows, seen |-> seen, stamp |-> stamp]
        /\ Stamp \in stamp => batch = <<>> /\ resetting = Absent /\ rows = ScanOf(now)
  BY DEF QuietInv, ScanFresh, ReadTable
<1>4. PICK rows, seen, stamp :
        /\ report = [pc |-> "scanned", now |-> now, rows |-> rows, seen |-> seen, stamp |-> stamp]
        /\ Stamp \in stamp => batch = <<>> /\ resetting = Absent /\ rows = ScanOf(now)
  BY <1>3
<1>5. report.now = now /\ report.rows = rows /\ now \in Nat
  BY <1>4, PiAssumption
<1>6. PICK R : R = [a \in DOMAIN rows \cup TableAgents |-> TableRow(a, newest)]
  OBVIOUS
<1>7. report' = [pc |-> "done", now |-> now, rows |-> R, seen |-> seen, stamp |-> stamp]
  BY <1>2, <1>4, <1>5, <1>6
<1>8. Stamp' = Stamp /\ History' = History
  BY <1>1 DEF Stamp, History, Taken, AgentOf
<1>9. ASSUME Stamp \in stamp
      PROVE  \E p \in 0..made : MayStart(p) /\ RowsTell(R, Since(History, p), read, now)
  <2>1. batch = <<>> /\ resetting = Absent /\ rows = ScanOf(now)
    BY <1>4, <1>9
  <2>2. PICK clients : clients = {store[i].client : i \in DOMAIN store}
    OBVIOUS
  <2>3. DOMAIN rows = clients /\ \A a \in clients : rows[a] = Scanned(a, now)
    BY <2>1, <2>2 DEF ScanOf
  <2>5. store \in Seq(EventType) /\ store \o <<>> = store
    BY EventsTyped, ConcatEmptySeq
  <2>6. PICK H : H = History /\ H \in [Files -> Seq(ToldLine)]
    BY HistoryIs, HistoryNow DEF QuietInv
  <2>8. PICK p \in 0..made : MayStart(p) /\ Tells(store, H, p, made)
    BY <2>1, <2>5, <2>6 DEF QuietInv, StoreTells
  <2>9. PICK K : K = Since(H, p)
    OBVIOUS
  <2>10. /\ \A i \in Items(K) : i \in Items(H) /\ At(K, i) = At(H, i)
         /\ Counted(K) = Left(H, p)
    BY <2>9, SinceIs
  <2>11. \A i \in Items(K) : At(K, i) \in ToldLine
    BY <2>6, <2>10, AtTold
  <2>12. PICK b : OneToOne(b, DOMAIN store, Counted(K)) /\ Finds(b, store, K)
    <3>1. PICK b : OneToOne(b, DOMAIN store, Left(H, p)) /\ Finds(b, store, H)
      BY <2>8 DEF Tells, Matched
    <3>2. \A i \in DOMAIN store : b[i] \in Items(K)
      BY <2>10, <3>1 DEF OneToOne, Counted
    <3>3. Finds(b, store, K)
      BY <2>10, <3>1, <3>2 DEF Finds
    <3> QED BY <2>10, <3>1, <3>3
  <2>4. DOMAIN R = ({At(K, i).agent : i \in {j \in Items(K) : At(K, j).line.type # "blank"}}
                      \cup {AgentIn(read[f]) : f \in Files}) \ {Absent}
    BY <1>6, <2>1, <2>2, <2>3, <2>12, AgentsTold
  <2>7. ASSUME NEW a \in DOMAIN R PROVE RowTells(R[a], K, read, a, now)
    <3>1. a # Absent /\ a \in DOMAIN rows \cup TableAgents /\ R[a] = TableRow(a, newest)
      BY <1>6, <2>4
    <3>2. R[a].scan = IF a \in DOMAIN rows THEN rows[a] ELSE Unseen
      <4>1. PICK sc, od, ov, se, co :
              /\ R[a] = [scan |-> sc, orphans |-> od, overdue |-> ov, session |-> se, context |-> co]
              /\ sc = (IF a \in DOMAIN rows THEN rows[a] ELSE Unseen)
        BY <1>5, <3>1 DEF TableRow
      <4> QED BY <4>1
    <3>3. Numbers(R[a].scan, store, a, now)
      <4>1. CASE a \in clients
        <5>1. EventsOf(store, a) # {}
          BY <2>2, <4>1 DEF EventsOf
        <5> QED BY <2>3, <2>5, <3>2, <4>1, <5>1, ScannedNumbers
      <4>2. CASE a \notin clients
        <5>1. EventsOf(store, a) = {}
          BY <2>2, <4>2 DEF EventsOf
        <5> QED BY <2>3, <3>2, <4>2, <5>1, UnseenNumbers
      <4> QED BY <4>1, <4>2
    <3>4. ScanTells(R[a].scan, K, a, now)
      BY <1>5, <2>5, <2>11, <2>12, <3>1, <3>3, NumbersTell
    <3>5. TableTold(R[a], read, a, now)
      BY <1>2, <1>5, <2>1, <3>1, RowTold DEF QuietInv
    <3> QED BY <3>4, <3>5 DEF RowTells
  <2>13. RowsTell(R, K, read, now)
    BY <2>4, <2>7 DEF RowsTell
  <2> QED BY <2>6, <2>8, <2>9, <2>13
<1>13. ASSUME Stamp \in stamp
       PROVE  \E p \in 0..made' : MayStart(p)' /\ RowsTell(R, Since(History', p), read', now)
  <2>1. PICK p \in 0..made : MayStart(p) /\ RowsTell(R, Since(History, p), read, now)
    BY <1>9, <1>13
  <2>2. MayStart(p)'
    BY <1>1, <2>1 DEF MayStart
  <2> HIDE DEF History
  <2> QED BY <1>1, <1>8, <2>1, <2>2
<1>10. QuietReport'
  <2>1. report'.rows = R /\ report'.now = now /\ report'.stamp = stamp
    BY <1>7
  <2> HIDE DEF Stamp, History
  <2> QED BY <1>8, <1>13, <2>1 DEF QuietReport
<1>11. ScanFresh'
  <2>1. report'.pc # "scanned"
    BY <1>7
  <2> QED BY <2>1 DEF ScanFresh
<1>12. Past(old', read') /\ EntriesTell' /\ StoreTells'
  <2>1. StoreTells'
    BY <1>1, <1>8, StoreTellsStill DEF QuietInv
  <2>2. Past(old', read')
    BY <1>1 DEF QuietInv
  <2>3. EntriesTell'
    BY <1>1 DEF QuietInv, EntriesTell
  <2> QED BY <2>1, <2>2, <2>3
<1> QED BY <1>10, <1>11, <1>12 DEF QuietInv

LEMMA QuietStep ==
  ASSUME PiInv, PiInv', QuietInv, [PiNext]_piVars
  PROVE  QuietInv'
<1>1. ASSUME PiNext PROVE QuietInv'
  <2>1. report.pc # "done"
    BY <1>1 DEF PiNext
  <2>2. ASSUME NEW f \in Files, NEW line \in IF read[f] = <<>> THEN FirstLines ELSE Lines,
               HandleLine(f, line)
        PROVE  QuietInv'
    <3>1. line \in FirstLines \cup Lines
      OBVIOUS
    <3> QED BY <2>1, <2>2, <3>1, HandleQuiet
  <2>3. CASE Flush
    BY <2>1, <2>3, FlushQuiet
  <2>4. CASE Reset
    BY <2>1, <2>4, ResetQuiet
  <2>5. ASSUME NEW f \in Files, Rotate(f) PROVE QuietInv'
    BY <2>1, <2>5, RotateQuiet
  <2>6. ASSUME NEW f \in Files, Truncate(f) PROVE QuietInv'
    BY <2>1, <2>6, TruncateQuiet
  <2>7. ASSUME NEW now \in Nows, Scan(now) PROVE QuietInv'
    BY <2>7, ScanQuiet
  <2>8. CASE ReadTable
    BY <2>8, ReadTableQuiet
  <2> QED BY <1>1, <2>2, <2>3, <2>4, <2>5, <2>6, <2>7, <2>8, Zenon DEF PiNext
<1>2. CASE UNCHANGED piVars
  <2>1. UNCHANGED <<made, read, old, gen, resetting, batch, store, files, report>>
    BY <1>2 DEF piVars, tailVars
  <2>2. Stamp' = Stamp /\ History' = History
    BY <2>1 DEF Stamp, History, Taken, AgentOf
  <2>3. Past(old', read') /\ EntriesTell' /\ StoreTells'
    BY <2>1, <2>2, StoreTellsStill DEF QuietInv, EntriesTell
  <2>4. ScanFresh'
    <3>1. ASSUME NEW now PROVE ScanOf(now)' = ScanOf(now)
      BY <2>1 DEF ScanOf, Scanned
    <3> HIDE DEF Stamp, ScanOf
    <3> QED BY <2>1, <2>2, <3>1 DEF QuietInv, ScanFresh
  <2>5. QuietReport'
    BY <2>1, <2>2 DEF QuietInv, QuietReport, MayStart
  <2> QED BY <2>3, <2>4, <2>5 DEF QuietInv
<1> QED BY <1>1, <1>2

\* The events that are in the store or under way are, one for one and in their
\* order, the lines of the files and of those they replaced from some line on:
\* from the first, or, once there were more than max_events, from one that
\* leaves no fewer than the cap keeps.  An entry of the side table is the fold
\* of all lines of its file (processLine, handle, reset, appendBatch).
THEOREM PiQuietInvariant == PiSpec => []QuietInv
<1>1. PiInit => QuietInv
  BY QuietInitial
<1>2. PiInv /\ PiInv' /\ QuietInv /\ [PiNext]_piVars => QuietInv'
  BY QuietStep
<1> QED BY <1>1, <1>2, PiInvariant, PTL DEF PiSpec

\* A report made while nothing happens says of each agent what its files say:
\* its spend and its activity in the window, of the lines from the first that
\* the cap has left on, and its overdue calls and the context of its newest
\* session, of all lines (Agents, appendBatch; README, "pi agent sessions").
THEOREM PiQuietReport == PiSpec => []QuietReport
<1>1. QuietInv => QuietReport
  BY DEF QuietInv
<1> QED BY <1>1, PiQuietInvariant, PTL

==============================================================================
