-------------------------- MODULE AuditTrailProofs ---------------------------
(***************************************************************************)
(* What holds of the audit log on disk for any number of applications,     *)
(* requests and logs, whatever fails, restarts or is changed in the files. *)
(* Two orders meet in it: the order the hash chain took the logs in, which *)
(* a restart forgets, and the order of the records of a file, which is     *)
(* never forgotten.  The invariant ties them together through the ids of   *)
(* the logs, of which no two are alike.                                    *)
(*                                                                         *)
(* Of the live stream, at the end: for any number of connections and any   *)
(* channel, a client that stays gets what it is to get, and whoever waits  *)
(* for the lock waits for the dispatcher's round to end - or, when it is   *)
(* the dispatcher itself, for good.                                        *)
(***************************************************************************)
EXTENDS AuditTrail, AuditStream, FiniteSetTheorems, SequenceTheorems, TLAPS

Labels == {"idle", "lock", "open", "append", "index", "rotate"}
Logs   == [id : Ids, app : Apps, text : Texts, at : 0..MaxTime,
           prev : Hash \cup {NoHash}, hash : Hash \cup {NoHash}]

TypeInv ==
  /\ clock \in 0..MaxTime /\ begun \in 0..MaxLogs /\ edits \in Nat
  /\ lock \in Requests \cup {None}
  /\ pc \in [Requests -> Labels]
  /\ log \in [Requests -> Logs \cup {NoLog}]
  /\ \A r \in Requests : pc[r] # "idle" => log[r] \in Logs
  /\ \A r \in Requests : pc[r] \in {"open", "append", "index", "rotate"} <=> lock = r
  /\ \A r \in Requests : pc[r] \in {"open", "append"} => log[r].hash \in Hash
  /\ last \in Hash \cup {NoHash}
  /\ open \in [Apps -> 0..MaxTime \cup {None}]
  /\ \A r \in Requests : pc[r] = "append" => open[log[r].app] \in 0..MaxTime
  /\ count \in [Apps -> Nat]
  /\ index \in [Apps -> Nat \cup {None}] /\ cached \in [Apps -> Nat \cup {None}]
  /\ disk \in [Names -> Seq(Line)]
  /\ written \in [Names -> Seq(Record)]
  /\ chained \in Seq(Ids)

\* The logs under way, and the chain: no id occurs twice, and the chain ends in
\* the log whose hash the writer keeps.
ChainInv ==
  /\ \A r \in Requests : pc[r] # "idle" => log[r].id <= begun
  /\ \A r, s \in Requests :
       r # s /\ pc[r] # "idle" /\ pc[s] # "idle" => log[r].id # log[s].id
  /\ \A i \in 1..Len(chained) : chained[i] <= begun
  /\ \A i, j \in 1..Len(chained) : chained[i] = chained[j] => i = j
  /\ chained = << >> => last = NoHash
  /\ chained # << >> => last[1] = chained[Len(chained)]
  /\ \A r \in Requests : pc[r] = "lock" =>
       \A i \in 1..Len(chained) : chained[i] # log[r].id

\* The records of the files.
RecordInv ==
  \A f \in Names : \A i \in 1..Len(written[f]) :
    /\ written[f][i].text # "edited"
    /\ written[f][i].hash = <<written[f][i].id, written[f][i].text>>
    /\ written[f][i].id <= begun /\ written[f][i].prev[1] <= begun

DistinctInv ==
  \A f, g \in Names : \A i \in 1..Len(written[f]), j \in 1..Len(written[g]) :
    written[f][i].id = written[g][j].id => f = g /\ i = j

\* A record that names another of its file as the one before it follows that one.
FollowInv ==
  \A f \in Names : \A i, j \in 1..Len(written[f]) :
    written[f][j].prev[1] = written[f][i].id =>
      j = i + 1 /\ written[f][j].prev = written[f][i].hash

\* A file is in the order of the chain, and a record names what was chained
\* before it.
OrderInv ==
  /\ \A f \in Names : \A i, j \in 1..Len(written[f]), k, m \in 1..Len(chained) :
       i < j /\ written[f][i].id = chained[k] /\ written[f][j].id = chained[m] => k < m
  /\ \A f \in Names : \A i \in 1..Len(written[f]), k \in 2..Len(chained) :
       written[f][i].id = chained[k] => written[f][i].prev[1] = chained[k - 1]

\* Where the log `id' was written at all, it is the last record and has that hash.
LastOf(id, hash) ==
  \A f \in Names : \A i \in 1..Len(written[f]) :
    written[f][i].id = id => i = Len(written[f]) /\ written[f][i].hash = hash

\* No record is of that log or follows it.
NotWritten(id) ==
  \A f \in Names : \A i \in 1..Len(written[f]) :
    written[f][i].id # id /\ written[f][i].prev[1] # id

\* The log that is to be written next.
HolderInv ==
  /\ LastOf(last[1], last)
  /\ \A r \in Requests : pc[r] \in {"lock", "open", "append"} => NotWritten(log[r].id)
  /\ \A r \in Requests : pc[r] \in {"open", "append"} =>
       /\ chained # << >> /\ log[r].id = chained[Len(chained)]
       /\ log[r].hash = <<log[r].id, Encode(log[r].text)>> /\ last = log[r].hash
       /\ log[r].prev[1] = IF Len(chained) = 1 THEN 0 ELSE chained[Len(chained) - 1]
       /\ LastOf(log[r].prev[1], log[r].prev)

\* A line of a file is one of the writer's records, in whichever file it put it, or
\* shows that it is not: it does not parse, its hash is not that of its text, or it
\* has an id that no request's log has.
Accounted(line, records) ==
  \/ line \in {Torn, Bad}
  \/ line.text = "edited" /\ line.hash[2] # "edited"
  \/ line.hash[1] \in ForgedIds
  \/ \E f \in Names : \E j \in 1..Len(records[f]) : line = records[f][j]

DiskInv ==
  \A f \in Names : \A i \in 1..Len(disk[f]) : Accounted(disk[f][i], written)

\* The counters, and the one about to be raised.
CountInv ==
  /\ \A a \in Apps : count[a] <= Total(a)
  /\ \A r \in Requests : pc[r] = "index" => count[log[r].app] + 1 <= Total(log[r].app)
  /\ \A a \in Apps : index[a] # None => index[a] <= Total(a)
  /\ \A a \in Apps : cached[a] # None => cached[a] <= Total(a)

IInv ==
  /\ TypeInv /\ ChainInv /\ RecordInv /\ DistinctInv /\ FollowInv /\ OrderInv
  /\ HolderInv /\ DiskInv /\ CountInv

-----------------------------------------------------------------------------
(* Types, and the steps that matter to the chain.                          *)

LEMMA RecordType ==
  ASSUME NEW l \in Logs, l.hash \in Hash, l.text \in Texts
  PROVE  RecordOf(l) \in Record
BY AuditTrailAssumption DEF RecordOf, Logs, Record, Encode

LEMMA LineType ==
  ASSUME NEW lines \in Seq(Line), NEW line \in Line
  PROVE  /\ AppendLine(lines, line) \in Seq(Line)
         /\ \A i \in 1..Len(AppendLine(lines, line)) :
              \/ AppendLine(lines, line)[i] \in {line, Torn, Bad}
              \/ i \in 1..Len(lines) /\ AppendLine(lines, line)[i] = lines[i]
<1>1. Len(lines) \in Nat
  OBVIOUS
<1>2. Torn \in Line /\ Bad \in Line
  BY DEF Line
<1> HIDE DEF Line, Torn, Bad
<1>3. CASE lines # << >> /\ lines[Len(lines)] = Torn
  <2> DEFINE e == IF line = Torn THEN Torn ELSE Bad
  <2>1. e \in Line /\ e \in {Torn, Bad}
    BY <1>2
  <2> HIDE DEF e
  <2>2. Len(lines) \in 1..Len(lines)
    BY <1>1, <1>3, EmptySeq
  <2>3. AppendLine(lines, line) = [lines EXCEPT ![Len(lines)] = e]
    BY <1>3 DEF AppendLine, e
  <2>4. QED
    BY <2>1, <2>2, <2>3, ExceptSeq
<1>4. CASE ~ (lines # << >> /\ lines[Len(lines)] = Torn)
  <2>1. AppendLine(lines, line) = Append(lines, line)
    BY <1>4 DEF AppendLine
  <2>2. QED
    BY <2>1, <1>1, AppendProperties
<1>5. QED
  BY <1>3, <1>4

Elements(s) == {s[k] : k \in 1..Len(s)}

\* A part of a sequence has no other elements.
LEMMA PartOf ==
  ASSUME NEW S, NEW s \in Seq(S), NEW a \in Nat \ {0}, NEW b \in 0..Len(s)
  PROVE  SubSeq(s, a, b) \in Seq(S) /\ Elements(SubSeq(s, a, b)) \subseteq Elements(s)
<1>0. Len(s) \in Nat /\ a \in Int /\ b \in Int
  OBVIOUS
<1>1. \A i \in a..b : i \in 1..Len(s)
  BY <1>0
<1>2. \A i \in a..b : s[i] \in S
  BY <1>1, ElementOfSeq
<1>3. /\ SubSeq(s, a, b) \in Seq(S)
      /\ Len(SubSeq(s, a, b)) = IF a <= b THEN b - a + 1 ELSE 0
      /\ \A k \in 1..(b - a + 1) : SubSeq(s, a, b)[k] = s[a + k - 1]
  BY <1>0, <1>2, SubSeqProperties
<1>4. ASSUME NEW k \in 1..Len(SubSeq(s, a, b))
      PROVE  k \in 1..(b - a + 1) /\ a + k - 1 \in 1..Len(s)
  BY <1>0, <1>3
<1>5. QED
  BY <1>3, <1>4 DEF Elements

\* Two sequences in a row have the elements of both.
LEMMA Joined ==
  ASSUME NEW S, NEW s \in Seq(S), NEW t \in Seq(S)
  PROVE  s \o t \in Seq(S) /\ Elements(s \o t) \subseteq Elements(s) \cup Elements(t)
<1>1. /\ s \o t \in Seq(S) /\ Len(s \o t) = Len(s) + Len(t)
      /\ \A i \in 1..(Len(s) + Len(t)) :
           (s \o t)[i] = IF i <= Len(s) THEN s[i] ELSE t[i - Len(s)]
  BY ConcatProperties
<1>2. Len(s) \in Nat /\ Len(t) \in Nat
  OBVIOUS
<1>3. ASSUME NEW k \in 1..Len(s \o t)
      PROVE  k \in 1..Len(s) \/ (~ (k <= Len(s)) /\ k - Len(s) \in 1..Len(t))
  BY <1>1, <1>2
<1>4. ASSUME NEW k \in 1..Len(s \o t)
      PROVE  (s \o t)[k] = IF k <= Len(s) THEN s[k] ELSE t[k - Len(s)]
  BY <1>1, <1>2
<1>5. QED
  BY <1>1, <1>3, <1>4 DEF Elements

\* What can be put into a file is a line.
LEMMA MadeUpType ==
  ASSUME TypeInv, edits < MaxEdits
  PROVE  /\ Known \subseteq Record \cup Forgery
         /\ MadeUp \subseteq Line
<1>1. Known \subseteq Line \ {Torn, Bad}
  <2> HIDE DEF Line, Torn, Bad, Names
  <2>1. ASSUME NEW g \in Names, NEW k \in 1..Len(disk[g])
        PROVE  disk[g][k] \in Line
    <3>1. disk[g] \in Seq(Line)
      BY DEF TypeInv
    <3>2. QED
      BY <3>1, ElementOfSeq
  <2>2. QED
    BY <2>1 DEF Known
<1>2. Known \subseteq Record \cup Forgery
  BY <1>1 DEF Line
<1>3. ASSUME NEW known \in Known
      PROVE  [known EXCEPT !.text = "edited"] \in Line
  <2>1. CASE known \in Record
    BY <2>1 DEF Line, Record
  <2>2. CASE known \in Forgery
    BY <2>2 DEF Line, Forgery
  <2>3. QED
    BY <2>1, <2>2, <1>2
<1>4. ASSUME NEW prev \in {known.hash : known \in Known} \cup {NoHash}
      PROVE  Forged(prev) \in Line
  <2>1. prev \in Hash \cup {NoHash} \cup ForgedHash
    <3>1. \A known \in Record \cup Forgery : known.hash \in Hash \cup ForgedHash
      BY DEF Record, Forgery
    <3> HIDE DEF Hash, ForgedHash, NoHash
    <3>2. QED
      BY <3>1, <1>2
  <2>2. MaxLogs + edits + 1 \in ForgedIds
    BY AuditTrailAssumption DEF ForgedIds, TypeInv
  <2> HIDE DEF Hash, NoHash
  <2>3. QED
    BY <2>1, <2>2 DEF Line, Forged, Forgery, ForgedHash
<1>5. Known \subseteq Line
  BY <1>1
<1> HIDE DEF Line, Known
<1>6. QED
  BY <1>2, <1>3, <1>4, <1>5 DEF MadeUp

\* After a change to a file, its lines are ones it had, or made up.
LEMMA EditLines ==
  ASSUME TypeInv, NEW f \in Names, Edit(f)
  PROVE  /\ disk'[f] \in Seq(Line) /\ disk' = [disk EXCEPT ![f] = disk'[f]]
         /\ Elements(disk'[f]) \subseteq Elements(disk[f]) \cup MadeUp
<1> DEFINE d == disk[f]
<1>1. d \in Seq(Line) /\ Len(d) \in Nat /\ disk \in [Names -> Seq(Line)]
  BY DEF TypeInv
<1>2. PICK i \in 0..Len(d), new \in {<< >>} \cup {<<line>> : line \in MadeUp} :
        \E j \in {i, i + 1} :
          disk' = [disk EXCEPT ![f] = SubSeq(@, 1, i) \o new \o SubSeq(@, j + 1, Len(@))]
  BY DEF Edit
<1>3. PICK j \in {i, i + 1} :
        disk' = [disk EXCEPT ![f] = SubSeq(@, 1, i) \o new \o SubSeq(@, j + 1, Len(@))]
  BY <1>2
<1>4. MadeUp \subseteq Line
  BY MadeUpType DEF Edit
<1> HIDE DEF Line, Names, MadeUp
<1>5. new \in Seq(Line) /\ Elements(new) \subseteq MadeUp
  <2>1. CASE new = << >>
    BY <2>1, EmptySeq DEF Elements
  <2>2. ASSUME NEW line \in MadeUp, new = <<line>>
        PROVE  new \in Seq(Line) /\ Elements(new) \subseteq MadeUp
    BY <2>2, <1>4 DEF Elements
  <2>3. QED
    BY <2>1, <2>2
<1> DEFINE a == SubSeq(d, 1, i)
           c == SubSeq(d, j + 1, Len(d))
<1>6. a \in Seq(Line) /\ Elements(a) \subseteq Elements(d)
  <2> HIDE DEF d
  <2>1. QED
    BY <1>1, PartOf
<1>7. c \in Seq(Line) /\ Elements(c) \subseteq Elements(d)
  <2>1. j + 1 \in Nat \ {0} /\ Len(d) \in 0..Len(d)
    BY <1>1
  <2> HIDE DEF d
  <2>2. QED
    BY <1>1, <2>1, PartOf
<1>8. disk'[f] = (a \o new) \o c /\ disk' = [disk EXCEPT ![f] = disk'[f]]
  BY <1>1, <1>3
<1> HIDE DEF a, c, d
<1>9. a \o new \in Seq(Line) /\ Elements(a \o new) \subseteq Elements(a) \cup Elements(new)
  BY <1>5, <1>6, Joined
<1>10. /\ (a \o new) \o c \in Seq(Line)
       /\ Elements((a \o new) \o c) \subseteq Elements(a \o new) \cup Elements(c)
  BY <1>7, <1>9, Joined
<1>11. Elements((a \o new) \o c) \subseteq Elements(d) \cup MadeUp
  BY <1>5, <1>6, <1>7, <1>9, <1>10
<1>12. QED
  BY <1>8, <1>10, <1>11 DEF d

LEMMA InitType == Init => TypeInv
<1> SUFFICES ASSUME Init PROVE TypeInv
  OBVIOUS
<1>1. << >> \in Seq(Line) /\ << >> \in Seq(Record) /\ << >> \in Seq(Ids)
  BY EmptySeq
<1> HIDE DEF Line, Record, Ids
<1>2. QED
  BY <1>1, AuditTrailAssumption DEF Init, TypeInv, Labels

LEMMA ReturnType ==
  ASSUME TypeInv, NEW r \in Requests, Return(r), lock = r
  PROVE  /\ lock' \in Requests \cup {None}
         /\ pc' \in [Requests -> Labels]
         /\ log' \in [Requests -> Logs \cup {NoLog}]
         /\ \A q \in Requests : pc'[q] # "idle" => log'[q] \in Logs /\ pc[q] = pc'[q]
         /\ \A q \in Requests : pc'[q] \in {"open", "append", "index", "rotate"} <=> lock' = q
         /\ \A q \in Requests : pc'[q] \notin {"open", "append"}
<1> HIDE DEF Logs, NoLog
<1>1. QED
  BY AuditTrailAssumption DEF TypeInv, Return, Goto, Labels

LEMMA TypeStep == TypeInv /\ [Next]_vars => TypeInv'
<1> SUFFICES ASSUME TypeInv, [Next]_vars PROVE TypeInv'
  OBVIOUS
<1> USE AuditTrailAssumption
<1>1. CASE UNCHANGED vars
  BY <1>1 DEF vars, process, TypeInv
<1>2. ASSUME NEW r \in Requests, NEW a \in Apps, NEW t \in Texts, Begin(r, a, t)
      PROVE  TypeInv'
  <2> DEFINE l == [id |-> begun + 1, app |-> a, text |-> t, at |-> clock,
                   prev |-> NoHash, hash |-> NoHash]
  <2>1. l \in Logs
    BY <1>2 DEF Begin, TypeInv, Logs, Ids
  <2>2. log' = [log EXCEPT ![r] = l]
    BY <1>2 DEF Begin
  <2> HIDE DEF l, Logs, NoLog
  <2>3. QED
    BY <1>2, <2>1, <2>2 DEF Begin, Goto, TypeInv, Labels
<1>3. ASSUME NEW r \in Requests, AddLog(r)
      PROVE  TypeInv'
  <2> DEFINE hash == <<log[r].id, Encode(log[r].text)>>
             l    == [log[r] EXCEPT !.prev = last, !.hash = hash]
  <2>0. pc[r] = "lock" /\ log[r] \in Logs
    BY <1>3 DEF AddLog, TypeInv
  <2>1. hash \in Hash
    BY <2>0 DEF Logs, Hash, Encode
  <2>2. l \in Logs
    BY <2>0, <2>1 DEF Logs, TypeInv
  <2>3. log' = [log EXCEPT ![r] = l] /\ last' = hash
    BY <1>3, <2>0 DEF AddLog, Chain, TypeInv, Logs
  <2>4. chained' \in Seq(Ids)
    <3>1. log[r].id \in Ids
      BY <2>0 DEF Logs
    <3> HIDE DEF Ids
    <3>2. QED
      BY <1>3, <3>1, AppendProperties DEF AddLog, Chain, TypeInv
  <2>5. l.hash = hash
    BY <2>0 DEF Logs
  <2> HIDE DEF l, hash, Logs, NoLog
  <2>6. /\ lock = None /\ lock' = r
        /\ pc' = [pc EXCEPT ![r] = "open"]
        /\ UNCHANGED <<clock, begun, open, count, disk, index, cached, written, edits>>
    BY <1>3 DEF AddLog, Chain, Goto
  <2>7. pc' \in [Requests -> Labels] /\ log' \in [Requests -> Logs \cup {NoLog}]
    BY <2>2, <2>3, <2>6 DEF TypeInv, Labels
  <2>8. /\ \A q \in Requests : pc'[q] # "idle" => log'[q] \in Logs
        /\ \A q \in Requests : pc'[q] \in {"open", "append", "index", "rotate"} <=> lock' = q
        /\ \A q \in Requests : pc'[q] \in {"open", "append"} => log'[q].hash \in Hash
        /\ \A q \in Requests : pc'[q] # "append"
    BY <2>1, <2>2, <2>3, <2>5, <2>6 DEF TypeInv, Labels
  <2>9. QED
    BY <2>1, <2>3, <2>4, <2>6, <2>7, <2>8 DEF TypeInv
<1>4. ASSUME NEW r \in Requests, Open(r)
      PROVE  TypeInv'
  <2>1. pc[r] = "open" /\ log[r] \in Logs /\ log[r].app \in Apps /\ log[r].at \in 0..MaxTime
    BY <1>4 DEF Open, TypeInv, Logs
  <2> HIDE DEF Logs, NoLog
  <2>2. open' \in [Apps -> 0..MaxTime \cup {None}] /\ open'[log[r].app] \in 0..MaxTime
    BY <1>4, <2>1 DEF Open, TypeInv
  <2>3. \A q \in Requests : pc'[q] = "append" => q = r
    BY <1>4, <2>1 DEF Open, Goto, TypeInv
  <2>4. QED
    BY <1>4, <2>1, <2>2, <2>3 DEF Open, Goto, TypeInv, Labels
<1>5. ASSUME NEW r \in Requests, OpenFails(r)
      PROVE  TypeInv'
  <2>1. lock = r
    BY <1>5 DEF OpenFails, TypeInv
  <2>2. QED
    BY <1>5, <2>1, ReturnType DEF OpenFails, TypeInv
<1>6. ASSUME NEW r \in Requests, AppendLog(r), RecordOf(log[r]) \in Record
      PROVE  TypeInv'
  <2> DEFINE f == <<log[r].app, open[log[r].app]>>
  <2>1. pc[r] = "append" /\ log[r] \in Logs /\ f \in Names
    BY <1>6 DEF AppendLog, TypeInv, Logs, Names
  <2>2. RecordOf(log[r]) \in Line
    BY <1>6 DEF Line
  <2> HIDE DEF f, Logs, NoLog, Line, Record, Names
  <2>3. AppendLine(disk[f], RecordOf(log[r])) \in Seq(Line)
    BY <2>1, <2>2, LineType DEF TypeInv
  <2>4. Append(written[f], RecordOf(log[r])) \in Seq(Record)
    BY <2>1, <1>6, AppendProperties DEF TypeInv
  <2>5. disk' \in [Names -> Seq(Line)] /\ written' \in [Names -> Seq(Record)]
    BY <1>6, <2>1, <2>3, <2>4 DEF AppendLog, TypeInv, f
  <2>6. QED
    BY <1>6, <2>1, <2>5 DEF AppendLog, Goto, TypeInv, Labels
<1>7. ASSUME NEW r \in Requests, AppendFails(r)
      PROVE  TypeInv'
  <2> DEFINE f == <<log[r].app, open[log[r].app]>>
  <2>1. pc[r] = "append" /\ lock = r /\ f \in Names
    BY <1>7 DEF AppendFails, TypeInv, Logs, Names
  <2>2. Torn \in Line
    BY DEF Line
  <2> HIDE DEF f, Logs, NoLog, Line, Names, Torn
  <2>3. AppendLine(disk[f], Torn) \in Seq(Line)
    BY <2>1, <2>2, LineType DEF TypeInv
  <2>4. disk' \in [Names -> Seq(Line)]
    BY <1>7, <2>1, <2>3 DEF AppendFails, TypeInv, f
  <2>5. QED
    BY <1>7, <2>1, <2>4, ReturnType DEF AppendFails, TypeInv
<1>8. ASSUME NEW r \in Requests, UpdateIndex(r)
      PROVE  TypeInv'
  <2>1. pc[r] = "index" /\ log[r] \in Logs /\ log[r].app \in Apps
    BY <1>8 DEF UpdateIndex, TypeInv, Logs
  <2> HIDE DEF Logs, NoLog
  <2>2. QED
    BY <1>8, <2>1 DEF UpdateIndex, Goto, TypeInv, Labels
<1>9. ASSUME NEW r \in Requests, UpdateIndexFails(r)
      PROVE  TypeInv'
  <2>1. pc[r] = "index" /\ log[r].app \in Apps /\ lock = r
    BY <1>9 DEF UpdateIndexFails, TypeInv, Logs
  <2> HIDE DEF Logs, NoLog
  <2>2. count' \in [Apps -> Nat] /\ index' \in [Apps -> Nat \cup {None}]
    BY <1>9, <2>1 DEF UpdateIndexFails, TypeInv
  <2>3. QED
    BY <1>9, <2>1, <2>2, ReturnType DEF UpdateIndexFails, TypeInv
<1>10. ASSUME NEW r \in Requests, Rotate(r)
      PROVE  TypeInv'
  <2>1. lock = r
    BY <1>10 DEF Rotate, TypeInv
  <2>2. open' \in [Apps -> 0..MaxTime \cup {None}]
    BY <1>10 DEF Rotate, TypeInv
  <2>3. QED
    BY <1>10, <2>1, <2>2, ReturnType DEF Rotate, TypeInv
<1>11. ASSUME NEW a \in Apps, LoadIndex(a)
       PROVE  TypeInv'
  BY <1>11 DEF LoadIndex, TypeInv
<1>12. CASE Restart
  <2>1. << >> \in Seq(Ids)
    BY EmptySeq
  <2>2. QED
    BY <1>12, <2>1 DEF Restart, TypeInv, Labels
<1>13. CASE Tick
  BY <1>13 DEF Tick, TypeInv, process
<1>14. ASSUME NEW f \in Names, Edit(f)
       PROVE  TypeInv'
  <2>1. disk'[f] \in Seq(Line) /\ disk' = [disk EXCEPT ![f] = disk'[f]]
    BY <1>14, EditLines
  <2>2. UNCHANGED <<clock, begun, process, index, written>> /\ edits' = edits + 1
    BY <1>14 DEF Edit
  <2> HIDE DEF Names, Line
  <2>3. disk' \in [Names -> Seq(Line)]
    BY <2>1 DEF TypeInv
  <2>4. QED
    BY <2>2, <2>3 DEF TypeInv, process
<1>15. ASSUME NEW r \in Requests, AppendLog(r)
       PROVE  RecordOf(log[r]) \in Record
  <2>1. log[r] \in Logs /\ log[r].hash \in Hash
    BY <1>15 DEF AppendLog, TypeInv
  <2>2. log[r].text \in Texts
    BY <2>1 DEF Logs
  <2>3. QED
    BY <2>1, <2>2, RecordType
<1>16. QED
  BY <1>1, <1>2, <1>3, <1>4, <1>5, <1>6, <1>7, <1>8, <1>9, <1>10, <1>11, <1>12, <1>13,
     <1>14, <1>15 DEF Next, Write

\* The invariant of the chain and of the records.
CoreInv ==
  ChainInv /\ RecordInv /\ DistinctInv /\ FollowInv /\ OrderInv /\ HolderInv

\* Steps that neither begin, chain nor write a log, nor forget the chain.
Quiet ==
  /\ UNCHANGED <<begun, last, chained, written>>
  /\ \A r \in Requests : pc'[r] # "idle" => pc[r] # "idle" /\ log'[r] = log[r]
  /\ \A r \in Requests : pc'[r] = "lock" => pc[r] = "lock"
  /\ \A r \in Requests : pc'[r] \in {"open", "append"} => pc[r] \in {"open", "append"}

LEMMA Steps ==
  ASSUME TypeInv, [Next]_vars
  PROVE  \/ Quiet \/ Restart
         \/ \E r \in Requests : AddLog(r) \/ AppendLog(r)
         \/ \E r \in Requests, a \in Apps, t \in Texts : Begin(r, a, t)
<1> USE DEF TypeInv, Quiet
<1>1. ASSUME NEW r \in Requests,
             \/ Open(r) \/ OpenFails(r) \/ AppendFails(r)
             \/ UpdateIndex(r) \/ UpdateIndexFails(r) \/ Rotate(r)
      PROVE  Quiet
  <2>1. UNCHANGED <<begun, last, chained, written>>
    BY <1>1 DEF Open, OpenFails, AppendFails, UpdateIndex, UpdateIndexFails, Rotate
  <2>2. \/ Return(r)
        \/ log' = log /\ Goto(r, "append") /\ pc[r] = "open"
        \/ log' = log /\ Goto(r, "rotate") /\ pc[r] = "index"
    BY <1>1 DEF Open, OpenFails, AppendFails, UpdateIndex, UpdateIndexFails, Rotate
  <2>3. QED
    BY <2>1, <2>2 DEF Return, Goto
<1>2. ASSUME NEW a \in Apps, LoadIndex(a)
      PROVE  Quiet
  BY <1>2 DEF LoadIndex
<1>3. ASSUME NEW f \in Names, Edit(f)
      PROVE  Quiet
  BY <1>3 DEF Edit, process
<1>4. CASE Tick \/ UNCHANGED vars
  BY <1>4 DEF Tick, process, vars
<1>5. QED
  BY <1>1, <1>2, <1>3, <1>4 DEF Next, Write

LEMMA WrittenType ==
  ASSUME TypeInv
  PROVE  /\ \A f \in Names : Len(written[f]) \in Nat
         /\ \A f \in Names : \A i \in 1..Len(written[f]) :
              /\ written[f][i] \in Record
              /\ written[f][i].id \in Nat /\ written[f][i].id # 0
              /\ written[f][i].id \in Ids /\ written[f][i].prev[1] \in Nat
<1>1. \A f \in Names : written[f] \in Seq(Record)
  BY DEF TypeInv
<1>2. ASSUME NEW f \in Names, NEW i \in 1..Len(written[f])
      PROVE  written[f][i] \in Record
  <2> HIDE DEF Record
  <2>1. QED
    BY <1>1, ElementOfSeq
<1>3. \A w \in Record : w.id \in Nat /\ w.id # 0 /\ w.id \in Ids /\ w.prev[1] \in Nat
  BY AuditTrailAssumption DEF Record, Ids, Hash, NoHash
<1>4. QED
  BY <1>1, <1>2, <1>3

LEMMA ChainedType ==
  ASSUME TypeInv
  PROVE  /\ Len(chained) \in Nat /\ (chained # << >> => Len(chained) \in Nat \ {0})
         /\ \A i \in 1..Len(chained) : chained[i] \in Nat /\ chained[i] # 0
<1>1. chained \in Seq(Ids)
  BY DEF TypeInv
<1>2. ASSUME NEW i \in 1..Len(chained)
      PROVE  chained[i] \in Ids
  <2> HIDE DEF Ids
  <2>1. QED
    BY <1>1, ElementOfSeq
<1>3. QED
  BY <1>1, <1>2, EmptySeq, AuditTrailAssumption DEF Ids

LEMMA InitCore == Init => CoreInv
<1> SUFFICES ASSUME Init PROVE CoreInv
  OBVIOUS
<1>1. Len(chained) = 0 /\ \A f \in Names : Len(written[f]) = 0
  BY EmptySeq DEF Init
<1>2. \A r \in Requests : pc[r] = "idle"
  BY DEF Init
<1>3. ChainInv /\ RecordInv /\ DistinctInv /\ FollowInv
  BY <1>1, <1>2 DEF Init, ChainInv, RecordInv, DistinctInv, FollowInv
<1>4. OrderInv /\ HolderInv
  BY <1>1, <1>2 DEF OrderInv, HolderInv, LastOf, Init
<1>5. QED
  BY <1>3, <1>4 DEF CoreInv

LEMMA QuietCore == CoreInv /\ Quiet => CoreInv'
<1> SUFFICES ASSUME CoreInv, Quiet PROVE CoreInv'
  OBVIOUS
<1> USE DEF CoreInv, Quiet
<1>1. ChainInv'
  BY DEF ChainInv
<1>2. RecordInv' /\ DistinctInv' /\ FollowInv' /\ OrderInv'
  <2>1. RecordInv' /\ DistinctInv'
    BY DEF RecordInv, DistinctInv
  <2>2. FollowInv'
    BY DEF FollowInv
  <2>3. OrderInv'
    <3>1. written' = written /\ chained' = chained /\ OrderInv
      OBVIOUS
    <3>2. ASSUME NEW f \in Names, NEW i \in 1..Len(written[f]), NEW j \in 1..Len(written[f]),
                 NEW k \in 1..Len(chained), NEW m \in 1..Len(chained),
                 i < j, written[f][i].id = chained[k], written[f][j].id = chained[m]
          PROVE  k < m
      BY <3>1, <3>2 DEF OrderInv
    <3>3. ASSUME NEW f \in Names, NEW i \in 1..Len(written[f]), NEW k \in 2..Len(chained),
                 written[f][i].id = chained[k]
          PROVE  written[f][i].prev[1] = chained[k - 1]
      BY <3>1, <3>3 DEF OrderInv
    <3>4. QED
      BY <3>1, <3>2, <3>3 DEF OrderInv
  <2>4. QED
    BY <2>1, <2>2, <2>3
<1>3. HolderInv'
  <2>1. \A id, hash : LastOf(id, hash) => LastOf(id, hash)'
    BY DEF LastOf
  <2>2. \A id : NotWritten(id) => NotWritten(id)'
    BY DEF NotWritten
  <2>3. LastOf(last[1], last)'
    BY DEF HolderInv, LastOf
  <2>4. ASSUME NEW r \in Requests, pc'[r] \in {"lock", "open", "append"}
        PROVE  NotWritten(log[r].id)'
    <3>1. NotWritten(log[r].id) /\ log'[r] = log[r]
      BY <2>4 DEF HolderInv
    <3>2. QED
      BY <3>1 DEF NotWritten
  <2>5. ASSUME NEW r \in Requests, pc'[r] \in {"open", "append"}
        PROVE  /\ chained # << >> /\ log'[r].id = chained[Len(chained)]
               /\ log'[r].hash = <<log'[r].id, Encode(log'[r].text)>> /\ last = log'[r].hash
               /\ log'[r].prev[1] = IF Len(chained) = 1 THEN 0 ELSE chained[Len(chained) - 1]
               /\ LastOf(log[r].prev[1], log[r].prev)'
    <3>1. log'[r] = log[r] /\ pc[r] \in {"open", "append"}
      BY <2>5
    <3>2. LastOf(log[r].prev[1], log[r].prev)
      BY <3>1 DEF HolderInv
    <3>3. LastOf(log[r].prev[1], log[r].prev)'
      BY <3>1, <3>2 DEF LastOf
    <3>4. QED
      BY <3>1, <3>3 DEF HolderInv
  <2>6. QED
    BY <2>3, <2>4, <2>5 DEF HolderInv
<1>4. QED
  BY <1>1, <1>2, <1>3

LEMMA RestartCore == TypeInv /\ CoreInv /\ Restart => CoreInv'
<1> SUFFICES ASSUME TypeInv, CoreInv, Restart PROVE CoreInv'
  OBVIOUS
<1> USE DEF CoreInv, Restart
<1>1. Len(chained') = 0 /\ last' = NoHash /\ \A r \in Requests : pc'[r] = "idle"
  BY EmptySeq
<1>2. ChainInv'
  BY <1>1 DEF ChainInv
<1>3. RecordInv' /\ DistinctInv' /\ FollowInv'
  BY DEF RecordInv, DistinctInv, FollowInv
<1>4. OrderInv'
  BY <1>1 DEF OrderInv
<1>5. LastOf(last[1], last)'
  <2>1. \A f \in Names : \A i \in 1..Len(written[f]) : written[f][i].id # 0
    BY WrittenType
  <2>2. last'[1] = 0
    BY <1>1 DEF NoHash
  <2>3. QED
    BY <2>1, <2>2 DEF LastOf
<1>6. HolderInv'
  BY <1>1, <1>5 DEF HolderInv
<1>7. QED
  BY <1>2, <1>3, <1>4, <1>6

LEMMA BeginCore ==
  ASSUME TypeInv, CoreInv, NEW r \in Requests, NEW a \in Apps, NEW t \in Texts, Begin(r, a, t)
  PROVE  CoreInv'
<1> USE DEF CoreInv
<1>1. /\ pc[r] = "idle" /\ begun \in Nat /\ begun' = begun + 1
      /\ log'[r].id = begun + 1 /\ pc'[r] = "lock"
      /\ \A q \in Requests \ {r} : pc'[q] = pc[q] /\ log'[q] = log[q]
      /\ UNCHANGED <<last, chained, written>>
  BY AuditTrailAssumption DEF Begin, Goto, TypeInv
<1>2. \A f \in Names : \A i \in 1..Len(written[f]) :
        written[f][i].id \in Nat /\ written[f][i].prev[1] \in Nat
  BY WrittenType
<1>3. \A i \in 1..Len(chained) : chained[i] \in Nat
  BY ChainedType
<1>4. \A q \in Requests : pc[q] # "idle" => log[q].id \in Nat
  BY DEF TypeInv, Logs, Ids
<1>5. ChainInv'
  BY <1>1, <1>3, <1>4 DEF ChainInv
<1>6. RecordInv'
  BY <1>1, <1>2 DEF RecordInv
<1>7. DistinctInv' /\ FollowInv' /\ OrderInv'
  BY <1>1 DEF DistinctInv, FollowInv, OrderInv
<1>8. HolderInv'
  <2>1. LastOf(last[1], last)'
    BY <1>1 DEF HolderInv, LastOf
  <2>2. ASSUME NEW q \in Requests, pc'[q] \in {"lock", "open", "append"}
        PROVE  NotWritten(log[q].id)'
    <3>1. CASE q = r
      BY <3>1, <1>1, <1>2 DEF RecordInv, NotWritten
    <3>2. CASE q # r
      BY <3>2, <2>2, <1>1 DEF HolderInv, NotWritten
    <3>3. QED
      BY <3>1, <3>2
  <2>3. ASSUME NEW q \in Requests, pc'[q] \in {"open", "append"}
        PROVE  /\ chained # << >> /\ log'[q].id = chained[Len(chained)]
               /\ log'[q].hash = <<log'[q].id, Encode(log'[q].text)>> /\ last = log'[q].hash
               /\ log'[q].prev[1] = IF Len(chained) = 1 THEN 0 ELSE chained[Len(chained) - 1]
               /\ LastOf(log[q].prev[1], log[q].prev)'
    <3>1. q # r /\ log'[q] = log[q] /\ pc[q] \in {"open", "append"}
      BY <2>3, <1>1
    <3>2. LastOf(log[q].prev[1], log[q].prev)
      BY <3>1 DEF HolderInv
    <3>3. LastOf(log[q].prev[1], log[q].prev)'
      BY <3>1, <3>2, <1>1 DEF LastOf
    <3>4. QED
      BY <3>1, <3>3 DEF HolderInv
  <2>4. QED
    BY <2>1, <2>2, <2>3, <1>1 DEF HolderInv
<1>9. QED
  BY <1>5, <1>6, <1>7, <1>8

LEMMA AddLogCore ==
  ASSUME TypeInv, CoreInv, NEW r \in Requests, AddLog(r)
  PROVE  CoreInv'
<1> USE DEF CoreInv
<1> DEFINE id == log[r].id
           n  == Len(chained)
<1>0. n \in Nat /\ id \in Nat /\ id # 0 /\ id \in Ids /\ pc[r] = "lock" /\ lock = None
  BY AuditTrailAssumption, ChainedType DEF AddLog, TypeInv, Logs, Ids
<1>1. /\ chained' = Append(chained, id) /\ chained' # << >> /\ Len(chained') = n + 1
      /\ \A i \in 1..n : chained'[i] = chained[i]
      /\ chained'[n + 1] = id
  <2>1. chained \in Seq(Ids) /\ chained' = Append(chained, id)
    BY DEF TypeInv, AddLog, Chain
  <2> HIDE DEF Ids
  <2>2. QED
    BY <1>0, <2>1, AppendProperties
<1>2. /\ log'[r].id = id /\ log'[r].text = log[r].text
      /\ log'[r].prev = last /\ log'[r].hash = <<id, Encode(log[r].text)>>
      /\ pc'[r] = "open"
      /\ last' = <<id, Encode(log[r].text)>> /\ last'[1] = id
      /\ \A q \in Requests \ {r} : pc'[q] = pc[q] /\ log'[q] = log[q]
      /\ UNCHANGED <<begun, written>>
  <2>1. log[r] \in Logs
    BY <1>0 DEF TypeInv
  <2>2. \A q \in Requests \ {r} : pc'[q] = pc[q] /\ log'[q] = log[q]
    BY DEF AddLog, Chain, Goto, TypeInv
  <2>3. log'[r] = [log[r] EXCEPT !.prev = last, !.hash = <<id, Encode(log[r].text)>>]
    BY DEF AddLog, Chain, TypeInv
  <2>4. QED
    BY <2>1, <2>2, <2>3 DEF AddLog, Chain, Goto, TypeInv, Logs
<1>3. \A q \in Requests \ {r} : pc[q] \notin {"open", "append"}
  BY <1>0, AuditTrailAssumption DEF TypeInv
<1>4. /\ \A i \in 1..n : chained[i] # id
      /\ id <= begun
      /\ NotWritten(id)
  BY <1>0 DEF ChainInv, HolderInv
<1>5. \A q \in Requests \ {r} : pc[q] # "idle" => log[q].id # id
  BY <1>0 DEF ChainInv
<1> HIDE DEF id, n, CoreInv
<1>6. ChainInv'
  <2>1. ChainInv
    BY DEF CoreInv
  <2>2. \A i \in 1..Len(chained') : i \in 1..n \/ i = n + 1
    BY <1>0, <1>1
  <2>3. \A q \in Requests : pc'[q] # "idle" => log'[q].id <= begun
    BY <2>1, <1>2, <1>4 DEF ChainInv, id
  <2>4. \A q, s \in Requests :
          q # s /\ pc'[q] # "idle" /\ pc'[s] # "idle" => log'[q].id # log'[s].id
    BY <2>1, <1>2, <1>5 DEF ChainInv, id
  <2>5. \A i \in 1..Len(chained') : chained'[i] <= begun
    BY <2>1, <2>2, <1>1, <1>4 DEF ChainInv, n
  <2>6. \A i, j \in 1..Len(chained') : chained'[i] = chained'[j] => i = j
    BY <2>1, <2>2, <1>1, <1>4 DEF ChainInv, n
  <2>7. \A q \in Requests : pc'[q] = "lock" =>
          \A i \in 1..Len(chained') : chained'[i] # log'[q].id
    BY <2>1, <2>2, <1>1, <1>2, <1>5 DEF ChainInv, n
  <2>8. QED
    BY <2>3, <2>4, <2>5, <2>6, <2>7, <1>1, <1>2 DEF ChainInv
<1>7. RecordInv' /\ DistinctInv' /\ FollowInv'
  BY <1>2 DEF CoreInv, RecordInv, DistinctInv, FollowInv
<1>8. \A f \in Names : \A i \in 1..Len(written[f]), k \in 1..Len(chained') :
        written[f][i].id = chained'[k] => k \in 1..n /\ chained'[k] = chained[k]
  <2>1. \A k \in 1..Len(chained') : k \in 1..n \/ k = n + 1
    BY <1>0, <1>1
  <2>2. QED
    BY <2>1, <1>1, <1>4 DEF NotWritten
<1>9. OrderInv'
  <2>1. OrderInv
    BY DEF CoreInv
  <2>2. ASSUME NEW f \in Names, NEW i \in 1..Len(written[f]), NEW j \in 1..Len(written[f]),
               NEW k \in 1..Len(chained'), NEW m \in 1..Len(chained'),
               i < j, written[f][i].id = chained'[k], written[f][j].id = chained'[m]
        PROVE  k < m
    BY <2>1, <2>2, <1>8 DEF OrderInv, n
  <2>3. ASSUME NEW f \in Names, NEW i \in 1..Len(written[f]), NEW k \in 2..Len(chained'),
               written[f][i].id = chained'[k]
        PROVE  written[f][i].prev[1] = chained'[k - 1]
    <3>1. k \in 1..Len(chained') /\ k \in 2..n /\ chained'[k] = chained[k]
      BY <2>3, <1>0, <1>1, <1>8
    <3>2. chained'[k - 1] = chained[k - 1]
      BY <3>1, <1>0, <1>1
    <3>3. \A g \in Names : \A x \in 1..Len(written[g]), y \in 2..Len(chained) :
            written[g][x].id = chained[y] => written[g][x].prev[1] = chained[y - 1]
      BY <2>1 DEF OrderInv
    <3>4. written[f][i].id = chained[k] /\ k \in 2..Len(chained)
      BY <3>1, <2>3 DEF n
    <3>5. written[f][i].prev[1] = chained[k - 1]
      BY <3>3, <3>4
    <3>6. QED
      BY <3>2, <3>5
  <2>4. QED
    BY <2>2, <2>3, <1>2 DEF OrderInv
<1>10. HolderInv'
  <2>0. HolderInv
    BY DEF CoreInv
  <2>1. LastOf(last[1], last)'
    BY <1>2, <1>4 DEF LastOf, NotWritten
  <2>2. ASSUME NEW q \in Requests, pc'[q] \in {"lock", "open", "append"}
        PROVE  NotWritten(log[q].id)'
    <3>1. NotWritten(log[q].id) /\ log'[q].id = log[q].id
      BY <2>0, <2>2, <1>2, <1>4 DEF HolderInv, id
    <3>2. QED
      BY <3>1, <1>2 DEF NotWritten
  <2>3. ASSUME NEW q \in Requests, pc'[q] \in {"open", "append"}
        PROVE  /\ chained' # << >> /\ log'[q].id = chained'[Len(chained')]
               /\ log'[q].hash = <<log'[q].id, Encode(log'[q].text)>> /\ last' = log'[q].hash
               /\ log'[q].prev[1] =
                    IF Len(chained') = 1 THEN 0 ELSE chained'[Len(chained') - 1]
               /\ LastOf(log[q].prev[1], log[q].prev)'
    <3>1. q = r
      BY <2>3, <1>2, <1>3
    <3>2. LastOf(log[r].prev[1], log[r].prev)'
      BY <2>0, <1>2 DEF HolderInv, LastOf
    <3>3. last[1] = IF n = 0 THEN 0 ELSE chained[n]
      <4>1. n = 0 <=> chained = << >>
        BY ChainedType, EmptySeq DEF n
      <4>2. QED
        BY <4>1 DEF CoreInv, ChainInv, NoHash, n
    <3>4. log'[q].prev[1] = IF Len(chained') = 1 THEN 0 ELSE chained'[Len(chained') - 1]
      BY <3>1, <3>3, <1>0, <1>1, <1>2
    <3>5. QED
      BY <3>1, <3>2, <3>4, <1>1, <1>2
  <2>4. QED
    BY <2>1, <2>2, <2>3 DEF HolderInv
<1>11. QED
  BY <1>6, <1>7, <1>9, <1>10 DEF CoreInv

\* What AppendLog puts where.
LEMMA Appended ==
  ASSUME TypeInv, NEW r \in Requests, AppendLog(r),
         NEW f0, f0 = <<log[r].app, open[log[r].app]>>
  PROVE  /\ f0 \in Names /\ pc[r] = "append" /\ pc'[r] = "index"
         /\ RecordOf(log[r]) \in Record
         /\ Len(written'[f0]) = Len(written[f0]) + 1
         /\ written'[f0][Len(written[f0]) + 1] = RecordOf(log[r])
         /\ \A i \in 1..Len(written[f0]) : written'[f0][i] = written[f0][i]
         /\ \A f \in Names \ {f0} : written'[f] = written[f]
         /\ \A f \in Names : \A i \in 1..Len(written'[f]) :
              \/ i \in 1..Len(written[f]) /\ written'[f][i] = written[f][i]
              \/ f = f0 /\ i = Len(written[f0]) + 1 /\ written'[f][i] = RecordOf(log[r])
         /\ \A q \in Requests \ {r} : pc'[q] = pc[q]
         /\ UNCHANGED <<begun, log, last, chained, count, index, cached>>
<1>1. f0 \in Names /\ log[r] \in Logs /\ log[r].hash \in Hash
  BY AuditTrailAssumption DEF AppendLog, TypeInv, Names, Logs
<1>2. RecordOf(log[r]) \in Record
  BY <1>1, RecordType DEF Logs
<1>3. written[f0] \in Seq(Record)
  BY <1>1 DEF TypeInv
<1>4. written'[f0] = Append(written[f0], RecordOf(log[r]))
  BY <1>1 DEF AppendLog, TypeInv
<1> HIDE DEF Record, Names, Logs, RecordOf
<1>5. /\ Len(written[f0]) \in Nat
      /\ Len(written'[f0]) = Len(written[f0]) + 1
      /\ written'[f0][Len(written[f0]) + 1] = RecordOf(log[r])
      /\ \A i \in 1..Len(written[f0]) : written'[f0][i] = written[f0][i]
  BY <1>2, <1>3, <1>4, AppendProperties
<1>6. \A f \in Names \ {f0} : written'[f] = written[f]
  BY <1>1 DEF AppendLog, TypeInv
<1>7. \A q \in Requests \ {r} : pc'[q] = pc[q]
  BY DEF AppendLog, Goto, TypeInv
<1>8. \A f \in Names : \A i \in 1..Len(written'[f]) :
              \/ i \in 1..Len(written[f]) /\ written'[f][i] = written[f][i]
              \/ f = f0 /\ i = Len(written[f0]) + 1 /\ written'[f][i] = RecordOf(log[r])
  BY <1>5, <1>6
<1>9. QED
  BY <1>1, <1>2, <1>5, <1>6, <1>7, <1>8 DEF AppendLog, Goto, TypeInv

LEMMA AppendLogCore ==
  ASSUME TypeInv, CoreInv, NEW r \in Requests, AppendLog(r)
  PROVE  CoreInv'
<1> DEFINE f0 == <<log[r].app, open[log[r].app]>>
           R  == RecordOf(log[r])
           n  == Len(written[f0])
           id == log[r].id
<1>1. /\ f0 \in Names /\ pc[r] = "append" /\ pc'[r] = "index"
      /\ R \in Record
      /\ Len(written'[f0]) = n + 1
      /\ written'[f0][n + 1] = R
      /\ \A i \in 1..n : written'[f0][i] = written[f0][i]
      /\ \A f \in Names \ {f0} : written'[f] = written[f]
      /\ \A f \in Names : \A i \in 1..Len(written'[f]) :
           \/ i \in 1..Len(written[f]) /\ written'[f][i] = written[f][i]
           \/ f = f0 /\ i = n + 1 /\ written'[f][i] = R
      /\ \A q \in Requests \ {r} : pc'[q] = pc[q]
      /\ UNCHANGED <<begun, log, last, chained, count, index, cached>>
  <2> HIDE DEF f0
  <2>1. f0 = <<log[r].app, open[log[r].app]>>
    BY DEF f0
  <2>2. QED
    BY <2>1, Appended
<1>2. /\ R.id = id /\ R.text = Encode(log[r].text) /\ R.prev = log[r].prev
      /\ R.hash = log[r].hash
  BY DEF RecordOf
<1>3. /\ \A f \in Names : Len(written[f]) \in Nat
      /\ \A f \in Names : \A i \in 1..Len(written[f]) :
           written[f][i].id \in Nat /\ written[f][i].id # 0
  BY WrittenType
<1>4. /\ chained # << >> /\ id = chained[Len(chained)]
      /\ log[r].hash = <<id, Encode(log[r].text)>> /\ last = log[r].hash
      /\ log[r].prev[1] = IF Len(chained) = 1 THEN 0 ELSE chained[Len(chained) - 1]
      /\ LastOf(log[r].prev[1], log[r].prev)
      /\ NotWritten(id)
  BY <1>1 DEF CoreInv, HolderInv
<1>5. id \in Nat /\ id # 0 /\ id <= begun /\ begun \in Nat
  <2>1. log[r] \in Logs /\ begun \in Nat
    BY <1>1, AuditTrailAssumption DEF TypeInv
  <2>2. QED
    BY <2>1, <1>1, AuditTrailAssumption DEF Logs, Ids, CoreInv, ChainInv
<1>6. /\ Len(chained) \in Nat \ {0}
      /\ \A i \in 1..Len(chained) : chained[i] \in Nat /\ chained[i] # 0
      /\ \A i \in 1..Len(chained) : chained[i] <= begun
      /\ \A i \in 1..Len(chained) : chained[i] = id => i = Len(chained)
  BY ChainedType, <1>4 DEF CoreInv, ChainInv
<1>7. /\ log[r].prev[1] # id /\ log[r].prev[1] <= begun
      /\ log[r].prev[1] = 0 \/ \E i \in 1..Len(chained) : log[r].prev[1] = chained[i]
  <2>1. CASE Len(chained) = 1
    BY <2>1, <1>4, <1>5
  <2>2. CASE Len(chained) # 1
    <3> DEFINE k == Len(chained)
    <3>1. k \in Nat \ {0}
      BY <1>6
    <3>2. k # 1
      BY <2>2
    <3>3. k \in Nat /\ k > 1
      <4> HIDE DEF k
      <4>1. QED
        BY <3>1, <3>2
    <3>4. k - 1 \in 1..k /\ k - 1 # k
      BY <3>3
    <3>5. log[r].prev[1] = chained[k - 1]
      BY <2>2, <1>4
    <3> HIDE DEF id
    <3>6. QED
      BY <3>4, <3>5, <1>6
  <2>3. QED
    BY <2>1, <2>2
<1>8. \A q \in Requests : pc'[q] \in {"lock", "open", "append"} => q # r /\ pc'[q] = pc[q]
  BY <1>1
<1>9. \A q \in Requests : pc'[q] \notin {"open", "append"}
  BY <1>8, <1>1, AuditTrailAssumption DEF TypeInv
<1>10. R.text # "edited"
  <2>1. log[r] \in Logs
    BY <1>1 DEF TypeInv
  <2>2. log[r].text \in {"utf8", "bytes"}
    BY <2>1, AuditTrailAssumption DEF Logs
  <2>3. QED
    BY <2>2, <1>2 DEF Encode
<1> HIDE DEF f0, R, n, id
<1>11. ChainInv'
  <2>1. ChainInv /\ \A q \in Requests : pc'[q] # "idle" => pc[q] # "idle"
    BY <1>1 DEF CoreInv
  <2>2. \A q \in Requests : pc'[q] = "lock" => pc[q] = "lock"
    BY <1>1
  <2>3. QED
    BY <2>1, <2>2, <1>1 DEF ChainInv
<1>12. RecordInv'
  <2>1. RecordInv /\ R.hash = <<R.id, R.text>> /\ R.id <= begun /\ R.prev[1] <= begun
    BY <1>2, <1>4, <1>5, <1>7 DEF CoreInv
  <2>2. QED
    BY <2>1, <1>1, <1>10 DEF RecordInv
<1>13. DistinctInv'
  <2> DEFINE w == written'
  <2>1. ASSUME NEW f \in Names, NEW g \in Names, NEW i \in 1..Len(w[f]), NEW j \in 1..Len(w[g]),
               w[f][i].id = w[g][j].id
        PROVE  f = g /\ i = j
    <3>1. CASE i \in 1..Len(written[f]) /\ w[f][i] = written[f][i]
      <4>1. CASE j \in 1..Len(written[g]) /\ w[g][j] = written[g][j]
        BY <3>1, <4>1, <2>1 DEF CoreInv, DistinctInv
      <4>2. CASE w[g][j] = R
        BY <3>1, <4>2, <2>1, <1>2, <1>4 DEF NotWritten
      <4>3. QED
        BY <4>1, <4>2, <1>1
    <3>2. CASE f = f0 /\ i = n + 1 /\ w[f][i] = R
      <4>1. CASE j \in 1..Len(written[g]) /\ w[g][j] = written[g][j]
        BY <3>2, <4>1, <2>1, <1>2, <1>4 DEF NotWritten
      <4>2. CASE g = f0 /\ j = n + 1
        BY <3>2, <4>2
      <4>3. QED
        BY <4>1, <4>2, <1>1
    <3>3. QED
      BY <3>1, <3>2, <1>1
  <2>2. QED
    BY <2>1 DEF DistinctInv
<1>14. FollowInv'
  <2>1. FollowInv
    BY DEF CoreInv
  <2> DEFINE w == written'
  <2>2. ASSUME NEW f \in Names, NEW i \in 1..Len(w[f]), NEW j \in 1..Len(w[f]),
               w[f][j].prev[1] = w[f][i].id
        PROVE  j = i + 1 /\ w[f][j].prev = w[f][i].hash
    <3>1. CASE i \in 1..Len(written[f]) /\ w[f][i] = written[f][i]
      <4>1. CASE j \in 1..Len(written[f]) /\ w[f][j] = written[f][j]
        BY <3>1, <4>1, <2>1, <2>2 DEF FollowInv
      <4>2. CASE f = f0 /\ j = n + 1 /\ w[f][j] = R
        <5>1. written[f][i].id = log[r].prev[1]
          BY <3>1, <4>2, <2>2, <1>2
        <5>2. i = Len(written[f]) /\ written[f][i].hash = log[r].prev
          BY <5>1, <3>1, <1>4 DEF LastOf
        <5>3. QED
          BY <5>2, <4>2, <3>1, <1>2 DEF n
      <4>3. QED
        BY <4>1, <4>2, <1>1
    <3>2. CASE f = f0 /\ i = n + 1 /\ w[f][i] = R
      <4>1. w[f][j].prev[1] = id
        BY <3>2, <2>2, <1>2
      <4>2. CASE j \in 1..Len(written[f]) /\ w[f][j] = written[f][j]
        BY <4>1, <4>2, <1>4 DEF NotWritten
      <4>3. CASE w[f][j] = R
        BY <4>1, <4>3, <1>2, <1>7
      <4>4. QED
        BY <4>2, <4>3, <1>1
    <3>3. QED
      BY <3>1, <3>2, <1>1
  <2>3. QED
    BY <2>2 DEF FollowInv
<1>15. OrderInv'
  <2>1. /\ \A f \in Names : \A i, j \in 1..Len(written[f]), k, m \in 1..Len(chained) :
             /\ i < j
             /\ written[f][i].id = chained[k]
             /\ written[f][j].id = chained[m]
             => k < m
        /\ \A f \in Names : \A i \in 1..Len(written[f]), k \in 2..Len(chained) :
             written[f][i].id = chained[k] => written[f][i].prev[1] = chained[k - 1]
    BY DEF CoreInv, OrderInv
  <2> DEFINE w == written'
  <2>2. ASSUME NEW f \in Names, NEW i \in 1..Len(w[f]), NEW j \in 1..Len(w[f]),
               NEW k \in 1..Len(chained), NEW m \in 1..Len(chained),
               i < j, w[f][i].id = chained[k], w[f][j].id = chained[m]
        PROVE  k < m
    <3>1. i \in 1..Len(written[f]) /\ w[f][i] = written[f][i]
      BY <2>2, <1>1, <1>3 DEF n
    <3>2. CASE j \in 1..Len(written[f]) /\ w[f][j] = written[f][j]
      BY <3>1, <3>2, <2>1, <2>2
    <3>3. CASE w[f][j] = R
      <4>1. m = Len(chained)
        BY <3>3, <2>2, <1>2, <1>6
      <4>2. chained[k] # id
        BY <3>1, <2>2, <1>4 DEF NotWritten
      <4>3. k # m
        BY <4>2, <3>3, <2>2, <1>2
      <4>4. QED
        BY <4>1, <4>3, <1>6
    <3>4. QED
      BY <3>2, <3>3, <1>1
  <2>3. ASSUME NEW f \in Names, NEW i \in 1..Len(w[f]), NEW k \in 2..Len(chained),
               w[f][i].id = chained[k]
        PROVE  w[f][i].prev[1] = chained[k - 1]
    <3>1. CASE i \in 1..Len(written[f]) /\ w[f][i] = written[f][i]
      <4>1. written[f][i].id = chained[k]
        BY <3>1, <2>3
      <4>2. written[f][i].prev[1] = chained[k - 1]
        <5>1. \A g \in Names : \A x \in 1..Len(written[g]), y \in 2..Len(chained) :
                written[g][x].id = chained[y] => written[g][x].prev[1] = chained[y - 1]
          BY <2>1 DEF OrderInv
        <5> HIDE DEF w
        <5>2. QED
          BY <3>1, <2>3, <4>1, <5>1
      <4>3. QED
        BY <3>1, <4>2
    <3>2. CASE w[f][i] = R
      <4>1. k = Len(chained)
        BY <3>2, <2>3, <1>2, <1>6
      <4>2. QED
        BY <4>1, <3>2, <1>2, <1>4, <1>6
    <3>3. QED
      BY <3>1, <3>2, <1>1
  <2>4. chained' = chained
    BY <1>1
  <2>5. QED
    BY <2>2, <2>3, <2>4 DEF OrderInv
<1>16. HolderInv'
  <2>0. HolderInv
    BY DEF CoreInv
  <2>1. LastOf(last[1], last)'
    <3>1. last' = last /\ last[1] = id
      BY <1>1, <1>4
    <3>2. ASSUME NEW f \in Names, NEW i \in 1..Len(written'[f]), written'[f][i].id = id
          PROVE  i = Len(written'[f]) /\ written'[f][i].hash = last
      <4>1. f = f0 /\ i = n + 1 /\ written'[f][i] = R
        BY <3>2, <1>1, <1>4 DEF NotWritten
      <4>2. QED
        BY <4>1, <1>1, <1>2, <1>4
    <3>3. QED
      BY <3>1, <3>2 DEF LastOf
  <2>2. ASSUME NEW q \in Requests, pc'[q] = "lock"
        PROVE  NotWritten(log[q].id)'
    <3>1. q # r /\ pc[q] = "lock" /\ log'[q] = log[q]
      BY <2>2, <1>1
    <3>2. NotWritten(log[q].id) /\ log[q].id # id
      BY <3>1, <2>0, <1>1 DEF HolderInv, CoreInv, ChainInv, id
    <3>3. log[q].id # log[r].prev[1]
      <4>1. \A i \in 1..Len(chained) : chained[i] # log[q].id
        BY <3>1 DEF CoreInv, ChainInv
      <4>2. log[q] \in Logs
        BY <3>1 DEF TypeInv
      <4>3. log[q].id # 0
        BY <4>2, AuditTrailAssumption DEF Logs, Ids
      <4>4. QED
        BY <4>1, <4>3, <1>7
    <3>4. QED
      BY <3>1, <3>2, <3>3, <1>1, <1>2 DEF NotWritten
  <2>3. QED
    BY <2>1, <2>2, <1>9 DEF HolderInv
<1>17. QED
  BY <1>11, <1>12, <1>13, <1>14, <1>15, <1>16 DEF CoreInv

LEMMA CoreStep == TypeInv /\ CoreInv /\ [Next]_vars => CoreInv'
BY Steps, QuietCore, RestartCore, AddLogCore, AppendLogCore, BeginCore

-----------------------------------------------------------------------------
(* The lines of the files, and the counters.                               *)

\* What is made up shows that it is.
LEMMA MadeUpShows ==
  ASSUME TypeInv, CoreInv, DiskInv, edits < MaxEdits, NEW line \in MadeUp
  PROVE  Accounted(line, written)
<1>1. \A known \in Known : Accounted(known, written)
  <2> HIDE DEF Accounted, Torn, Bad
  <2>1. QED
    BY DEF Known, DiskInv
<1>2. ASSUME NEW known \in Known, line = [known EXCEPT !.text = "edited"]
      PROVE  Accounted(line, written)
  <2>1. known \in Record \cup Forgery
    BY MadeUpType
  <2>2. line.text = "edited" /\ line.hash = known.hash
    BY <2>1, <1>2 DEF Record, Forgery
  <2>3. known \notin {Torn, Bad}
    BY <2>1 DEF Record, Forgery, Torn, Bad
  <2>4. known.hash[2] # "edited" \/ known.hash[1] \in ForgedIds
    <3>1. ASSUME NEW g \in Names, NEW j \in 1..Len(written[g]), known = written[g][j]
          PROVE  known.hash[2] # "edited"
      BY <3>1 DEF CoreInv, RecordInv
    <3> HIDE DEF Torn, Bad, ForgedIds, Names
    <3>2. QED
      BY <1>1, <2>3, <3>1 DEF Accounted
  <2> HIDE DEF Torn, Bad, ForgedIds, Names
  <2>5. QED
    BY <2>2, <2>4 DEF Accounted
<1>3. ASSUME NEW prev, line = Forged(prev)
      PROVE  Accounted(line, written)
  <2>1. line.hash[1] \in ForgedIds
    BY <1>3, AuditTrailAssumption DEF Forged, ForgedIds, TypeInv
  <2>2. QED
    BY <2>1 DEF Accounted
<1> HIDE DEF Known, Accounted
<1>4. QED
  BY <1>1, <1>2, <1>3 DEF MadeUp

LEMMA DiskStep == TypeInv /\ CoreInv /\ DiskInv /\ [Next]_vars => DiskInv'
<1> SUFFICES ASSUME TypeInv, CoreInv, DiskInv, [Next]_vars PROVE DiskInv'
  OBVIOUS
<1>1. CASE UNCHANGED <<disk, written>>
  BY <1>1 DEF DiskInv
<1>2. ASSUME NEW r \in Requests, AppendLog(r)
      PROVE  DiskInv'
  <2> DEFINE f0 == <<log[r].app, open[log[r].app]>>
             R  == RecordOf(log[r])
  <2>0. f0 = <<log[r].app, open[log[r].app]>>
    OBVIOUS
  <2>1. disk' = [disk EXCEPT ![f0] = AppendLine(@, R)]
    BY <1>2 DEF AppendLog
  <2> HIDE DEF f0
  <2>2. /\ f0 \in Names /\ R \in Record
        /\ Len(written'[f0]) = Len(written[f0]) + 1
        /\ written'[f0][Len(written[f0]) + 1] = R
        /\ \A i \in 1..Len(written[f0]) : written'[f0][i] = written[f0][i]
        /\ \A f \in Names \ {f0} : written'[f] = written[f]
    BY <1>2, <2>0, Appended
  <2>3. Len(written[f0]) \in Nat
    BY <2>2, WrittenType
  <2>4. disk[f0] \in Seq(Line) /\ R \in Line
    BY <2>2 DEF TypeInv, Line
  <2>5. \A i \in 1..Len(disk'[f0]) :
          \/ disk'[f0][i] \in {R, Torn, Bad}
          \/ i \in 1..Len(disk[f0]) /\ disk'[f0][i] = disk[f0][i]
    <3> HIDE DEF R, Line, Names
    <3>1. disk'[f0] = AppendLine(disk[f0], R)
      BY <2>1, <2>2 DEF TypeInv
    <3>2. QED
      BY <3>1, <2>4, LineType
  <2>6. \A f \in Names \ {f0} : disk'[f] = disk[f]
    BY <2>1 DEF TypeInv
  <2> HIDE DEF R, Torn, Bad, Names, ForgedIds
  <2>7. ASSUME NEW line, Accounted(line, written)
        PROVE  Accounted(line, written')
    <3>1. ASSUME NEW f \in Names, NEW j \in 1..Len(written[f])
          PROVE  j \in 1..Len(written'[f]) /\ written'[f][j] = written[f][j]
      <4>1. CASE f = f0
        BY <4>1, <2>2, <2>3
      <4>2. CASE f # f0
        BY <4>2, <2>2
      <4>3. QED
        BY <4>1, <4>2
    <3>2. QED
      BY <2>7, <3>1 DEF Accounted
  <2>8. Accounted(R, written')
    <3>1. Len(written[f0]) + 1 \in 1..Len(written'[f0])
      BY <2>2, <2>3
    <3>2. QED
      BY <3>1, <2>2 DEF Accounted
  <2>9. \A line \in {Torn, Bad} : Accounted(line, written')
    BY DEF Accounted
  <2> HIDE DEF Accounted
  <2>10. ASSUME NEW f \in Names, NEW i \in 1..Len(disk'[f])
         PROVE  Accounted(disk'[f][i], written')
    <3>1. CASE f # f0
      BY <3>1, <2>6, <2>7 DEF DiskInv
    <3>2. CASE f = f0
      BY <3>2, <2>5, <2>7, <2>8, <2>9 DEF DiskInv
    <3>3. QED
      BY <3>1, <3>2
  <2>11. QED
    BY <2>10 DEF DiskInv
<1>3. ASSUME NEW r \in Requests, AppendFails(r)
      PROVE  DiskInv'
  <2> DEFINE f0 == <<log[r].app, open[log[r].app]>>
  <2>1. written' = written
    BY <1>3 DEF AppendFails
  <2>2. CASE disk' = disk
    BY <2>1, <2>2 DEF DiskInv
  <2>3. CASE disk' = [disk EXCEPT ![f0] = AppendLine(@, Torn)]
    <3>1. f0 \in Names
      BY <1>3 DEF AppendFails, TypeInv, Names, Logs
    <3>2. disk[f0] \in Seq(Line) /\ Torn \in Line
      BY <3>1 DEF TypeInv, Line
    <3> HIDE DEF f0, Line, Names, Torn, Bad
    <3>3. disk'[f0] = AppendLine(disk[f0], Torn) /\ \A f \in Names \ {f0} : disk'[f] = disk[f]
      BY <2>3, <3>1 DEF TypeInv
    <3>4. \A i \in 1..Len(disk'[f0]) :
            \/ disk'[f0][i] \in {Torn, Bad}
            \/ i \in 1..Len(disk[f0]) /\ disk'[f0][i] = disk[f0][i]
      <4>1. \A i \in 1..Len(AppendLine(disk[f0], Torn)) :
              \/ AppendLine(disk[f0], Torn)[i] \in {Torn, Torn, Bad}
              \/ /\ i \in 1..Len(disk[f0])
                 /\ AppendLine(disk[f0], Torn)[i] = disk[f0][i]
        BY <3>2, LineType
      <4>2. QED
        BY <3>3, <4>1
    <3>5. \A line \in {Torn, Bad} : Accounted(line, written)
      BY DEF Accounted
    <3> HIDE DEF Accounted
    <3>6. QED
      BY <3>1, <3>3, <3>4, <3>5, <2>1 DEF DiskInv
  <2>4. QED
    BY <1>3, <2>2, <2>3 DEF AppendFails
<1>4. ASSUME NEW f \in Names, Edit(f)
      PROVE  DiskInv'
  <2>1. written' = written /\ edits < MaxEdits
    BY <1>4 DEF Edit
  <2>2. /\ \A g \in Names \ {f} : disk'[g] = disk[g]
        /\ \A k \in 1..Len(disk'[f]) :
             \/ \E m \in 1..Len(disk[f]) : disk'[f][k] = disk[f][m]
             \/ disk'[f][k] \in MadeUp
    <3>1. disk' = [disk EXCEPT ![f] = disk'[f]]
      BY <1>4, EditLines
    <3>2. Elements(disk'[f]) \subseteq Elements(disk[f]) \cup MadeUp
      BY <1>4, EditLines
    <3> HIDE DEF Names, Line, MadeUp
    <3>3. QED
      BY <3>1, <3>2 DEF Elements, TypeInv
  <2>3. \A line \in MadeUp : Accounted(line, written)
    BY <2>1, MadeUpShows
  <2> HIDE DEF Accounted, MadeUp, Names
  <2>4. QED
    BY <2>1, <2>2, <2>3 DEF DiskInv
<1>5. QED
  <2>1. ASSUME NEW r \in Requests,
               \/ AddLog(r) \/ Open(r) \/ OpenFails(r)
               \/ UpdateIndex(r) \/ UpdateIndexFails(r) \/ Rotate(r)
               \/ \E a \in Apps, t \in Texts : Begin(r, a, t)
        PROVE  UNCHANGED <<disk, written>>
    BY <2>1 DEF AddLog, Chain, Open, OpenFails, UpdateIndex, UpdateIndexFails, Rotate, Begin
  <2>2. ASSUME NEW a \in Apps, LoadIndex(a)
        PROVE  UNCHANGED <<disk, written>>
    BY <2>2 DEF LoadIndex
  <2>3. ASSUME Restart \/ Tick \/ UNCHANGED vars
        PROVE  UNCHANGED <<disk, written>>
    BY <2>3 DEF Restart, Tick, vars
  <2>4. QED
    BY <1>1, <1>2, <1>3, <1>4, <2>1, <2>2, <2>3 DEF Next, Write

-----------------------------------------------------------------------------
\* The ids of the records of a file are among those given out, and no record to
\* come has one of them: the file has fewer records than logs may begin.
LEMMA RoomInFile ==
  ASSUME TypeInv, CoreInv, NEW f \in Names, NEW id \in Ids, NotWritten(id)
  PROVE  Len(written[f]) + 1 \in Ids
<1> DEFINE n == Len(written[f])
           S == 1..(n + 1)
           g == [i \in S |-> IF i = n + 1 THEN id ELSE written[f][i].id]
<1>1. n \in Nat /\ \A i \in 1..n : written[f][i].id \in Ids
  BY WrittenType
<1>2. g \in [S -> Ids]
  BY <1>1
<1>3. \A i, j \in S : g[i] = g[j] => i = j
  <2>1. \A i \in 1..n : written[f][i].id # id
    BY DEF NotWritten
  <2>2. \A i, j \in 1..n : written[f][i].id = written[f][j].id => i = j
    BY DEF CoreInv, DistinctInv
  <2>3. \A i \in S : i \in 1..n \/ i = n + 1
    BY <1>1
  <2>4. QED
    BY <1>1, <2>1, <2>2, <2>3
<1>4. IsFiniteSet(S) /\ Cardinality(S) = n + 1
  BY <1>1, FS_Interval
<1>5. IsFiniteSet(Ids) /\ Cardinality(Ids) = MaxLogs
  BY AuditTrailAssumption, FS_Interval DEF Ids
<1>6. ~ (MaxLogs < n + 1)
  <2> HIDE DEF g, S, n
  <2>1. QED
    BY <1>2, <1>3, <1>4, <1>5, FS_PigeonHole
<1>7. QED
  BY <1>1, <1>6, AuditTrailAssumption DEF Ids

\* Total counts a finite set, which AppendLog makes larger by one.
LEMMA TotalFinite ==
  ASSUME NEW a
  PROVE  /\ IsFiniteSet({w \in Names \X Ids : w[1][1] = a /\ w[2] <= Len(written[w[1]])})
         /\ Total(a) \in Nat
<1> DEFINE T == {w \in Names \X Ids : w[1][1] = a /\ w[2] <= Len(written[w[1]])}
           U == ({a} \X (0..MaxTime)) \X Ids
<1>1. IsFiniteSet(0..MaxTime) /\ IsFiniteSet(Ids) /\ IsFiniteSet({a})
  <2>1. 0 \in Int /\ 1 \in Int /\ MaxTime \in Int /\ MaxLogs \in Int
    BY AuditTrailAssumption
  <2>2. QED
    BY <2>1, FS_Interval, FS_Singleton DEF Ids
<1>2. IsFiniteSet({a} \X (0..MaxTime))
  BY <1>1, FS_Product
<1>3. IsFiniteSet(U)
  BY <1>1, <1>2, FS_Product
<1>4. T \subseteq U
  BY DEF Names
<1>5. IsFiniteSet(T)
  BY <1>3, <1>4, FS_Subset
<1>6. QED
  BY <1>5, FS_CardinalityType DEF Total

LEMMA TotalGrows ==
  ASSUME TypeInv, CoreInv, NEW r \in Requests, AppendLog(r), NEW a \in Apps
  PROVE  Total(a)' = IF a = log[r].app THEN Total(a) + 1 ELSE Total(a)
<1> DEFINE f0 == <<log[r].app, open[log[r].app]>>
           n  == Len(written[f0])
           T  == {w \in Names \X Ids : w[1][1] = a /\ w[2] <= Len(written[w[1]])}
           U  == {w \in Names \X Ids : w[1][1] = a /\ w[2] <= Len(written'[w[1]])}
<1>0. f0 = <<log[r].app, open[log[r].app]>> /\ f0[1] = log[r].app
  OBVIOUS
<1>1. Total(a) = Cardinality(T) /\ Total(a)' = Cardinality(U)
  BY DEF Total
<1>2. IsFiniteSet(T)
  BY TotalFinite
<1> HIDE DEF f0
<1>3. /\ f0 \in Names /\ Len(written'[f0]) = n + 1
      /\ \A f \in Names \ {f0} : written'[f] = written[f]
  BY <1>0, Appended
<1>4. n \in Nat /\ n + 1 \in Ids
  <2>1. log[r] \in Logs /\ NotWritten(log[r].id)
    BY DEF AppendLog, TypeInv, CoreInv, HolderInv
  <2>2. log[r].id \in Ids
    BY <2>1 DEF Logs
  <2>3. QED
    BY <2>1, <2>2, <1>3, WrittenType, RoomInFile
<1>5. CASE a = log[r].app
  <2>1. U = T \cup {<<f0, n + 1>>}
    <3>1. ASSUME NEW w \in Names \X Ids
          PROVE  w \in U <=> w \in T \/ w = <<f0, n + 1>>
      <4>1. w[1] \in Names /\ w[2] \in Nat /\ w = <<w[1], w[2]>>
        BY AuditTrailAssumption DEF Ids
      <4>2. CASE w[1] = f0
        BY <4>1, <4>2, <1>0, <1>3, <1>4, <1>5
      <4>3. CASE w[1] # f0
        BY <4>1, <4>3, <1>3
      <4>4. QED
        BY <4>2, <4>3
    <3>2. <<f0, n + 1>> \in Names \X Ids
      BY <1>3, <1>4
    <3>3. QED
      BY <3>1, <3>2
  <2>2. <<f0, n + 1>> \notin T
    BY <1>4
  <2> HIDE DEF T, U, n
  <2>3. Cardinality(U) = Cardinality(T) + 1
    BY <2>1, <2>2, <1>2, FS_AddElement
  <2>4. QED
    BY <2>3, <1>1, <1>5
<1>6. CASE a # log[r].app
  <2>1. U = T
    BY <1>0, <1>3, <1>6
  <2>2. QED
    BY <2>1, <1>1, <1>6
<1>7. QED
  BY <1>5, <1>6

LEMMA CountStep == TypeInv /\ CoreInv /\ CountInv /\ [Next]_vars => CountInv'
<1> SUFFICES ASSUME TypeInv, CoreInv, CountInv, [Next]_vars PROVE CountInv'
  OBVIOUS
<1> HIDE DEF Names, Logs
<1>1. \A a \in Apps : Total(a) \in Nat
  BY TotalFinite
<1>2. ASSUME written' = written
      PROVE  \A a \in Apps : Total(a)' = Total(a)
  BY <1>2 DEF Total
<1>3. /\ \A a \in Apps : count[a] \in Nat
      /\ \A r \in Requests : pc[r] # "idle" => log[r].app \in Apps
      /\ \A a \in Apps : index[a] # None => index[a] \in Nat
      /\ \A a \in Apps : cached[a] # None => cached[a] \in Nat
  BY DEF TypeInv, Logs
<1>4. ASSUME NEW r \in Requests, AppendLog(r)
      PROVE  CountInv'
  <2>1. \A a \in Apps : Total(a)' = IF a = log[r].app THEN Total(a) + 1 ELSE Total(a)
    BY <1>4, TotalGrows
  <2> HIDE DEF Total
  <2>2. /\ pc[r] = "append" /\ lock = r
        /\ \A q \in Requests : pc'[q] = "index" => q = r
        /\ UNCHANGED <<log, count, index, cached>>
    BY <1>4, AuditTrailAssumption DEF AppendLog, Goto, TypeInv
  <2>3. \A a \in Apps : count'[a] <= Total(a)'
    BY <2>1, <2>2, <1>1, <1>3 DEF CountInv
  <2>4. \A q \in Requests : pc'[q] = "index" => count'[log'[q].app] + 1 <= Total(log[q].app)'
    <3>1. log[r].app \in Apps /\ log' = log /\ count' = count
      BY <2>2, <1>3
    <3>2. Total(log[r].app)' = Total(log[r].app) + 1
      BY <3>1, <2>1
    <3>3. count[log[r].app] + 1 <= Total(log[r].app) + 1
      BY <3>1, <1>1, <1>3 DEF CountInv
    <3>4. QED
      BY <3>1, <3>2, <3>3, <2>2
  <2>5. \A a \in Apps : index'[a] # None => index'[a] <= Total(a)'
    BY <2>1, <2>2, <1>1, <1>3 DEF CountInv
  <2>6. \A a \in Apps : cached'[a] # None => cached'[a] <= Total(a)'
    BY <2>1, <2>2, <1>1, <1>3 DEF CountInv
  <2>7. QED
    BY <2>3, <2>4, <2>5, <2>6 DEF CountInv
<1>5. ASSUME NEW r \in Requests, UpdateIndex(r) \/ UpdateIndexFails(r)
      PROVE  CountInv'
  <2>1. /\ pc[r] = "index" /\ lock = r /\ written' = written /\ cached' = cached
        /\ count' = [count EXCEPT ![log[r].app] = count[log[r].app] + 1]
        /\ \/ index' = [index EXCEPT ![log[r].app] = count[log[r].app] + 1]
           \/ index' = index
           \/ index' = [index EXCEPT ![log[r].app] = None]
    <3>1. CASE UpdateIndex(r)
      <4>1. /\ count' = [count EXCEPT ![log[r].app] = count[log[r].app] + 1]
            /\ index' = [index EXCEPT ![log[r].app] = count[log[r].app] + 1]
        BY <3>1 DEF UpdateIndex
      <4>2. pc[r] = "index" /\ written' = written /\ cached' = cached
        BY <3>1 DEF UpdateIndex
      <4>3. lock = r
        BY <4>2 DEF TypeInv
      <4>4. QED
        BY <4>1, <4>2, <4>3
    <3>2. CASE UpdateIndexFails(r)
      <4>1. /\ pc[r] = "index" /\ written' = written /\ cached' = cached
            /\ count' = [count EXCEPT ![log[r].app] = count[log[r].app] + 1]
        BY <3>2 DEF UpdateIndexFails
      <4>2. PICK i \in {index[log[r].app], None} : index' = [index EXCEPT ![log[r].app] = i]
        BY <3>2 DEF UpdateIndexFails
      <4>3. index \in [Apps -> Nat \cup {None}] /\ lock = r
        BY <4>1 DEF TypeInv
      <4>4. index' = index \/ index' = [index EXCEPT ![log[r].app] = None]
        <5>1. CASE i = None
          BY <5>1, <4>2
        <5>2. CASE i = index[log[r].app]
          BY <5>2, <4>2, <4>3
        <5>3. QED
          BY <5>1, <5>2
      <4>5. QED
        BY <4>1, <4>3, <4>4
    <3>3. QED
      BY <1>5, <3>1, <3>2
  <2>2. \A q \in Requests : pc'[q] # "index"
    BY <1>5, <2>1, AuditTrailAssumption
       DEF UpdateIndex, UpdateIndexFails, Return, Goto, TypeInv
  <2>3. \A a \in Apps : Total(a)' = Total(a)
    BY <1>2, <2>1
  <2> HIDE DEF Total
  <2>4. \A a \in Apps : count'[a] <= Total(a)'
    <3>1. count[log[r].app] + 1 <= Total(log[r].app) /\ log[r].app \in Apps
      BY <2>1, <1>3 DEF CountInv
    <3>2. \A a \in Apps :
            count'[a] = IF a = log[r].app THEN count[log[r].app] + 1 ELSE count[a]
      BY <2>1, <3>1 DEF TypeInv
    <3>3. QED
      BY <3>1, <3>2, <2>3 DEF CountInv
  <2>5. \A a \in Apps : index'[a] # None => index'[a] <= Total(a)'
    <3>1. count[log[r].app] + 1 <= Total(log[r].app) /\ log[r].app \in Apps
      BY <2>1, <1>3 DEF CountInv
    <3>2. \A a \in Apps :
            \/ index'[a] = index[a] \/ index'[a] = None
            \/ a = log[r].app /\ index'[a] = count[log[r].app] + 1
      BY <2>1, <3>1 DEF TypeInv
    <3>3. QED
      BY <3>1, <3>2, <2>3 DEF CountInv
  <2>6. QED
    BY <2>1, <2>2, <2>3, <2>4, <2>5 DEF CountInv
<1>6. ASSUME NEW b \in Apps, LoadIndex(b)
      PROVE  CountInv'
  <2>1. \A a \in Apps : Total(a)' = Total(a)
    BY <1>2, <1>6 DEF LoadIndex
  <2> HIDE DEF Total
  <2>2. /\ UNCHANGED <<pc, log, count, index>>
        /\ \A a \in Apps : cached'[a] \in {cached[a], index[a]}
    BY <1>6 DEF LoadIndex, TypeInv
  <2>3. \A a \in Apps : cached'[a] # None => cached'[a] <= Total(a)'
    BY <2>1, <2>2 DEF CountInv
  <2>4. QED
    BY <2>1, <2>2, <2>3, <1>3 DEF CountInv
<1>7. CASE Restart
  <2>1. \A a \in Apps : Total(a)' = Total(a)
    BY <1>2, <1>7 DEF Restart
  <2> HIDE DEF Total
  <2>2. QED
    BY <2>1, <1>1, <1>7 DEF Restart, CountInv, TypeInv
<1>8. ASSUME NEW r \in Requests,
             \/ AddLog(r) \/ Open(r) \/ OpenFails(r) \/ AppendFails(r) \/ Rotate(r)
             \/ \E a \in Apps, t \in Texts : Begin(r, a, t)
      PROVE  CountInv'
  <2>1. /\ UNCHANGED <<written, count, index, cached>>
        /\ \A q \in Requests : pc'[q] = "index" => pc[q] = "index" /\ log'[q] = log[q]
    <3>1. UNCHANGED <<written, count, index, cached>>
      BY <1>8 DEF AddLog, Chain, Open, OpenFails, AppendFails, Rotate, Begin
    <3>2. \/ pc' = [pc EXCEPT ![r] = "lock"] \/ pc' = [pc EXCEPT ![r] = "open"]
          \/ pc' = [pc EXCEPT ![r] = "append"] \/ pc' = [pc EXCEPT ![r] = "idle"]
      BY <1>8 DEF AddLog, Chain, Open, OpenFails, AppendFails, Rotate, Begin, Return, Goto
    <3>3. \A q \in Requests \ {r} : log'[q] = log[q]
      BY <1>8 DEF AddLog, Chain, Open, OpenFails, AppendFails, Rotate, Begin, Return, TypeInv
    <3>4. QED
      BY <3>1, <3>2, <3>3 DEF TypeInv
  <2>2. \A a \in Apps : Total(a)' = Total(a)
    BY <1>2, <2>1
  <2> HIDE DEF Total
  <2>3. QED
    BY <2>1, <2>2, <1>3 DEF CountInv
<1>9. ASSUME (\E f \in Names : Edit(f)) \/ Tick \/ UNCHANGED vars
       PROVE  CountInv'
  <2>1. UNCHANGED <<written, count, index, cached, pc, log>>
    BY <1>9 DEF Edit, Tick, vars, process
  <2>2. \A a \in Apps : Total(a)' = Total(a)
    BY <1>2, <2>1
  <2> HIDE DEF Total
  <2>3. QED
    BY <2>1, <2>2, <1>3 DEF CountInv
<1>10. QED
  BY <1>4, <1>5, <1>6, <1>7, <1>8, <1>9 DEF Next, Write

-----------------------------------------------------------------------------
(* The theorems.                                                           *)

LEMMA InitInv == Init => IInv
<1> SUFFICES ASSUME Init PROVE IInv
  OBVIOUS
<1>1. TypeInv /\ CoreInv
  BY InitType, InitCore
<1>2. DiskInv
  BY EmptySeq DEF Init, DiskInv
<1>3. CountInv
  <2>1. \A a \in Apps : Total(a) \in Nat
    BY TotalFinite
  <2>2. /\ \A r \in Requests : pc[r] = "idle"
        /\ \A a \in Apps : count[a] = 0 /\ index[a] = None /\ cached[a] = None
    BY DEF Init
  <2> HIDE DEF Total
  <2>3. QED
    BY <2>1, <2>2 DEF CountInv
<1>4. QED
  BY <1>1, <1>2, <1>3 DEF IInv, CoreInv

\* The invariant of the audit log on disk is kept by every step.
THEOREM Invariance == Spec => []IInv
<1>1. Init => IInv
  BY InitInv
<1>2. IInv /\ [Next]_vars => IInv'
  <2> SUFFICES ASSUME IInv, [Next]_vars PROVE IInv'
    OBVIOUS
  <2>1. TypeInv /\ CoreInv /\ DiskInv /\ CountInv
    BY DEF IInv, CoreInv
  <2>2. TypeInv' /\ CoreInv' /\ DiskInv' /\ CountInv'
    BY <2>1, TypeStep, CoreStep, DiskStep, CountStep
  <2>3. QED
    BY <2>2 DEF IInv, CoreInv
<1>3. QED
  BY <1>1, <1>2, PTL DEF Spec

\* GetLogCount never gives more logs than were written: for any number of
\* applications and requests, whichever steps failed and whenever the process died.
THEOREM NeverAhead == Spec => []CountNeverAhead
<1>1. IInv => CountNeverAhead
  <2> SUFFICES ASSUME IInv, NEW a \in Apps PROVE GetLogCount(a) <= Total(a)
    BY DEF CountNeverAhead
  <2>1. Total(a) \in Nat
    BY TotalFinite
  <2>2. /\ index[a] # None => index[a] <= Total(a)
        /\ cached[a] # None => cached[a] <= Total(a)
    BY DEF IInv, CountInv
  <2> HIDE DEF Total
  <2>3. QED
    BY <2>1, <2>2 DEF GetLogCount
<1>2. QED
  BY Invariance, <1>1, PTL

\* A file that holds all that was chained between its first and its last record
\* verifies: nothing chained in between is missing, so each record follows the one
\* its hash says, in whatever order requests came to the writer.
THEOREM WholeFileVerifies == Spec => []ConsecutiveVerifies
<1>1. IInv => ConsecutiveVerifies
  <2> SUFFICES ASSUME IInv, NEW f \in Names,
                      disk[f] = written[f],
                      \A i \in 1..Len(disk[f]) : disk[f][i].text = "utf8",
                      NEW a \in 1..Len(chained), NEW b \in 1..Len(chained),
                      IdsOf(disk[f]) = {chained[k] : k \in a..b}
               PROVE  VerifyChain(disk[f])
    BY DEF ConsecutiveVerifies
  <2> DEFINE w == written[f]
  <2>1. /\ Len(w) \in Nat
        /\ \A i \in 1..Len(w) : w[i] \in Record
    BY WrittenType DEF IInv
  <2>2. Len(chained) \in Nat
    BY ChainedType DEF IInv
  <2>3. ASSUME NEW i \in 1..Len(w)
        PROVE  VerifyLog(w[i])
    <3>1. w[i] \notin {Torn, Bad}
      BY <2>1 DEF Record, Torn, Bad
    <3>2. w[i].hash = <<w[i].id, "utf8">>
      BY DEF IInv, RecordInv
    <3>3. QED
      BY <3>1, <3>2 DEF VerifyLog, Encode, Decode
  <2>0. {w[i].id : i \in 1..Len(w)} = {chained[k] : k \in a..b}
    <3>1. IdsOf(w) = {chained[k] : k \in a..b}
      OBVIOUS
    <3>2. QED
      BY <3>1 DEF IdsOf
  <2> HIDE DEF w
  <2>4. ASSUME NEW i \in 1..Len(w)
        PROVE  \E k \in a..b : w[i].id = chained[k]
    <3>1. w[i].id \in {chained[k] : k \in a..b}
      BY <2>0
    <3>2. QED
      BY <3>1
  <2>5. ASSUME NEW k \in a..b
        PROVE  \E i \in 1..Len(w) : w[i].id = chained[k]
    <3>1. chained[k] \in {w[i].id : i \in 1..Len(w)}
      BY <2>0
    <3>2. QED
      BY <3>1
  <2> USE DEF w
  <2>6. ASSUME NEW i \in 2..Len(w)
        PROVE  w[i].prev = w[i - 1].hash
    <3>0. i \in 1..Len(w) /\ i - 1 \in 1..Len(w)
      BY <2>1
    <3>1. PICK m \in a..b : w[i].id = chained[m]
      BY <2>4, <3>0
    <3>2. PICK k \in a..b : w[i - 1].id = chained[k]
      BY <2>4, <3>0
    <3>3. k \in 1..Len(chained) /\ m \in 1..Len(chained)
      BY <2>2
    <3>4. ASSUME NEW x \in 1..Len(w), NEW y \in 1..Len(w),
                 NEW p \in 1..Len(chained), NEW q \in 1..Len(chained),
                 x < y, w[x].id = chained[p], w[y].id = chained[q]
          PROVE  p < q
      <4>1. OrderInv
        BY DEF IInv
      <4>2. QED
        BY <3>4, <4>1 DEF OrderInv
    <3>5. k < m
      <4>1. i - 1 < i
        BY <3>0
      <4>2. QED
        BY <3>0, <3>1, <3>2, <3>3, <4>1, <3>4
    <3>6. k = m - 1
      <4>1. SUFFICES ASSUME k # m - 1 PROVE FALSE
        OBVIOUS
      <4>2. m - 1 \in a..b /\ m - 1 \in 1..Len(chained) /\ k < m - 1
        BY <3>3, <3>5, <4>1, <2>2
      <4>3. PICK x \in 1..Len(w) : w[x].id = chained[m - 1]
        BY <2>5, <4>2
      <4>4. \A p, q \in 1..Len(chained) : chained[p] = chained[q] => p = q
        BY DEF IInv, ChainInv
      <4>5. x # i /\ x # i - 1
        <5>1. ASSUME x = i PROVE FALSE
          <6>1. chained[m - 1] = chained[m]
            BY <5>1, <4>3, <3>1
          <6>2. m - 1 = m
            BY <6>1, <4>2, <4>4, <3>3
          <6>3. QED
            BY <6>2, <3>3, <2>2
        <5>2. ASSUME x = i - 1 PROVE FALSE
          <6>1. chained[m - 1] = chained[k]
            BY <5>2, <4>3, <3>2
          <6>2. m - 1 = k
            BY <6>1, <4>2, <4>4, <3>3
          <6>3. QED
            BY <6>2, <4>1
        <5>3. QED
          BY <5>1, <5>2
      <4>6. ~ (x < i - 1)
        <5>1. SUFFICES ASSUME x < i - 1 PROVE FALSE
          OBVIOUS
        <5>2. m - 1 < k
          BY <5>1, <4>2, <4>3, <3>0, <3>2, <3>3, <3>4
        <5>3. QED
          BY <5>2, <4>2, <3>3, <2>2
      <4>7. ~ (i < x)
        BY <4>2, <4>3, <3>0, <3>1, <3>3, <3>4
      <4>8. QED
        BY <4>5, <4>6, <4>7, <2>1
    <3>7. w[i].prev[1] = w[i - 1].id
      <4>1. m \in 2..Len(chained)
        BY <3>3, <3>5, <2>2
      <4>2. QED
        BY <4>1, <3>0, <3>1, <3>2, <3>6 DEF IInv, OrderInv
    <3>8. QED
      BY <3>0, <3>7 DEF IInv, FollowInv
  <2>7. QED
    BY <2>3, <2>6 DEF VerifyChain
<1>2. QED
  BY Invariance, <1>1, PTL

\* In a file that verifies, what the writer put there is not preceded by anything it
\* did not, nor is anything missing between two of its records: however the file was
\* cut, changed or added to, a forgery is exposed by the next record of the writer's,
\* which names the hash of a log that a request made.
THEOREM ValidIsAsWritten == Spec => []ValidMeansAsWritten
<1>1. IInv => ValidMeansAsWritten
  <2> SUFFICES ASSUME IInv, NEW f \in Names, VerifyChain(disk[f]),
                      NEW i \in 2..Len(disk[f]), Authentic(disk[f][i])
               PROVE  /\ Authentic(disk[f][i - 1])
                      /\ \A g \in Names : \A j, k \in 1..Len(written[g]) :
                           disk[f][i - 1] = written[g][j] /\ disk[f][i] = written[g][k]
                             => k = j + 1
    BY DEF ValidMeansAsWritten
  <2> DEFINE x == disk[f][i - 1]
             y == disk[f][i]
  <2>1. i - 1 \in 1..Len(disk[f]) /\ i \in 1..Len(disk[f])
    BY DEF IInv, TypeInv
  <2>2. /\ x \notin {Torn, Bad} /\ x.hash = <<x.id, Encode(Decode(x.text))>>
        /\ y.prev = x.hash
    BY <2>1 DEF VerifyChain, VerifyLog
  <2>3. x.hash[1] \notin ForgedIds
    <3>1. PICK g \in Names : \E k \in 1..Len(written[g]) : y = written[g][k]
      BY DEF Authentic
    <3>2. y.prev[1] <= begun /\ y.prev[1] \in Nat
      <4> HIDE DEF Names
      <4>1. QED
        BY <3>1, WrittenType DEF IInv, RecordInv
    <3>3. ~ (MaxLogs + 1 <= y.prev[1])
      BY <3>2, AuditTrailAssumption DEF IInv, TypeInv
    <3>4. QED
      BY <3>3, <2>2 DEF ForgedIds
  <2>4. ~ (x.text = "edited" /\ x.hash[2] # "edited")
    BY <2>2 DEF Encode, Decode
  <2>5. Authentic(x)
    <3>1. Accounted(x, written)
      <4> HIDE DEF Accounted
      <4>1. QED
        BY <2>1 DEF IInv, DiskInv
    <3> HIDE DEF Torn, Bad, ForgedIds, Names, x
    <3>2. QED
      BY <3>1, <2>2, <2>3, <2>4 DEF Accounted, Authentic
  <2>6. ASSUME NEW g \in Names, NEW j \in 1..Len(written[g]), NEW k \in 1..Len(written[g]),
               x = written[g][j], y = written[g][k]
        PROVE  k = j + 1
    <3>1. written[g][j].hash[1] = written[g][j].id
      BY DEF IInv, RecordInv
    <3>2. written[g][k].prev[1] = written[g][j].id
      BY <3>1, <2>2, <2>6
    <3>3. QED
      BY <3>2 DEF IInv, FollowInv
  <2>7. QED
    BY <2>5, <2>6
<1>2. QED
  BY Invariance, <1>1, PTL

-----------------------------------------------------------------------------
(* The live audit stream: any number of connections that come and go, a    *)
(* channel of any capacity, peers that stall and leave.                    *)

StreamLog == [id : Nat, app : Apps]

StreamTypeInv ==
  /\ made \in Nat
  /\ queue \in Seq(StreamLog) /\ broadcast \in Seq(StreamLog)
  /\ request \in [Requests -> StreamLog \cup {None}]
  /\ disp \in {"receive", "rlock", "visit", "remove"}
  /\ disp # "receive" => hand \in StreamLog
  /\ stage \in [Conns -> {"new", "add", "read", "remove", "done"}]
  /\ peer \in [Conns -> {"alive"} \cup PeerFaults]
  /\ clients \subseteq Conns
  /\ since \in [Conns -> 0..Len(broadcast)]
  /\ got \in [Conns -> Seq(StreamLog)]

\* While the dispatcher writes it holds the read lock, and whom it has still to
\* visit is a client of the log's application.
ReadingInv ==
  /\ reading <=> disp \in {"visit", "remove"}
  /\ todo \subseteq clients
  /\ \A c \in todo : reading /\ app[c] = hand.app

\* A connection is a client once.
ClientInv ==
  /\ clients \cap closed = {}
  /\ \A c \in Conns : stage[c] \in {"new", "add"} => c \notin clients \cup closed /\ got[c] = << >>

StreamInv == StreamTypeInv /\ ReadingInv /\ ClientInv /\ GaplessStream

LEMMA StreamInitInv == StreamInit => StreamInv
<1> SUFFICES ASSUME StreamInit PROVE StreamInv
  OBVIOUS
<1>1. StreamTypeInv
  BY DEF StreamInit, StreamTypeInv
<1>2. ReadingInv /\ ClientInv /\ GaplessStream
  BY DEF StreamInit, ReadingInv, ClientInv, GaplessStream
<1>3. QED
  BY <1>1, <1>2 DEF StreamInv

\* A write-locked client map is one the dispatcher does not read: it is never the
\* dispatcher that removes a client.
LEMMA RemovesItself ==
  ASSUME ReadingInv, NEW g \in Conns \cup {Dispatcher}, NEW c \in Conns, RemoveClient(g, c)
  PROVE  g # Dispatcher /\ g = c /\ stage[c] = "remove"
  BY DEF ReadingInv, RemoveClient, Wants

LEMMA StreamTypes ==
  ASSUME StreamTypeInv, ReadingInv, StreamNext
  PROVE  StreamTypeInv'
<1> USE DEF StreamTypeInv
<1>1. ASSUME NEW r \in Requests, Broadcast(r) PROVE StreamTypeInv'
  BY <1>1 DEF Broadcast, dispatcher, conns, history
<1>2. ASSUME NEW r \in Requests, NEW a \in Apps, MakeLog(r, a) PROVE StreamTypeInv'
  <2>1. [id |-> made + 1, app |-> a] \in StreamLog
    BY DEF StreamLog
  <2>2. request' \in [Requests -> StreamLog \cup {None}]
    BY <2>1, <1>2 DEF MakeLog
  <2>3. QED
    BY <2>2, <1>2 DEF MakeLog, dispatcher, conns, history
<1>3. CASE Start
  BY <1>3 DEF Start, conns, history
<1>4. CASE RLock
  BY <1>4 DEF RLock, conns, history
<1>5. CASE Finish
  <2>1. hand \in StreamLog
    BY <1>5 DEF Finish
  <2>2. broadcast' \in Seq(StreamLog) /\ Len(broadcast') = Len(broadcast) + 1
    BY <2>1, <1>5 DEF Finish
  <2>3. since' \in [Conns -> 0..Len(broadcast')]
    BY <2>2, <1>5 DEF Finish
  <2>4. QED
    BY <2>1, <2>2, <2>3, <1>5 DEF Finish, conns
<1>6. ASSUME NEW c \in Conns, Deliver(c) PROVE StreamTypeInv'
  <2>1. hand \in StreamLog /\ got[c] \in Seq(StreamLog)
    BY <1>6 DEF Deliver
  <2>2. got' \in [Conns -> Seq(StreamLog)]
    BY <2>1, <1>6 DEF Deliver
  <2>3. QED
    BY <2>2, <1>6 DEF Deliver, conns
<1>7. ASSUME NEW c \in Conns, DeliverInVain(c) PROVE StreamTypeInv'
  BY <1>7 DEF DeliverInVain, conns, history
<1>8. ASSUME NEW c \in Conns, WriteFails(c) PROVE StreamTypeInv'
  BY <1>8 DEF WriteFails, conns, history
<1>9. ASSUME NEW c \in Conns, HandleWebSocket(c) PROVE StreamTypeInv'
  BY <1>9 DEF HandleWebSocket, dispatcher, history
<1>10. ASSUME NEW c \in Conns, AddClient(c) PROVE StreamTypeInv'
  <2>1. since' \in [Conns -> 0..Len(broadcast)]
    BY <1>10 DEF AddClient
  <2>2. QED
    BY <2>1, <1>10 DEF AddClient, dispatcher
<1>11. ASSUME NEW c \in Conns, ReadPump(c) PROVE StreamTypeInv'
  BY <1>11 DEF ReadPump, dispatcher, history
<1>12. ASSUME NEW c \in Conns, PeerChanges(c) PROVE StreamTypeInv'
  BY <1>12 DEF PeerChanges, dispatcher, conns, history
<1>13. ASSUME NEW g \in Conns \cup {Dispatcher}, Announce(g) PROVE StreamTypeInv'
  BY <1>13 DEF Announce, dispatcher, conns, history
<1>14. ASSUME NEW g \in Conns \cup {Dispatcher}, NEW c \in Conns, RemoveClient(g, c)
       PROVE StreamTypeInv'
  BY <1>14, RemovesItself DEF RemoveClient, history
<1>15. QED
  BY <1>1, <1>2, <1>3, <1>4, <1>5, <1>6, <1>7, <1>8, <1>9, <1>10, <1>11, <1>12, <1>13, <1>14
  DEF StreamNext

LEMMA StreamLocks ==
  ASSUME StreamTypeInv, ReadingInv, ClientInv, StreamNext
  PROVE  ReadingInv' /\ ClientInv'
<1> USE DEF ReadingInv, ClientInv
<1>1. ASSUME NEW r \in Requests, Broadcast(r) PROVE ReadingInv' /\ ClientInv'
  BY <1>1 DEF Broadcast, dispatcher, conns, history
<1>2. ASSUME NEW r \in Requests, NEW a \in Apps, MakeLog(r, a) PROVE ReadingInv' /\ ClientInv'
  BY <1>2 DEF MakeLog, dispatcher, conns, history
<1>3. CASE Start
  BY <1>3 DEF Start, conns, history
<1>4. CASE RLock
  BY <1>4 DEF RLock, conns, history
<1>5. CASE Finish
  BY <1>5 DEF Finish, conns
<1>6. ASSUME NEW c \in Conns, Deliver(c) PROVE ReadingInv' /\ ClientInv'
  <2>1. \A d \in Conns : d \notin clients => got'[d] = got[d]
    BY <1>6 DEF Deliver, StreamTypeInv
  <2>2. QED
    BY <2>1, <1>6 DEF Deliver, conns
<1>7. ASSUME NEW c \in Conns, DeliverInVain(c) PROVE ReadingInv' /\ ClientInv'
  BY <1>7 DEF DeliverInVain, conns, history
<1>8. ASSUME NEW c \in Conns, WriteFails(c) PROVE ReadingInv' /\ ClientInv'
  BY <1>8 DEF WriteFails, conns, history
<1>9. ASSUME NEW c \in Conns, HandleWebSocket(c) PROVE ReadingInv' /\ ClientInv'
  BY <1>9 DEF HandleWebSocket, dispatcher, history, StreamTypeInv
<1>10. ASSUME NEW c \in Conns, AddClient(c) PROVE ReadingInv' /\ ClientInv'
  BY <1>10 DEF AddClient, dispatcher, StreamTypeInv
<1>11. ASSUME NEW c \in Conns, ReadPump(c) PROVE ReadingInv' /\ ClientInv'
  BY <1>11 DEF ReadPump, dispatcher, history, StreamTypeInv
<1>12. ASSUME NEW c \in Conns, PeerChanges(c) PROVE ReadingInv' /\ ClientInv'
  BY <1>12 DEF PeerChanges, dispatcher, conns, history
<1>13. ASSUME NEW g \in Conns \cup {Dispatcher}, Announce(g) PROVE ReadingInv' /\ ClientInv'
  BY <1>13 DEF Announce, dispatcher, conns, history
<1>14. ASSUME NEW g \in Conns \cup {Dispatcher}, NEW c \in Conns, RemoveClient(g, c)
       PROVE ReadingInv' /\ ClientInv'
  BY <1>14, RemovesItself DEF RemoveClient, history, StreamTypeInv
<1>15. QED
  BY <1>1, <1>2, <1>3, <1>4, <1>5, <1>6, <1>7, <1>8, <1>9, <1>10, <1>11, <1>12, <1>13, <1>14
  DEF StreamNext

\* What GaplessStream says of one client.
Gapless(c) ==
  \E place \in [DOMAIN got[c] -> Due(c)] :
    /\ \A i, j \in DOMAIN got[c] : i < j => place[i] < place[j]
    /\ \A k \in Due(c) : \E i \in DOMAIN got[c] : place[i] = k
    /\ \A i \in DOMAIN got[c] : got[c][i] = Sent(c)[place[i]]

\* It goes on being so for whom a step sends nothing.
LEMMA SentNothing ==
  ASSUME NEW c \in Conns, Gapless(c), got'[c] = got[c], Due(c)' = Due(c),
         \A i \in Due(c) : Sent(c)'[i] = Sent(c)[i]
  PROVE  Gapless(c)'
  BY DEF Gapless

\* What is sent is a sequence of logs.
LEMMA SentTyped ==
  ASSUME StreamTypeInv, NEW c \in Conns
  PROVE  Sent(c) \in Seq(StreamLog) /\ Due(c) \subseteq 1..Len(Sent(c))
<1>1. Sent(c) \in Seq(StreamLog)
  <2>1. CASE disp \in {"visit", "remove"} /\ c \notin todo
    <3>1. <<hand>> \in Seq(StreamLog)
      BY <2>1 DEF StreamTypeInv
    <3>2. QED
      BY <2>1, <3>1, ConcatProperties DEF Sent, StreamTypeInv
  <2>2. CASE ~ (disp \in {"visit", "remove"} /\ c \notin todo)
    <3>1. << >> \in Seq(StreamLog)
      OBVIOUS
    <3>2. QED
      BY <2>2, <3>1, ConcatProperties DEF Sent, StreamTypeInv
  <2>3. QED
    BY <2>1, <2>2
<1>2. Due(c) \subseteq 1..Len(Sent(c))
  BY <1>1 DEF Due
<1>3. QED
  BY <1>1, <1>2

\* Nothing is due to a client that has just come.
LEMMA NothingDue ==
  ASSUME StreamTypeInv, ReadingInv, ClientInv, NEW c \in Conns, AddClient(c)
  PROVE  Gapless(c)'
<1>1. ~ reading' /\ disp' \notin {"visit", "remove"} /\ broadcast' = broadcast
  BY DEF AddClient, dispatcher, ReadingInv, StreamTypeInv
<1>2. Sent(c)' = broadcast
  BY <1>1, ConcatEmptySeq DEF Sent, StreamTypeInv
<1>3. since'[c] = Len(broadcast)
  BY DEF AddClient, StreamTypeInv
<1>4. Due(c)' = {}
  BY <1>2, <1>3 DEF Due, StreamTypeInv
<1>5. got'[c] = << >>
  BY DEF AddClient, ClientInv
<1>6. DOMAIN got'[c] = {}
  BY <1>5
<1>7. [i \in {} |-> 0] \in [DOMAIN got'[c] -> Due(c)']
  BY <1>4, <1>6
<1>8. QED
  BY <1>4, <1>6, <1>7 DEF Gapless

\* A log that is sent is the last of those due.
LEMMA OneMoreDue ==
  ASSUME NEW c \in Conns, StreamTypeInv, Due(c)' = Due(c) \cup {Len(Sent(c)) + 1},
         NEW l \in StreamLog, Sent(c)' = Append(Sent(c), l), got'[c] = Append(got[c], l),
         Gapless(c)
  PROVE  Gapless(c)'
<1> DEFINE D == Due(c)
           n == Len(Sent(c))
           m == Len(got[c])
<1>1. Sent(c) \in Seq(StreamLog) /\ D \subseteq 1..n /\ n \in Nat
  BY SentTyped
<1>2. got[c] \in Seq(StreamLog) /\ DOMAIN got[c] = 1..m /\ m \in Nat
  BY DEF StreamTypeInv
<1>3. PICK place \in [1..m -> D] :
        /\ \A i, j \in 1..m : i < j => place[i] < place[j]
        /\ \A k \in D : \E i \in 1..m : place[i] = k
        /\ \A i \in 1..m : got[c][i] = Sent(c)[place[i]]
  BY <1>2 DEF Gapless
<1>4. DOMAIN got'[c] = 1..(m + 1) /\ \A i \in 1..m : got'[c][i] = got[c][i]
  BY <1>2
<1>5. got'[c][m + 1] = l /\ Sent(c)'[n + 1] = l
  BY <1>1, <1>2
<1>6. \A k \in D : Sent(c)'[k] = Sent(c)[k]
  BY <1>1
<1>7. Due(c)' = D \cup {n + 1}
  OBVIOUS
<1> DEFINE next == [i \in 1..(m + 1) |-> IF i = m + 1 THEN n + 1 ELSE place[i]]
<1> HIDE DEF D, n, m
<1>8. next \in [1..(m + 1) -> D \cup {n + 1}]
  BY <1>2, <1>3
<1>9. ASSUME NEW i \in 1..(m + 1), NEW j \in 1..(m + 1), i < j
      PROVE  next[i] < next[j]
  <2>1. i \in 1..m
    BY <1>2, <1>9
  <2>2. place[i] \in 1..n
    BY <2>1, <1>1, <1>3
  <2>3. CASE j = m + 1
    BY <2>1, <2>2, <2>3, <1>1, <1>2
  <2>4. CASE j # m + 1
    <3>1. j \in 1..m
      BY <2>4, <1>2
    <3>2. QED
      BY <2>1, <3>1, <1>2, <1>3, <1>9
  <2>5. QED
    BY <2>3, <2>4
<1>10. ASSUME NEW k \in D \cup {n + 1}
       PROVE  \E i \in 1..(m + 1) : next[i] = k
  <2>1. CASE k = n + 1
    BY <2>1, <1>2
  <2>2. CASE k \in D
    BY <2>2, <1>2, <1>3
  <2>3. QED
    BY <2>1, <2>2
<1>11. ASSUME NEW i \in 1..(m + 1)
       PROVE  got'[c][i] = Sent(c)'[next[i]]
  <2>1. CASE i = m + 1
    BY <2>1, <1>5
  <2>2. CASE i # m + 1
    <3>1. i \in 1..m /\ next[i] = place[i]
      BY <2>2, <1>2
    <3>2. place[i] \in D
      BY <3>1, <1>3
    <3>3. got'[c][i] = Sent(c)[place[i]]
      BY <3>1, <1>3, <1>4
    <3>4. Sent(c)'[place[i]] = Sent(c)[place[i]]
      BY <3>2, <1>6
    <3>5. QED
      BY <3>1, <3>3, <3>4
  <2>3. QED
    BY <2>1, <2>2
<1> HIDE DEF next
<1>12. next \in [DOMAIN got'[c] -> Due(c)']
  BY <1>4, <1>7, <1>8
<1>13. /\ \A i, j \in DOMAIN got'[c] : i < j => next[i] < next[j]
       /\ \A k \in Due(c)' : \E i \in DOMAIN got'[c] : next[i] = k
       /\ \A i \in DOMAIN got'[c] : got'[c][i] = Sent(c)'[next[i]]
  BY <1>4, <1>7, <1>9, <1>10, <1>11
<1>14. QED
  BY <1>12, <1>13 DEF Gapless

\* What is sent after the step is what it was, for a client that was there, and one
\* more when it is visited.
LEMMA StreamStep ==
  ASSUME StreamTypeInv, ReadingInv, ClientInv, GaplessStream, StreamNext
  PROVE  GaplessStream'
<1> SUFFICES ASSUME NEW c \in clients', peer'[c] # "gone" PROVE Gapless(c)'
  BY DEF GaplessStream, Gapless
<1>0. ASSUME c \in clients, peer[c] # "gone"
      PROVE  c \in Conns /\ Gapless(c)
  BY <1>0 DEF GaplessStream, Gapless, StreamTypeInv
<1>1. ASSUME c \in clients, peer[c] # "gone", got'[c] = got[c], since'[c] = since[c], app' = app,
             Sent(c)' = Sent(c)
      PROVE  Gapless(c)'
  <2>1. Due(c)' = Due(c)
    BY <1>1 DEF Due
  <2>2. QED
    BY <1>0, <1>1, <2>1, SentNothing
<1>2. ASSUME NEW r \in Requests, Broadcast(r) PROVE Gapless(c)'
  BY <1>1, <1>2 DEF Broadcast, dispatcher, conns, history, Sent
<1>3. ASSUME NEW r \in Requests, NEW a \in Apps, MakeLog(r, a) PROVE Gapless(c)'
  BY <1>1, <1>3 DEF MakeLog, dispatcher, conns, history, Sent
<1>4. CASE Start
  <2>1. Sent(c)' = Sent(c)
    BY <1>4 DEF Start, history, Sent
  <2>2. QED
    BY <1>1, <1>4, <2>1 DEF Start, conns, history
<1>5. CASE RLock
  <2>1. c \in clients /\ peer[c] # "gone" /\ c \in Conns /\ Gapless(c)
    BY <1>0, <1>5 DEF RLock, conns
  <2>2. CASE app[c] = hand.app
    <3>1. Sent(c)' = Sent(c)
      BY <1>5, <2>1, <2>2 DEF RLock, history, Sent
    <3>2. QED
      BY <1>1, <1>5, <2>1, <3>1 DEF RLock, conns, history
  <2>3. CASE app[c] # hand.app
    <3>1. hand \in StreamLog /\ broadcast \in Seq(StreamLog)
      BY <1>5 DEF RLock, StreamTypeInv
    <3>2. Sent(c) = broadcast
      BY <1>5, <3>1, ConcatEmptySeq DEF RLock, Sent
    <3>3. Sent(c)' = Append(broadcast, hand)
      <4>1. Sent(c)' = broadcast \o <<hand>>
        BY <1>5, <2>3 DEF RLock, history, Sent
      <4>2. QED
        BY <4>1, <3>1, AppendIsConcat
    <3>4. Due(c)' = Due(c) /\ \A i \in Due(c) : Sent(c)'[i] = Sent(c)[i]
      <4>1. since' = since /\ app' = app
        BY <1>5 DEF RLock, conns, history
      <4>2. DOMAIN Sent(c)' = 1..(Len(broadcast) + 1) /\ DOMAIN Sent(c) = 1..Len(broadcast)
        BY <3>1, <3>2, <3>3
      <4>3. /\ \A i \in 1..Len(broadcast) : Sent(c)'[i] = Sent(c)[i]
            /\ Sent(c)'[Len(broadcast) + 1] = hand
        BY <3>1, <3>2, <3>3
      <4>4. Len(broadcast) \in Nat
        BY <3>1
      <4>5. QED
        BY <4>1, <4>2, <4>3, <4>4, <2>3 DEF Due
    <3>5. QED
      BY <1>5, <2>1, <3>4, SentNothing DEF RLock, history
  <2>4. QED
    BY <2>2, <2>3
<1>6. CASE Finish
  <2>1. hand \in StreamLog /\ broadcast \in Seq(StreamLog)
    BY <1>6 DEF Finish, StreamTypeInv
  <2>2. Sent(c) = broadcast \o <<hand>>
    BY <1>6 DEF Finish, Sent
  <2>3. broadcast' \in Seq(StreamLog) /\ broadcast' = broadcast \o <<hand>>
    BY <1>6, <2>1, AppendIsConcat DEF Finish
  <2>4. Sent(c)' = broadcast'
    BY <1>6, <2>3, ConcatEmptySeq DEF Finish, Sent
  <2>5. QED
    BY <1>1, <1>6, <2>2, <2>3, <2>4 DEF Finish, conns
<1>7. ASSUME NEW d \in Conns, Deliver(d) PROVE Gapless(c)'
  <2>1. c \in clients /\ peer[c] # "gone" /\ c \in Conns /\ Gapless(c)
    BY <1>0, <1>7 DEF Deliver, conns
  <2>2. CASE c # d
    <3>1. got'[c] = got[c]
      BY <1>7, <2>1, <2>2 DEF Deliver, StreamTypeInv
    <3>2. Sent(c)' = Sent(c)
      BY <1>7, <2>2 DEF Deliver, Sent
    <3>3. QED
      BY <1>1, <1>7, <2>1, <3>1, <3>2 DEF Deliver, conns
  <2>3. CASE c = d
    <3>1. /\ hand \in StreamLog /\ broadcast \in Seq(StreamLog)
          /\ since[c] \in 0..Len(broadcast)
      BY <1>7, <2>1 DEF Deliver, StreamTypeInv
    <3>2. Sent(c) = broadcast
      BY <1>7, <2>3, <3>1, ConcatEmptySeq DEF Deliver, Sent
    <3>3. Sent(c)' = Append(broadcast, hand)
      <4>1. Sent(c)' = broadcast \o <<hand>>
        BY <1>7, <2>3 DEF Deliver, Sent
      <4>2. QED
        BY <4>1, <3>1, AppendIsConcat
    <3>4. Due(c)' = Due(c) \cup {Len(broadcast) + 1}
      <4>1. since' = since /\ app' = app /\ app[c] = hand.app
        BY <1>7, <2>3 DEF Deliver, conns, ReadingInv
      <4>2. DOMAIN Sent(c)' = 1..(Len(broadcast) + 1) /\ DOMAIN Sent(c) = 1..Len(broadcast)
        BY <3>1, <3>2, <3>3
      <4>3. /\ \A i \in 1..Len(broadcast) : Sent(c)'[i] = Sent(c)[i]
            /\ Sent(c)'[Len(broadcast) + 1] = hand
        BY <3>1, <3>2, <3>3
      <4>4. Len(broadcast) \in Nat
        BY <3>1
      <4>5. QED
        BY <4>1, <4>2, <4>3, <4>4, <3>1 DEF Due
    <3>5. got'[c] = Append(got[c], hand)
      BY <1>7, <2>1, <2>3 DEF Deliver, StreamTypeInv
    <3>6. QED
      BY <2>1, <3>1, <3>2, <3>3, <3>4, <3>5, OneMoreDue
  <2>4. QED
    BY <2>2, <2>3
<1>8. ASSUME NEW d \in Conns, DeliverInVain(d) PROVE Gapless(c)'
  <2>1. c # d /\ Sent(c)' = Sent(c)
    BY <1>8 DEF DeliverInVain, history, Sent
  <2>2. QED
    BY <1>1, <1>8, <2>1 DEF DeliverInVain, conns, history
<1>9. ASSUME NEW d \in Conns, WriteFails(d) PROVE Gapless(c)'
  <2>1. c # d
    BY <1>9 DEF WriteFails, conns, ClientInv
  <2>2. Sent(c)' = Sent(c)
    BY <1>9, <2>1 DEF WriteFails, history, Sent
  <2>3. QED
    BY <1>1, <1>9, <2>2 DEF WriteFails, conns, history
<1>10. ASSUME NEW d \in Conns, HandleWebSocket(d) PROVE Gapless(c)'
  BY <1>1, <1>10 DEF HandleWebSocket, dispatcher, history, Sent
<1>11. ASSUME NEW d \in Conns, AddClient(d) PROVE Gapless(c)'
  <2>1. CASE c = d
    BY <1>11, <2>1, NothingDue
  <2>2. CASE c # d
    <3>1. c \in clients /\ peer[c] # "gone" /\ c \in Conns
      BY <1>0, <1>11, <2>2 DEF AddClient
    <3>2. since'[c] = since[c] /\ Sent(c)' = Sent(c)
      BY <1>11, <2>2, <3>1 DEF AddClient, dispatcher, StreamTypeInv, Sent
    <3>3. QED
      BY <1>1, <1>11, <3>1, <3>2 DEF AddClient
  <2>3. QED
    BY <2>1, <2>2
<1>12. ASSUME NEW d \in Conns, ReadPump(d) PROVE Gapless(c)'
  BY <1>1, <1>12 DEF ReadPump, dispatcher, history, Sent
<1>13. ASSUME NEW d \in Conns, PeerChanges(d) PROVE Gapless(c)'
  <2>1. c \in clients /\ peer[c] # "gone"
    BY <1>13 DEF PeerChanges, conns, StreamTypeInv
  <2>2. QED
    BY <1>1, <1>13, <2>1 DEF PeerChanges, dispatcher, conns, history, Sent
<1>14. ASSUME NEW g \in Conns \cup {Dispatcher}, Announce(g) PROVE Gapless(c)'
  BY <1>1, <1>14 DEF Announce, dispatcher, conns, history, Sent
<1>15. ASSUME NEW g \in Conns \cup {Dispatcher}, NEW d \in Conns, RemoveClient(g, d)
       PROVE  Gapless(c)'
  <2>1. disp' = disp /\ c \in clients
    BY <1>15, RemovesItself DEF RemoveClient
  <2>2. Sent(c)' = Sent(c)
    BY <1>15, <2>1 DEF RemoveClient, history, Sent
  <2>3. QED
    BY <1>1, <1>15, <2>1, <2>2 DEF RemoveClient, history
<1>16. QED
  BY <1>2, <1>3, <1>4, <1>5, <1>6, <1>7, <1>8, <1>9, <1>10, <1>11, <1>12, <1>13, <1>14, <1>15
  DEF StreamNext

\* The dispatcher reads while nobody writes, a connection is a client once, and
\* what was sent to a client is what was due.
THEOREM StreamInvariance == StreamSpec => []StreamInv
<1>1. StreamInv /\ [StreamNext]_streamVars => StreamInv'
  <2> SUFFICES ASSUME StreamInv, [StreamNext]_streamVars PROVE StreamInv'
    OBVIOUS
  <2>1. CASE StreamNext
    BY <2>1, StreamTypes, StreamLocks, StreamStep DEF StreamInv
  <2>2. CASE UNCHANGED streamVars
    <3>1. StreamTypeInv' /\ ReadingInv' /\ ClientInv'
      BY <2>2 DEF StreamInv, streamVars, dispatcher, conns, history, StreamTypeInv, ReadingInv,
                  ClientInv
    <3>2. GaplessStream'
      BY <2>2 DEF StreamInv, streamVars, dispatcher, conns, history, GaplessStream, Due,
                  Sent
    <3>3. QED
      BY <3>1, <3>2 DEF StreamInv
  <2>3. QED
    BY <2>1, <2>2
<1>2. QED
  BY StreamInitInv, <1>1, PTL DEF StreamSpec

\* A client that stays gets every log of its application that is broadcast after it
\* came, once, in order, and no other log (broadcastLog, AddClient, RemoveClient),
\* whatever other requests, connections and peers do.
THEOREM StreamIsGapless == StreamSpec => []GaplessStream
<1>1. StreamInv => GaplessStream
  BY DEF StreamInv
<1>2. QED
  BY StreamInvariance, <1>1, PTL

\* The dispatcher that asks for the write lock while it reads (broadcastLog calls
\* RemoveClient) does so for good: no log is broadcast or sent and no connection
\* comes or goes from then on, and requests get past Broadcast only as long as the
\* channel has room.
THEOREM StuckForGood ==
  StreamSpec => [][disp = "remove" =>
                     /\ UNCHANGED <<disp, todo, clients, closed, broadcast, got>>
                     /\ queue' # queue =>
                          Len(queue) < Capacity /\ Len(queue') = Len(queue) + 1]_streamVars
<1> DEFINE Stuck ==
             /\ UNCHANGED <<disp, todo, clients, closed, broadcast, got>>
             /\ queue' # queue => Len(queue) < Capacity /\ Len(queue') = Len(queue) + 1
<1>1. ASSUME StreamInv, StreamNext, disp = "remove"
      PROVE  Stuck
  <2>1. reading /\ StreamTypeInv /\ ReadingInv
    BY <1>1 DEF StreamInv, ReadingInv
  <2>2. ASSUME NEW r \in Requests, Broadcast(r) PROVE Stuck
    BY <2>1, <2>2 DEF Broadcast, dispatcher, conns, history, StreamTypeInv
  <2>3. ASSUME NEW r \in Requests, NEW a \in Apps, MakeLog(r, a) PROVE Stuck
    BY <2>3 DEF MakeLog, dispatcher, conns, history
  <2>4. ~Start /\ ~RLock /\ ~Finish
    BY <1>1 DEF Start, RLock, Finish
  <2>5. \A c \in Conns : ~Deliver(c) /\ ~DeliverInVain(c) /\ ~WriteFails(c) /\ ~AddClient(c)
    BY <1>1, <2>1 DEF Deliver, DeliverInVain, WriteFails, AddClient
  <2>6. ASSUME NEW c \in Conns, HandleWebSocket(c) \/ ReadPump(c) PROVE Stuck
    BY <2>6 DEF HandleWebSocket, ReadPump, dispatcher, history
  <2>7. ASSUME NEW c \in Conns, PeerChanges(c) PROVE Stuck
    BY <2>7 DEF PeerChanges, dispatcher, conns, history
  <2>8. ASSUME NEW g \in Conns \cup {Dispatcher}, Announce(g) PROVE Stuck
    BY <2>8 DEF Announce, dispatcher, conns, history
  <2>9. \A g \in Conns \cup {Dispatcher}, c \in Conns : ~RemoveClient(g, c)
    BY <2>1 DEF RemoveClient
  <2>10. QED
    BY <1>1, <2>2, <2>3, <2>4, <2>5, <2>6, <2>7, <2>8, <2>9 DEF StreamNext
<1>2. StreamInv /\ [StreamNext]_streamVars => [disp = "remove" => Stuck]_streamVars
  <2> HIDE DEF Stuck
  <2> QED
    BY <1>1
<1>3. QED
  BY StreamInvariance, <1>2, PTL DEF StreamSpec

\* Whoever is next in line for the write lock is still at it.
AnnouncedInv == announced # None => announced \in Conns \cup {Dispatcher} /\ Wants(announced)

LEMMA AnnouncedStep ==
  ASSUME StreamInv, AnnouncedInv, StreamNext
  PROVE  AnnouncedInv'
<1>1. stage \in [Conns -> {"new", "add", "read", "remove", "done"}] /\ Dispatcher \notin Conns
  BY AuditStreamAssumption DEF StreamInv, StreamTypeInv
<1> USE <1>1 DEF AnnouncedInv, Wants
<1>2. CASE UNCHANGED <<announced, disp, stage>>
  BY <1>2
<1>3. ASSUME NEW r \in Requests, Broadcast(r) \/ \E a \in Apps : MakeLog(r, a)
      PROVE  UNCHANGED <<announced, disp, stage>>
  BY <1>3 DEF Broadcast, MakeLog, dispatcher, conns
<1>4. ASSUME NEW c \in Conns, Deliver(c) \/ DeliverInVain(c) \/ PeerChanges(c)
      PROVE  UNCHANGED <<announced, disp, stage>>
  BY <1>4 DEF Deliver, DeliverInVain, PeerChanges, dispatcher, conns
<1>5. CASE Start \/ RLock \/ Finish
  BY <1>5 DEF Start, RLock, Finish, conns
<1>6. ASSUME NEW c \in Conns, WriteFails(c)
      PROVE  AnnouncedInv'
  BY <1>6 DEF WriteFails, conns
<1>7. ASSUME NEW c \in Conns, HandleWebSocket(c) \/ ReadPump(c)
      PROVE  AnnouncedInv'
  BY <1>7 DEF HandleWebSocket, ReadPump, dispatcher
<1>8. ASSUME NEW g \in Conns \cup {Dispatcher}, Announce(g)
      PROVE  AnnouncedInv'
  BY <1>8 DEF Announce, dispatcher, conns
<1>9. ASSUME NEW c \in Conns, AddClient(c) \/ \E g \in Conns \cup {Dispatcher} : RemoveClient(g, c)
      PROVE  AnnouncedInv'
  BY <1>9 DEF AddClient, RemoveClient
<1>10. QED
  BY <1>2, <1>3, <1>4, <1>5, <1>6, <1>7, <1>8, <1>9 DEF StreamNext

\* Nobody waits in a circle but the dispatcher that removes a client: at any other
\* time the goroutine next in line for the write lock is a connection's, which is
\* kept from it only by a dispatcher on its round, and that one needs no lock to
\* finish.  It is what StreamFlows rests on.
THEOREM NoOtherCircle ==
  StreamSpec => [](announced # None /\ disp # "remove" =>
                     /\ announced \in Conns /\ stage[announced] \in {"add", "remove"}
                     /\ reading => disp = "visit")
<1>1. StreamInit => AnnouncedInv
  BY DEF StreamInit, AnnouncedInv
<1>2. StreamInv /\ AnnouncedInv /\ [StreamNext]_streamVars => AnnouncedInv'
  <2> SUFFICES ASSUME StreamInv, AnnouncedInv, UNCHANGED streamVars PROVE AnnouncedInv'
    BY AnnouncedStep
  <2>1. QED
    BY DEF streamVars, dispatcher, conns, AnnouncedInv, Wants
<1>3. StreamInv /\ AnnouncedInv =>
        (announced # None /\ disp # "remove" =>
           /\ announced \in Conns /\ stage[announced] \in {"add", "remove"}
           /\ reading => disp = "visit")
  BY DEF StreamInv, ReadingInv, AnnouncedInv, Wants
<1>4. QED
  BY <1>1, <1>2, <1>3, StreamInvariance, PTL DEF StreamSpec
==============================================================================
