----------------------------- MODULE AuditTrail ------------------------------
(***************************************************************************)
(* The audit log on disk: internal/audit/writer.go and hash_chain.go, and  *)
(* of reader.go the verification of a file and the cached index.           *)
(*                                                                         *)
(* One Writer serves all requests; its mutex is held for a whole Write,    *)
(* whose steps are actions here because each may fail and the process may  *)
(* die between any two.  Hashing is injective: a hash is the id and the    *)
(* encoded text of the log it was computed from, every log having an id of *)
(* its own.                                                                *)
(***************************************************************************)
EXTENDS AuditLogs, FiniteSets, Naturals, Sequences

CONSTANTS Texts,         \* what a request puts into a log: "utf8" or "bytes"
          Faults,        \* whether file operations fail and the process dies
          RotateSize,    \* records a file holds before it is rotated
          MaxTime,       \* bound on the clock
          MaxEdits       \* bound on the changes made behind the writer's back

ASSUME AuditTrailAssumption ==
  /\ None \notin Apps \cup Requests
  /\ Texts \subseteq {"utf8", "bytes"} /\ Faults \in BOOLEAN
  /\ RotateSize \in Nat \ {0} /\ MaxLogs \in Nat /\ MaxTime \in Nat /\ MaxEdits \in Nat

(***************************************************************************)
(* json.Marshal escapes a byte that is not UTF-8 as the replacement        *)
(* character; json.Unmarshal makes that character of the escape, and       *)
(* Marshal then writes the character as it is.                             *)
(***************************************************************************)
Encode(text) == IF text = "bytes" THEN "escaped" ELSE text
Decode(text) == IF text = "escaped" THEN "replacement" ELSE text

Ids      == 1..MaxLogs
Hash     == Ids \X {"utf8", "escaped", "replacement", "edited"}
NoHash   == <<0, "utf8">>                 \* the empty string
Record   == [id : Ids, text : {"utf8", "escaped", "edited"},
             prev : Hash \cup {NoHash}, hash : Hash]

\* What others put into a file.  An id stands for all that a record says, its link
\* included, so that a forged record has one that no request made.
ForgedIds  == (MaxLogs + 1)..(MaxLogs + MaxEdits)
ForgedHash == ForgedIds \X {"utf8"}
Forgery    == [id : ForgedIds, text : {"utf8", "edited"},
               prev : Hash \cup {NoHash} \cup ForgedHash, hash : ForgedHash]

\* Lines without a record: one that stops before its newline, and one that
\* has its newline but does not parse.
Torn == [line |-> "torn"]
Bad  == [line |-> "bad"]
Line == Record \cup Forgery \cup {Torn, Bad}

Names == Apps \X (0..MaxTime)             \* a file's application and second

VARIABLES
  clock, begun,      \* time in seconds, logs begun so far
  lock, pc, log,     \* the writer's mutex, each request's place and log
  last,              \* HashChain.lastHash
  open, size,        \* currentFiles, currentSizes
  count,             \* Writer.indexes: TotalLogs
  disk, index,       \* the log files, and index.json as it can be parsed
  cached,            \* Reader.indexes
  chained,           \* history: ids in the order AddLog took them, since the start
  written,           \* history: what the writer put into each file
  edits              \* history: number of changes behind its back

process == <<lock, pc, log, last, open, size, count, cached, chained>>
vars    == <<clock, begun, process, disk, index, written, edits>>

NoLog == [id |-> 0]

\* A locked mutex has a holder that is still in Write.
TypeOK ==
  /\ clock \in 0..MaxTime /\ begun \in 0..MaxLogs /\ edits \in 0..MaxEdits
  /\ \A r \in Requests :
       /\ pc[r] \in {"idle", "lock", "open", "append", "index", "rotate"}
  /\ lock # None => lock \in Requests /\ pc[lock] \in {"open", "append", "index", "rotate"}
  /\ last \in Hash \cup {NoHash}
  /\ open \in [Apps -> 0..MaxTime \cup {None}]
  /\ size \in [Apps -> Nat]
  /\ disk \in [Names -> Seq(Line)]
  /\ \A a \in Apps : {count[a], index[a], cached[a]} \subseteq 0..MaxLogs \cup {None}

Init ==
  /\ clock = 0 /\ begun = 0 /\ edits = 0
  /\ lock = None
  /\ pc = [r \in Requests |-> "idle"]
  /\ log = [r \in Requests |-> NoLog]
  /\ last = NoHash
  /\ open = [a \in Apps |-> None] /\ size = [a \in Apps |-> 0]
  /\ count = [a \in Apps |-> 0]
  /\ index = [a \in Apps |-> None] /\ cached = [a \in Apps |-> None]
  /\ disk = [f \in Names |-> << >>] /\ written = disk
  /\ chained = << >>

-----------------------------------------------------------------------------
Goto(r, label) == pc' = [pc EXCEPT ![r] = label]

\* Write returns, with or without an error.
Return(r) ==
  /\ Goto(r, "idle")
  /\ log' = [log EXCEPT ![r] = NoLog]
  /\ lock' = None

\* Handle: the log is made after the request, with the time it started at.
Begin(r, app, text) ==
  /\ pc[r] = "idle" /\ begun < MaxLogs
  /\ begun' = begun + 1
  /\ log' = [log EXCEPT ![r] = [id |-> begun + 1, app |-> app, text |-> text,
                                 at |-> clock, prev |-> NoHash, hash |-> NoHash]]
  /\ Goto(r, "lock")
  /\ UNCHANGED <<clock, lock, last, open, size, count, disk, index, cached, chained,
                 written, edits>>

\* The steps of Write that all begin and end with the mutex held.
Chain(r) ==
  LET hash == <<log[r].id, Encode(log[r].text)>> IN
    /\ log' = [log EXCEPT ![r].prev = last, ![r].hash = hash]
    /\ last' = hash
    /\ chained' = Append(chained, log[r].id)
    /\ Goto(r, "open")
    /\ UNCHANGED <<clock, begun, open, size, count, disk, index, cached, written, edits>>

\* Mutant: only the hash chain is locked.
AddLogBriefly(r) ==
  /\ pc[r] = "lock" /\ lock = None
  /\ Chain(r)
  /\ UNCHANGED lock

AddLog(r) ==
  /\ pc[r] = "lock" /\ lock = None
  /\ lock' = r
  /\ Chain(r)

\* getCurrentFile: the file in use, or one named by the time of the log.  The
\* name may exist, of a rotation or a process of the same second.
Open(r) ==
  /\ pc[r] = "open"
  /\ \/ /\ open[log[r].app] # None
        /\ UNCHANGED <<open, size>>
     \/ /\ open[log[r].app] = None
        /\ open' = [open EXCEPT ![log[r].app] = log[r].at]
        /\ size' = [size EXCEPT ![log[r].app] = 0]
  /\ Goto(r, "append")
  /\ UNCHANGED <<clock, begun, lock, log, last, count, disk, index, cached, chained,
                 written, edits>>

\* The file cannot be created: the log is in the chain and nowhere else.
OpenFails(r) ==
  /\ Faults
  /\ pc[r] = "open" /\ open[log[r].app] = None
  /\ Return(r)
  /\ UNCHANGED <<clock, begun, last, open, size, count, disk, index, cached, chained,
                 written, edits>>

RecordOf(l) == [id |-> l.id, text |-> Encode(l.text), prev |-> l.prev, hash |-> l.hash]

\* A line written after one without its newline becomes part of it.
AppendLine(lines, line) ==
  IF lines # << >> /\ lines[Len(lines)] = Torn
    THEN [lines EXCEPT ![Len(lines)] = IF line = Torn THEN Torn ELSE Bad]
    ELSE Append(lines, line)

AppendLog(r) ==
  /\ pc[r] = "append"
  /\ LET f == <<log[r].app, open[log[r].app]>> IN
       /\ disk' = [disk EXCEPT ![f] = AppendLine(@, RecordOf(log[r]))]
       /\ written' = [written EXCEPT ![f] = Append(@, RecordOf(log[r]))]
  /\ size' = [size EXCEPT ![log[r].app] = @ + 1]
  /\ Goto(r, "index")
  /\ UNCHANGED <<clock, begun, lock, log, last, open, count, index, cached, chained, edits>>

\* Mutant: the error is ignored.
AppendErrorIgnored(r) ==
  /\ pc[r] = "append"
  /\ Goto(r, "index")
  /\ UNCHANGED <<clock, begun, lock, log, last, open, size, count, disk, index, cached,
                 chained, written, edits>>

\* The write fails, after none or a part of the line.
AppendFails(r) ==
  /\ Faults
  /\ pc[r] = "append"
  /\ \/ UNCHANGED disk
     \/ disk' = [disk EXCEPT ![<<log[r].app, open[log[r].app]>>] = AppendLine(@, Torn)]
  /\ Return(r)
  /\ UNCHANGED <<clock, begun, last, open, size, count, index, cached, chained, written, edits>>

\* updateIndex
UpdateIndex(r) ==
  /\ pc[r] = "index"
  /\ LET n == count[log[r].app] + 1 IN
       /\ count' = [count EXCEPT ![log[r].app] = n]
       /\ index' = [index EXCEPT ![log[r].app] = n]
  /\ Goto(r, "rotate")
  /\ UNCHANGED <<clock, begun, lock, log, last, open, size, disk, cached, chained,
                 written, edits>>

\* index.json is not written, or emptied and not written.
UpdateIndexFails(r) ==
  /\ Faults
  /\ pc[r] = "index"
  /\ count' = [count EXCEPT ![log[r].app] = @ + 1]
  /\ \E i \in {index[log[r].app], None} : index' = [index EXCEPT ![log[r].app] = i]
  /\ Return(r)
  /\ UNCHANGED <<clock, begun, last, open, size, disk, cached, chained, written, edits>>

Rotate(r) ==
  /\ pc[r] = "rotate"
  /\ open' = [open EXCEPT ![log[r].app] = IF size[log[r].app] >= RotateSize THEN None ELSE @]
  /\ size' = [size EXCEPT ![log[r].app] = IF @ >= RotateSize THEN 0 ELSE @]
  /\ Return(r)
  /\ UNCHANGED <<clock, begun, last, count, disk, index, cached, chained, written, edits>>

-----------------------------------------------------------------------------
\* The first read of an application's index is kept for good.
LoadIndex(app) ==
  /\ cached[app] = None /\ index[app] # None
  /\ cached' = [cached EXCEPT ![app] = index[app]]
  /\ UNCHANGED <<clock, begun, lock, pc, log, last, open, size, count, disk, index,
                 chained, written, edits>>

\* What GetLogCount says.
GetLogCount(app) ==
  IF cached[app] # None THEN cached[app]
  ELSE IF index[app] # None THEN index[app] ELSE 0

\* The process dies and InitAudit starts from nothing; the files stay.
Restart ==
  /\ Faults
  /\ lock' = None
  /\ pc' = [r \in Requests |-> "idle"]
  /\ log' = [r \in Requests |-> NoLog]
  /\ last' = NoHash
  /\ open' = [a \in Apps |-> None] /\ size' = [a \in Apps |-> 0]
  /\ count' = [a \in Apps |-> 0] /\ cached' = [a \in Apps |-> None]
  /\ chained' = << >>
  /\ UNCHANGED <<clock, begun, disk, index, written, edits>>

\* The records that can be read in the files.
Known == (UNION {{disk[f][i] : i \in 1..Len(disk[f])} : f \in Names}) \ {Torn, Bad}

\* The chain has no key: whoever knows how a hash is made makes one that fits.
Forged(prev) == LET id == MaxLogs + edits + 1 IN
  [id |-> id, text |-> "utf8", prev |-> prev, hash |-> <<id, "utf8">>]

\* A copy of a record, a record with another text and its old hash, or one that is
\* made up, with a hash of its own and a link to any record.
MadeUp ==
  Known \cup {[known EXCEPT !.text = "edited"] : known \in Known}
        \cup {Forged(prev) : prev \in {known.hash : known \in Known} \cup {NoHash}}

\* Somebody takes a line out of a file, or none, and may put one in that place.
Edit(f) ==
  /\ edits < MaxEdits
  /\ edits' = edits + 1
  /\ \E i \in 0..Len(disk[f]), new \in {<< >>} \cup {<<line>> : line \in MadeUp} :
       \E j \in {i, i + 1} :
         disk' = [disk EXCEPT ![f] = SubSeq(@, 1, i) \o new \o SubSeq(@, j + 1, Len(@))]
  /\ UNCHANGED <<clock, begun, process, index, written>>

Tick ==
  /\ clock < MaxTime
  /\ clock' = clock + 1
  /\ UNCHANGED <<begun, process, disk, index, written, edits>>

Write(r) ==
  \/ AddLog(r) \/ Open(r) \/ OpenFails(r) \/ AppendLog(r) \/ AppendFails(r)
  \/ UpdateIndex(r) \/ UpdateIndexFails(r) \/ Rotate(r)

Next ==
  \/ \E r \in Requests : Write(r) \/ \E a \in Apps, t \in Texts : Begin(r, a, t)
  \/ \E a \in Apps : LoadIndex(a)
  \/ \E f \in Names : Edit(f)
  \/ Restart \/ Tick

Spec == Init /\ [][Next]_vars

-----------------------------------------------------------------------------
(* Verification of a file, and properties.                                 *)

\* The hash fits the record as it is read back.
VerifyLog(line) ==
  line \notin {Torn, Bad} /\ line.hash = <<line.id, Encode(Decode(line.text))>>

\* Mutant: every record is checked by itself.
VerifyEachLog(lines) == \A i \in 1..Len(lines) : VerifyLog(lines[i])

\* VerifyLogFile: a line that does not parse fails the file, and the first
\* record may follow on anything.
VerifyChain(lines) ==
  /\ \A i \in 1..Len(lines) : VerifyLog(lines[i])
  /\ \A i \in 2..Len(lines) : lines[i].prev = lines[i - 1].hash

IdsOf(lines) == {lines[i].id : i \in 1..Len(lines)}

\* A file whose records are all that was chained between the first and the
\* last of them verifies, in whatever order requests came to the writer.
ConsecutiveVerifies ==
  \A f \in Names :
    LET lines == disk[f] IN
      (/\ lines = written[f]
       /\ \A i \in 1..Len(lines) : lines[i].text = "utf8"
       /\ \E i, j \in 1..Len(chained) :
            IdsOf(lines) = {chained[k] : k \in i..j})
      => VerifyChain(lines)

\* A record of the writer's
Authentic(line) ==
  \E f \in Names : \E i \in 1..Len(written[f]) : line = written[f][i]

\* In a file that verifies, a record of the writer's is first or follows another of
\* the writer's, and if both were put into one file the writer put nothing between
\* them.  Nothing can be changed, swapped, inserted or left out before the last of
\* its records; what comes after it may be forged.
ValidMeansAsWritten ==
  \A f \in Names :
    LET lines == disk[f] IN
      VerifyChain(lines) =>
        \A i \in 2..Len(lines) : Authentic(lines[i]) =>
          /\ Authentic(lines[i - 1])
          /\ \A g \in Names : \A j, k \in 1..Len(written[g]) :
               lines[i - 1] = written[g][j] /\ lines[i] = written[g][k] => k = j + 1

\* The number of logs the writer put into an application's files
Total(app) ==
  Cardinality({w \in Names \X Ids : w[1][1] = app /\ w[2] <= Len(written[w[1]])})

\* GetLogCount never gives more logs than the writer wrote, whichever of its
\* steps failed and whenever the process died.
CountNeverAhead == \A a \in Apps : GetLogCount(a) <= Total(a)

\* The service's audit log is described as verifiable: a file nobody touched
\* verifies.
FilesVerify == edits = 0 => \A f \in Names : VerifyChain(disk[f])
=============================================================================
