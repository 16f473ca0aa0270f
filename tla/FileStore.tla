------------------------------- MODULE FileStore -------------------------------
(***************************************************************************)
(* The files of a user: internal/service/file.go, repository/file.go and   *)
(* api/v1/file.go.  A file is an entry of the upload directory and a       *)
(* record in MongoDB; nothing ties the two together but the order of the   *)
(* steps.  The name of an entry is the second of the upload and the name   *)
(* the client gave, so two uploads of a name in one second share it.       *)
(***************************************************************************)
EXTENDS FiniteSets, Naturals

CONSTANTS Requests,     \* request goroutines
          Names,        \* the names clients give
          MaxSecond,    \* bound on the clock, in seconds
          MaxUploads    \* bound on the uploads begun

VARIABLES
  second,         \* the clock, as far as file names show it
  disk,           \* path -> the inode it names, 0 for none
  content,        \* inode -> what it holds
  records,        \* documents of collection files
  uploads,        \* how many uploads there have been: each has its own content
  pc, loc,        \* where a request stands, and its locals
  given,          \* history: to how many uploads a path was given
  broken          \* history: paths at which a request failed half-way

vars == <<second, disk, content, records, uploads, pc, loc, given, broken>>

Uploads == 1..MaxUploads
Paths   == (0..MaxSecond) \X Names

\* What a file can hold: nothing, an upload, or pieces of several.
Empty == 0
Mixed == MaxUploads + 1

\* hash: the content the record was made for.
Record == [id : Uploads, path : Paths, hash : Uploads, edited : BOOLEAN]

NoPath == <<0, CHOOSE n \in Names : TRUE>>

\* upload: the content a request uploads; path, inode: the file it opened;
\* seen: the record it read.
Local == [upload : 0..MaxUploads, path : Paths, inode : 0..MaxUploads,
          seen : SUBSET Record]
NoLocal == [upload |-> 0, path |-> NoPath, inode |-> 0,
            seen |-> {}]

Uploading == {"open", "copy", "insert", "undo"}
Labels == Uploading \cup {"idle", "remove", "delete", "put"}

TypeOK ==
  /\ second \in 0..MaxSecond /\ uploads \in 0..MaxUploads
  /\ disk \in [Paths -> 0..uploads]
  /\ content \in [Uploads -> Empty..Mixed]
  /\ \A p, q \in Paths : disk[p] = disk[q] => p = q \/ disk[p] = 0
  /\ records \subseteq Record
  /\ \A f, g \in records : f.id = g.id => f = g
  /\ pc \in [Requests -> Labels] /\ loc \in [Requests -> Local]
  /\ given \in [Paths -> 0..uploads] /\ broken \subseteq Paths

Init ==
  /\ second = 0 /\ uploads = 0
  /\ disk = [p \in Paths |-> 0] /\ content = [i \in Uploads |-> Empty]
  /\ records = {}
  /\ pc = [r \in Requests |-> "idle"] /\ loc = [r \in Requests |-> NoLocal]
  /\ given = [p \in Paths |-> 0] /\ broken = {}

-----------------------------------------------------------------------------
Step(r, label, mine) ==
  /\ pc' = [pc EXCEPT ![r] = label]
  /\ loc' = [loc EXCEPT ![r] = mine]

Finish(r) == Step(r, "idle", NoLocal)

Tick ==
  /\ second < MaxSecond
  /\ second' = second + 1
  /\ UNCHANGED <<disk, content, records, uploads, pc, loc, given, broken>>

-----------------------------------------------------------------------------
(* UploadFile.                                                             *)

\* The size is right, the hash computed, the directory there, the name made.
BeginUpload(r, n) ==
  /\ pc[r] = "idle"
  /\ uploads < MaxUploads
  /\ uploads' = uploads + 1
  /\ Step(r, "open", [NoLocal EXCEPT !.upload = uploads + 1, !.path = <<second, n>>])
  /\ given' = [given EXCEPT ![<<second, n>>] = @ + 1]
  /\ UNCHANGED <<second, disk, content, records, broken>>

\* os.Create makes the file, or empties the one there is.
Open(r) ==
  /\ pc[r] = "open"
  /\ LET p == loc[r].path
         i == IF disk[p] = 0 THEN loc[r].upload ELSE disk[p]
     IN  /\ disk' = [disk EXCEPT ![p] = i]
         /\ content' = [content EXCEPT ![i] = Empty]
         /\ Step(r, "copy", [loc[r] EXCEPT !.inode = i])
  /\ UNCHANGED <<second, records, uploads, given, broken>>

\* io.Copy writes from the beginning of the file: over what another upload wrote
\* there, of which a tail may remain.  The entry may be gone by now.
Copy(r) ==
  /\ pc[r] = "copy"
  /\ LET i == loc[r].inode
     IN  \/ content' = [content EXCEPT ![i] = loc[r].upload]
         \/ content[i] # Empty /\ content' = [content EXCEPT ![i] = Mixed]
  /\ Step(r, "insert", loc[r])
  /\ UNCHANGED <<second, disk, records, uploads, given, broken>>

NewRecord(r) == [id |-> loc[r].upload, path |-> loc[r].path, hash |-> loc[r].upload,
                 edited |-> FALSE]

Insert(r) ==
  /\ pc[r] = "insert"
  /\ records' = records \cup {NewRecord(r)}
  /\ Finish(r)
  /\ UNCHANGED <<second, disk, content, uploads, given, broken>>

\* The insertion is an error, applied or not: the file is removed.
InsertFails(r) ==
  /\ pc[r] = "insert"
  /\ \/ UNCHANGED <<records, broken>>
     \/ records' = records \cup {NewRecord(r)} /\ broken' = broken \cup {loc[r].path}
  /\ Step(r, "undo", loc[r])
  /\ UNCHANGED <<second, disk, content, uploads, given>>

\* Mutant: a file without a record is kept.
UndoNothing(r) ==
  /\ pc[r] = "undo"
  /\ Finish(r)
  /\ UNCHANGED <<second, disk, content, records, uploads, given, broken>>

Undo(r) ==
  /\ pc[r] = "undo"
  /\ disk' = [disk EXCEPT ![loc[r].path] = 0]
  /\ Finish(r)
  /\ UNCHANGED <<second, content, records, uploads, given, broken>>

-----------------------------------------------------------------------------
(* DeleteFile and UpdateFile: GetByID, then what they do.                  *)

BeginDelete(r, f) ==
  /\ pc[r] = "idle"
  /\ Step(r, "remove", [NoLocal EXCEPT !.seen = {f}])
  /\ UNCHANGED <<second, disk, content, records, uploads, given, broken>>

\* A file that is not there is no error.
Remove(r) ==
  /\ pc[r] = "remove"
  /\ disk' = [p \in Paths |-> IF \E f \in loc[r].seen : f.path = p THEN 0 ELSE disk[p]]
  /\ Step(r, "delete", loc[r])
  /\ UNCHANGED <<second, content, records, uploads, given, broken>>

DeleteRecord(r) ==
  /\ pc[r] = "delete"
  /\ LET ids == {f.id : f \in loc[r].seen}
     IN  records' = {f \in records : f.id \notin ids} /\ Finish(r)
  /\ UNCHANGED <<second, disk, content, uploads, given, broken>>

BeginUpdate(r, f) ==
  /\ pc[r] = "idle"
  /\ Step(r, "put", [NoLocal EXCEPT !.seen = {f}])
  /\ UNCHANGED <<second, disk, content, records, uploads, given, broken>>

\* The whole record goes into the $set of one UpdateOne; none is inserted.
Put(r) ==
  /\ pc[r] = "put"
  /\ LET news == {[f EXCEPT !.edited = TRUE] : f \in loc[r].seen}
         ids  == {f.id : f \in news}
     IN  /\ records' = {f \in records : f.id \notin ids}
                         \cup {f \in news : \E g \in records : f.id = g.id}
         /\ Finish(r)
  /\ UNCHANGED <<second, disk, content, uploads, given, broken>>

\* UpdateCustomData: one statement.
SetCustom(r, f) ==
  /\ pc[r] = "idle"
  /\ records' = (records \ {f}) \cup {[f EXCEPT !.edited = TRUE]}
  /\ Finish(r)
  /\ UNCHANGED <<second, disk, content, uploads, given, broken>>

\* A step fails and the request with it, or the process stops.
Fail(r) ==
  /\ pc[r] # "idle"
  /\ Finish(r)
  /\ broken' = broken \cup
       IF pc[r] \in {"copy", "insert", "undo"} THEN {loc[r].path}
       ELSE IF pc[r] = "delete" THEN {f.path : f \in loc[r].seen} ELSE {}
  /\ UNCHANGED <<second, disk, content, records, uploads, given>>

-----------------------------------------------------------------------------
Request(r) ==
  \/ \E n \in Names : BeginUpload(r, n)
  \/ \E f \in records :
       \/ BeginDelete(r, f) \/ BeginUpdate(r, f) \/ SetCustom(r, f)
  \/ Open(r) \/ Copy(r) \/ Insert(r) \/ InsertFails(r) \/ Undo(r)
  \/ Remove(r) \/ DeleteRecord(r) \/ Put(r)
  \/ Fail(r)

Next == Tick \/ \E r \in Requests : Request(r)

Spec == Init /\ [][Next]_vars

-----------------------------------------------------------------------------
(* Properties.                                                             *)

\* A record's file is there and holds what the record was made for, unless two
\* uploads shared its path, a deletion is half done, or a request failed there.
RecordHasItsContent ==
  \A f \in records :
    \/ disk[f.path] # 0 /\ content[disk[f.path]] = f.hash
    \/ given[f.path] > 1 \/ f.path \in broken
    \/ \E r \in Requests : pc[r] = "delete" /\ f.id \in {g.id : g \in loc[r].seen}

\* A file no record leads to belongs to an upload under way or to one that
\* failed: no order of uploads and deletions leaves a file behind.
NoStrayFile ==
  \A p \in Paths : disk[p] # 0 =>
    \/ \E f \in records : f.path = p
    \/ p \in broken
    \/ \E r \in Requests : pc[r] \in Uploading /\ loc[r].path = p
=============================================================================
