---------------------------- MODULE MCUserAccount ----------------------------
(***************************************************************************)
(* Accounts and files share no state: a behaviour is one of UserAccount or *)
(* of FileStore, and focus says which.                                     *)
(***************************************************************************)
EXTENDS UserAccount, TLC

CONSTANTS FileNames, MaxSecond, MaxUploads

ASSUME FilesAssumption ==
  MaxSecond \in Nat /\ MaxUploads \in Nat /\ FileNames # {}

VARIABLES focus, second, disk, content, records, uploads, filePc, fileLoc, given, broken

F == INSTANCE FileStore WITH Names <- FileNames, pc <- filePc, loc <- fileLoc

fileVars == <<second, disk, content, records, uploads, filePc, fileLoc, given, broken>>

AllInit == focus \in {"accounts", "files"} /\ Init /\ F!Init

AccountsStep == focus = "accounts" /\ Next /\ UNCHANGED <<focus, fileVars>>
FilesStep    == focus = "files" /\ F!Next /\ UNCHANGED <<focus, vars>>

AllSpec == AllInit /\ [][AccountsStep \/ FilesStep]_<<focus, vars, fileVars>>

Symmetry == Permutations(Requests) \cup Permutations(Passwords)

-----------------------------------------------------------------------------
\* Both type invariants.
TypesOK == TypeOK /\ F!TypeOK

\* The disk and the records agree: a record's file is there and holds what the
\* record was made for, and a file no record leads to belongs to an upload under
\* way - unless two uploads shared a path, a deletion is half done, or a request
\* failed there.
FilesMatchRecords == F!RecordHasItsContent /\ F!NoStrayFile
=============================================================================
