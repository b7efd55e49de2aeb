--------------------------- MODULE DocumentStorage ---------------------------
(***************************************************************************)
(* The files of one workspace: DocumentService.create with a file, which   *)
(* checks WorkspaceLimitsService, uploads to the object store, parses and  *)
(* inserts the row, each in a step of its own; create without a file; and  *)
(* delete, which removes the object and then the row.  What becomes of the *)
(* text of a document is DocumentPipeline's.                               *)
(*                                                                         *)
(* A document and its object are named after the request that created      *)
(* them (ids and keys are fresh uuids).  A file's size is a number of      *)
(* bytes, so that the bytes of a set of files can be counted.              *)
(***************************************************************************)
EXTENDS Naturals, FiniteSets

CONSTANTS
  Request,       \* requests
  Null,          \* no value
  Sizes,         \* sizes of the files that are offered
  MaxFileSize,   \* MAX_FILE_SIZE_MB
  MaxStorage,    \* MAX_STORAGE_GB
  MaxDocuments,  \* MAX_DOCUMENTS
  MaxCrashes     \* bound on crashes of the server

ASSUME ConstantsAssumption ==
  /\ IsFiniteSet(Request)
  /\ Null \notin Request \cup Nat
  /\ Sizes \subseteq Nat
  /\ {MaxFileSize, MaxStorage, MaxDocuments, MaxCrashes} \subseteq Nat

VARIABLES
  live,        \* is the workspace there?
  rows,        \* documents of the workspace
  size,        \* fileSize of the document a request creates; Null: no file
  stored,      \* objects in the bucket
  pc,          \* where each request is
  target,      \* the document it deletes
  crashes,
  raced,       \* history: uploads that overlapped, from their check on
  abandoned,   \* history: objects that a failure, a crash or the deletion of
               \* the workspace left to nobody
  torn         \* history: documents whose deletion died, or failed, between
               \* the object and the row

vars == <<live, rows, size, stored, pc, target, crashes, raced, abandoned, torn>>

\* A request has checked the limits and not inserted its row.
Uploading == {"count", "upload", "parse", "insert"}

PC == Uploading \cup {"free", "remove", "drop", "done"}

Init ==
  /\ live = TRUE
  /\ rows = {}
  /\ size = [q \in Request |-> Null]
  /\ stored = {}
  /\ pc = [q \in Request |-> "free"]
  /\ target = [q \in Request |-> Null]
  /\ crashes = 0
  /\ raced = {}
  /\ abandoned = {}
  /\ torn = {}

Goto(q, label) == pc' = [pc EXCEPT ![q] = label]

HasFile(d) == size[d] # Null

Files == {d \in rows : HasFile(d)}

\* Uploads that count on what they read of the usage.
Windows == {q \in Request : pc[q] \in Uploading /\ HasFile(q)}

\* The bytes of the files of D, and the sum of fileSize.
Bytes(D) == {b \in D \X (1..MaxFileSize) : b[2] <= size[b[1]]}

Usage(D) == Cardinality(Bytes(D))

Fits(s) == Usage(Files) + s <= MaxStorage

-----------------------------------------------------------------------------
(* create().                                                               *)

\* A text document passes no limit.
CreateText(q) ==
  /\ pc[q] = "free"
  /\ live
  /\ Goto(q, "insert")
  /\ UNCHANGED <<live, rows, size, stored, target, crashes, raced, abandoned, torn>>

\* checkFileSizeLimit.
SmallEnough(s) == s <= MaxFileSize

\* checkFileSizeLimit and checkStorageLimit let the file pass.
CheckStorage(q, s) ==
  /\ pc[q] = "free"
  /\ live
  /\ SmallEnough(s)
  /\ Fits(s)
  /\ size' = [size EXCEPT ![q] = s]
  /\ raced' = IF Windows = {} THEN raced ELSE raced \cup Windows \cup {q}
  /\ Goto(q, "count")
  /\ UNCHANGED <<live, rows, stored, target, crashes, abandoned, torn>>

FaultyRoomFor(n) == n <= MaxDocuments
RoomFor(n) == n < MaxDocuments

\* checkDocumentLimit, which counts text documents too.
CheckDocuments(q) ==
  /\ pc[q] = "count"
  /\ Goto(q, IF RoomFor(Cardinality(rows)) THEN "upload" ELSE "done")
  /\ UNCHANGED <<live, rows, size, stored, target, crashes, raced, abandoned, torn>>

FaultyUploaded(q) == {}
Uploaded(q) == {q}

Upload(q) ==
  /\ pc[q] = "upload"
  /\ stored' = stored \cup Uploaded(q)
  /\ Goto(q, "parse")
  /\ UNCHANGED <<live, rows, size, target, crashes, raced, abandoned, torn>>

\* The upload fails, perhaps on the way back.
UploadFails(q) ==
  /\ pc[q] = "upload"
  /\ \E landed \in SUBSET {q} :
       /\ stored' = stored \cup landed
       /\ abandoned' = abandoned \cup landed
  /\ Goto(q, "done")
  /\ UNCHANGED <<live, rows, size, target, crashes, raced, torn>>

Parse(q) ==
  /\ pc[q] = "parse"
  /\ Goto(q, "insert")
  /\ UNCHANGED <<live, rows, size, stored, target, crashes, raced, abandoned, torn>>

\* The row, with its tags.
Insert(q) ==
  /\ pc[q] = "insert"
  /\ live
  /\ rows' = rows \cup {q}
  /\ Goto(q, "done")
  /\ UNCHANGED <<live, size, stored, target, crashes, raced, abandoned, torn>>

\* The file cannot be parsed, two of the tags are the same once normalised, the
\* workspace is gone, or the database fails.  Nothing takes the object back.
CreateFails(q) ==
  /\ pc[q] \in {"parse", "insert"}
  /\ abandoned' = IF HasFile(q) THEN abandoned \cup {q} ELSE abandoned
  /\ Goto(q, "done")
  /\ UNCHANGED <<live, rows, size, stored, target, crashes, raced, torn>>

-----------------------------------------------------------------------------
(* delete().                                                               *)

FaultyAfterFind(d) == "drop"
AfterFind(d) == IF HasFile(d) THEN "remove" ELSE "drop"

Find(q, d) ==
  /\ pc[q] = "free"
  /\ d \in rows
  /\ target' = [target EXCEPT ![q] = d]
  /\ Goto(q, AfterFind(d))
  /\ UNCHANGED <<live, rows, size, stored, crashes, raced, abandoned, torn>>

Remove(q) ==
  /\ pc[q] = "remove"
  /\ stored' = stored \ {target[q]}
  /\ Goto(q, "drop")
  /\ UNCHANGED <<live, rows, size, target, crashes, raced, abandoned, torn>>

\* A failure is logged, and the row goes all the same.
RemoveFails(q) ==
  /\ pc[q] = "remove"
  /\ abandoned' = abandoned \cup {target[q]}
  /\ Goto(q, "drop")
  /\ UNCHANGED <<live, rows, size, stored, target, crashes, raced, torn>>

\* The second of two deletions finds no row and fails.
Drop(q) ==
  /\ pc[q] = "drop"
  /\ rows' = rows \ {target[q]}
  /\ Goto(q, "done")
  /\ UNCHANGED <<live, size, stored, target, crashes, raced, abandoned, torn>>

DropFails(q) ==
  /\ pc[q] = "drop"
  /\ torn' = torn \cup {target[q]}
  /\ Goto(q, "done")
  /\ UNCHANGED <<live, rows, size, stored, target, crashes, raced, abandoned>>

-----------------------------------------------------------------------------
\* The cascade takes the rows; nothing takes the objects.
DeleteWorkspace ==
  /\ live
  /\ live' = FALSE
  /\ rows' = {}
  /\ abandoned' = abandoned \cup Files
  /\ UNCHANGED <<size, stored, pc, target, crashes, raced, torn>>

\* A call to the object store may have been on its way.
Crash ==
  /\ crashes < MaxCrashes
  /\ crashes' = crashes + 1
  /\ \E landed \in SUBSET {q \in Request : pc[q] = "upload"},
        removed \in SUBSET {target[q] : q \in {p \in Request : pc[p] = "remove"}} :
       /\ stored' = (stored \cup landed) \ removed
       /\ abandoned' = abandoned \cup landed \cup
            {q \in stored : pc[q] \in {"parse", "insert"}}
       /\ torn' = torn \cup removed \cup
            {target[q] : q \in {p \in Request : pc[p] = "drop"}}
  /\ pc' = [q \in Request |-> IF pc[q] = "free" THEN "free" ELSE "done"]
  /\ UNCHANGED <<live, rows, size, target, raced>>

Create(q) ==
  \/ CreateText(q)
  \/ \E s \in Sizes : CheckStorage(q, s)
  \/ CheckDocuments(q)
  \/ Upload(q)
  \/ UploadFails(q)
  \/ Parse(q)
  \/ Insert(q)
  \/ CreateFails(q)

Delete(q) ==
  \/ \E d \in Request : Find(q, d)
  \/ Remove(q)
  \/ RemoveFails(q)
  \/ Drop(q)
  \/ DropFails(q)

\* Every request that came has been served.
Rest ==
  /\ \A q \in Request : pc[q] \in {"free", "done"}
  /\ UNCHANGED vars

Next ==
  \/ \E q \in Request : Create(q) \/ Delete(q)
  \/ DeleteWorkspace
  \/ Crash
  \/ Rest

Spec == Init /\ [][Next]_vars

-----------------------------------------------------------------------------
TypeOK ==
  /\ live \in BOOLEAN
  /\ rows \subseteq Request
  /\ size \in [Request -> (0..MaxFileSize) \cup {Null}]
  /\ stored \subseteq Request
  /\ pc \in [Request -> PC]
  /\ target \in [Request -> Request \cup {Null}]
  /\ crashes \in 0..MaxCrashes
  /\ raced \subseteq Request
  /\ abandoned \subseteq Request
  /\ torn \subseteq Request

\* checkStorageLimit holds over uploads, deletions, failures and crashes: the
\* files that did not race another upload fit the limit together.
UnracedFilesFit == Usage(Files \ raced) <= MaxStorage

\* The same for checkDocumentLimit and the documents with a file, whatever
\* text documents come in between.
UnracedFilesCounted == Cardinality(Files \ raced) <= MaxDocuments

\* Both limits bind together: the documents whose uploads did not overlap
\* another stay within them.
UnracedWithinLimits == UnracedFilesFit /\ UnracedFilesCounted

\* A document's file is there for as long as the document is, except while
\* its deletion is between the two, or was torn.
FilesAreStored ==
  \A d \in Files \ stored :
    d \in torn \/ \E q \in Request : pc[q] = "drop" /\ target[q] = d

\* An object belongs to a document or to an upload under way; only a failure,
\* a crash or the deletion of the workspace leaves one behind.
OrphansAreAbandoned ==
  \A d \in stored \ abandoned :
    d \in Files \/ pc[d] \in {"parse", "insert"}

-----------------------------------------------------------------------------
(* The inductive strengthening of the invariants above.                    *)

\* How far a request is tells what there is of its document.
ProgressOK ==
  \A q \in Request :
    /\ pc[q] = "free" => ~HasFile(q)
    /\ pc[q] \in {"count", "upload", "parse"} => HasFile(q)
    /\ q \in rows => pc[q] = "done"
    /\ q \in stored => HasFile(q) /\ pc[q] \in {"parse", "insert", "done"}
    /\ pc[q] \in {"parse", "insert"} /\ HasFile(q) => q \in stored

\* A deletion is of a document that was there; once it has got to the row,
\* the object is gone or given up.
DeletionsOK ==
  /\ rows # {} => live
  /\ \A q \in Request : pc[q] \in {"remove", "drop"} =>
       /\ target[q] \in Request /\ pc[target[q]] = "done"
       /\ pc[q] = "drop" => target[q] \notin stored \ abandoned

\* Of two uploads under way each knows of the other; what the only one read
\* still leaves room for it.
RoomOK ==
  /\ \A p, q \in Windows : p # q => p \in raced
  /\ \A q \in Windows \ raced :
       /\ Usage(Files) + size[q] <= MaxStorage
       /\ pc[q] # "count" => Cardinality(Files) < MaxDocuments

IInv ==
  /\ TypeOK
  /\ ProgressOK
  /\ DeletionsOK
  /\ RoomOK
  /\ UnracedFilesFit
  /\ UnracedFilesCounted
  /\ FilesAreStored
  /\ OrphansAreAbandoned
=============================================================================
