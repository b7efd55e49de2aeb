-------------------------- MODULE DocumentPipeline --------------------------
(***************************************************************************)
(* DocumentService (application/document/document.service.ts): rows of the *)
(* Document and Chunk tables, the create, update and delete handlers that  *)
(* change them, and the background run processDocument that a handler      *)
(* starts and does not wait for.                                           *)
(*                                                                         *)
(* A Job is one request together with the run it starts.  A job stops at   *)
(* each `await`, so jobs interleave there.  Transactions run at Postgres'  *)
(* READ COMMITTED: one that reads and then writes is two steps, one whose  *)
(* first write locks the Document row is a single step.                    *)
(*                                                                         *)
(* A definition named Faulty... is its neighbour with a bug in it; nothing *)
(* uses it but the checks that a property would notice the bug.            *)
(***************************************************************************)
EXTENDS Naturals, FiniteSets

CONSTANTS
  Doc,          \* document ids (UUIDs, never used twice)
  Text,         \* the contents a document can have
  Job,          \* requests
  NoDoc,        \* target of a job that has not begun
  NoText,       \* content of a document that has no row
  RlsEnforced,  \* does row level security bind the database role in use?
  DbFaults,     \* may a transaction fail although its rows are there?
  MaxCrashes    \* bound on server crashes

ASSUME ConstantsAssumption ==
  /\ NoDoc \notin Doc
  /\ NoText \notin Text
  /\ RlsEnforced \in BOOLEAN
  /\ DbFaults \in BOOLEAN
  /\ MaxCrashes \in Nat

VARIABLES
  status,       \* Document.processingStatus, or "ABSENT"/"DELETED": no row
  content,      \* Document.content
  failure,      \* is Document.processingError set?
  chunks,       \* Chunk rows; the rows one run inserts are one element
  pc,           \* where each job is
  target,       \* the document of a job
  text,         \* update: dto.content; run: its own copy of doc.content
  reprocess,    \* update: needsReprocessing
  crashes,      \* crashes so far
  contended     \* history: documents on which two jobs have overlapped

rowVars == <<status, content, failure, chunks>>
jobVars == <<pc, target, text, reprocess>>
vars == <<rowVars, jobVars, crashes, contended>>

ProcessingStatus == {"PENDING", "PROCESSING", "COMPLETED", "FAILED"}

Chunk == [doc : Doc, by : Job, text : Text]

\* Jobs that write, or will write, a document's content, status or chunks.
Busy == {"write", "spawn", "lookup", "mark", "embed", "store", "fail"}

\* "lost": the process died; "swallowed": the write of FAILED failed too.
Ended == {"done", "lost", "swallowed"}

PC == {"free", "find", "drop"} \cup Busy \cup Ended

-----------------------------------------------------------------------------
Live(d) == status[d] \in ProcessingStatus

ChunksOf(d) == {ch \in chunks : ch.doc = d}

BusyOn(q, d) == pc[q] \in Busy /\ target[q] = d

Init ==
  /\ status = [d \in Doc |-> "ABSENT"]
  /\ content = [d \in Doc |-> NoText]
  /\ failure = [d \in Doc |-> FALSE]
  /\ chunks = {}
  /\ pc = [q \in Job |-> "free"]
  /\ target = [q \in Job |-> NoDoc]
  /\ text = [q \in Job |-> NoText]
  /\ reprocess = [q \in Job |-> FALSE]
  /\ crashes = 0
  /\ contended = {}

Goto(q, label) == pc' = [pc EXCEPT ![q] = label]

\* Another job is at work on d while a new one begins.
Contend(d) ==
  contended' = IF \E q \in Job : BusyOn(q, d)
                 THEN contended \cup {d} ELSE contended

-----------------------------------------------------------------------------
(* The handlers.                                                           *)

\* create(): the row is inserted as PENDING, then the run is started.
Create(q, d, c) ==
  /\ pc[q] = "free"
  /\ status[d] = "ABSENT"
  /\ status' = [status EXCEPT ![d] = "PENDING"]
  /\ content' = [content EXCEPT ![d] = c]
  /\ target' = [target EXCEPT ![q] = d]
  /\ Goto(q, "spawn")
  /\ UNCHANGED <<failure, chunks, text, reprocess, crashes, contended>>

NeedsReprocessing(d, c) == c # content[d]

\* update(), the read in the transaction.  A missing document ends the
\* request with NotFoundException and changes nothing.
UpdateRead(q, d, c) ==
  /\ pc[q] = "free"
  /\ Live(d)
  /\ target' = [target EXCEPT ![q] = d]
  /\ text' = [text EXCEPT ![q] = c]
  /\ reprocess' = [reprocess EXCEPT ![q] = NeedsReprocessing(d, c)]
  /\ Contend(d)
  /\ Goto(q, "write")
  /\ UNCHANGED <<rowVars, crashes>>

FaultyStatusAfterWrite(q, d) == status[d]
StatusAfterWrite(q, d) == IF reprocess[q] THEN "PENDING" ELSE status[d]

FaultyAfterWrite(q) == "done"
AfterWrite(q) == IF reprocess[q] THEN "spawn" ELSE "done"

\* update(), the write and commit: the content always, the status only if
\* the content was seen to change.  processingError is left as it was.
UpdateWrite(q) ==
  /\ pc[q] = "write"
  /\ LET d == target[q] IN
     /\ Live(d)
     /\ content' = [content EXCEPT ![d] = text[q]]
     /\ status' = [status EXCEPT ![d] = StatusAfterWrite(q, d)]
  /\ Goto(q, AfterWrite(q))
  /\ UNCHANGED <<failure, chunks, target, text, reprocess, crashes, contended>>

\* The transaction fails, or the row is gone: nothing is written.
UpdateAbort(q) ==
  /\ pc[q] = "write"
  /\ DbFaults \/ ~Live(target[q])
  /\ Goto(q, "done")
  /\ UNCHANGED <<rowVars, target, text, reprocess, crashes, contended>>

\* The handler resumes after the commit and calls processDocument.
Spawn(q) ==
  /\ pc[q] = "spawn"
  /\ Goto(q, "lookup")
  /\ UNCHANGED <<rowVars, target, text, reprocess, crashes, contended>>

\* delete(): the document is found, its stored file is then removed ...
DeleteFind(q, d) ==
  /\ pc[q] = "free"
  /\ Live(d)
  /\ target' = [target EXCEPT ![q] = d]
  /\ Goto(q, "drop")
  /\ UNCHANGED <<rowVars, text, reprocess, crashes, contended>>

FaultyDropChunks(d) == chunks
DropChunks(d) == chunks \ ChunksOf(d)

\* ... and its row, with the chunks (onDelete: Cascade).  A row that another
\* request deleted first makes this one fail.
DeleteRow(q) ==
  /\ pc[q] = "drop"
  /\ LET d == target[q] IN
     IF Live(d)
       THEN /\ status' = [status EXCEPT ![d] = "DELETED"]
            /\ content' = [content EXCEPT ![d] = NoText]
            /\ failure' = [failure EXCEPT ![d] = FALSE]
            /\ chunks' = DropChunks(d)
       ELSE UNCHANGED rowVars
  /\ Goto(q, "done")
  /\ UNCHANGED <<target, text, reprocess, crashes, contended>>

-----------------------------------------------------------------------------
(* processDocument, the background run.                                    *)

RunText(q, d) == content[d]

\* The run takes its own copy of the content; a missing row ends it.
Lookup(q) ==
  /\ pc[q] = "lookup"
  /\ LET d == target[q] IN
     IF Live(d)
       THEN /\ text' = [text EXCEPT ![q] = RunText(q, d)]
            /\ Goto(q, "mark")
       ELSE /\ Goto(q, "done")
            /\ UNCHANGED text
  /\ UNCHANGED <<rowVars, target, reprocess, crashes, contended>>

FaultyMarkedAs(d) == status[d]
MarkedAs(d) == "PROCESSING"

\* First transaction: PROCESSING, and the existing chunks go.
Mark(q) ==
  /\ pc[q] = "mark"
  /\ Live(target[q])
  /\ status' = [status EXCEPT ![target[q]] = MarkedAs(target[q])]
  /\ chunks' = DropChunks(target[q])
  /\ Goto(q, "embed")
  /\ UNCHANGED <<content, failure, target, text, reprocess, crashes, contended>>

\* Chunking and the embeddings service answer.
Embed(q) ==
  /\ pc[q] = "embed"
  /\ Goto(q, "store")
  /\ UNCHANGED <<rowVars, target, text, reprocess, crashes, contended>>

FaultyCanStore(d) == TRUE
CanStore(d) == Live(d)

\* Second transaction: the chunks of the run's own copy, and COMPLETED.
Store(q) ==
  /\ pc[q] = "store"
  /\ LET d == target[q] IN
     /\ CanStore(d)
     /\ chunks' = chunks \cup {[doc |-> d, by |-> q, text |-> text[q]]}
     /\ status' = IF Live(d) THEN [status EXCEPT ![d] = "COMPLETED"]
                             ELSE status
  /\ Goto(q, "done")
  /\ UNCHANGED <<content, failure, target, text, reprocess, crashes, contended>>

\* Anything in the run throws: a database error, a row that has been
\* deleted, a chunking error, an embeddings error.
Throw(q) ==
  /\ \/ pc[q] = "embed"
     \/ pc[q] = "lookup" /\ DbFaults
     \/ pc[q] \in {"mark", "store"} /\ (DbFaults \/ ~Live(target[q]))
  /\ Goto(q, "fail")
  /\ UNCHANGED <<rowVars, target, text, reprocess, crashes, contended>>

\* The catch block's update runs without an RLS context, so it sees no row
\* when the policies bind.  It fails then, and when the row is gone.
Recordable(d) == Live(d) /\ ~RlsEnforced

RecordFailure(q) ==
  /\ pc[q] = "fail"
  /\ LET d == target[q] IN
     \/ /\ Recordable(d)
        /\ status' = [status EXCEPT ![d] = "FAILED"]
        /\ failure' = [failure EXCEPT ![d] = TRUE]
        /\ Goto(q, "done")
     \/ /\ DbFaults \/ ~Recordable(d)
        /\ Goto(q, "swallowed")
        /\ UNCHANGED <<status, failure>>
  /\ UNCHANGED <<content, chunks, target, text, reprocess, crashes, contended>>

\* The process dies.  Runs and handlers live only in its memory, and no code
\* looks for unfinished documents when it starts again.
Crash ==
  /\ crashes < MaxCrashes
  /\ crashes' = crashes + 1
  /\ pc' = [q \in Job |-> IF pc[q] \in {"free"} \cup Ended THEN pc[q] ELSE "lost"]
  /\ UNCHANGED <<rowVars, target, text, reprocess, contended>>

-----------------------------------------------------------------------------
Begin(q) ==
  \E d \in Doc :
    \/ \E c \in Text : Create(q, d, c) \/ UpdateRead(q, d, c)
    \/ DeleteFind(q, d)

Handle(q) == UpdateWrite(q) \/ UpdateAbort(q) \/ Spawn(q) \/ DeleteRow(q)

Process(q) ==
  Lookup(q) \/ Mark(q) \/ Embed(q) \/ Store(q) \/ Throw(q) \/ RecordFailure(q)

\* Every job that began has ended.
Rest == (\A q \in Job : pc[q] \in {"free"} \cup Ended) /\ UNCHANGED vars

Next == (\E q \in Job : Begin(q) \/ Handle(q) \/ Process(q)) \/ Crash \/ Rest

Spec == Init /\ [][Next]_vars

\* The event loop resumes every handler and run whose awaited call has
\* answered; nothing obliges a client to send a request.
Fairness == \A q \in Job : WF_vars(Handle(q)) /\ WF_vars(Process(q))

FairSpec == Spec /\ Fairness

-----------------------------------------------------------------------------
(* Properties.                                                             *)

TypeOK ==
  /\ status \in [Doc -> ProcessingStatus \cup {"ABSENT", "DELETED"}]
  /\ content \in [Doc -> Text \cup {NoText}]
  /\ failure \in [Doc -> BOOLEAN]
  /\ chunks \subseteq Chunk
  /\ pc \in [Job -> PC]
  /\ target \in [Job -> Doc \cup {NoDoc}]
  /\ text \in [Job -> Text \cup {NoText}]
  /\ reprocess \in [Job -> BOOLEAN]
  /\ crashes \in Nat
  /\ contended \subseteq Doc

\* However runs, updates, deletions and crashes interleave, a document that
\* search treats as COMPLETED has chunks: no path removes them and leaves the
\* status, or writes the status without them.
CompletedIsSearchable ==
  \A d \in Doc : status[d] = "COMPLETED" => ChunksOf(d) # {}

\* A run that is still embedding when its document is deleted does not bring
\* chunks back: no chunk outlives its document.
DeletedLeavesNothing == \A ch \in chunks : Live(ch.doc)

\* As long as no two jobs have overlapped on a document, COMPLETED means that
\* search sees the chunks of its present content, once, and nothing else:
\* failed runs, crashes and retries before that make no difference.
FreshUnlessContended ==
  \A d \in Doc \ contended :
    status[d] = "COMPLETED" =>
      \E q \in Job : ChunksOf(d) = {[doc |-> d, by |-> q, text |-> content[d]]}

\* Whatever the status, only an overlap of jobs leaves a document the chunks of
\* two runs: each run drops what failed, crashed or older runs had stored.
OneChunkSetUnlessContended ==
  \A ch1, ch2 \in chunks :
    ch1.doc = ch2.doc /\ ch1.doc \notin contended => ch1 = ch2

\* A document that waits for processing is some job's to finish, or it was
\* abandoned: that job died with the server, or could not record its failure.
UnfinishedIsOwed ==
  \A d \in Doc :
    status[d] \in {"PENDING", "PROCESSING"} =>
      \E q \in Job : /\ target[q] = d
                     /\ pc[q] \in (Busy \ {"write"}) \cup {"lost", "swallowed"}

\* The moves of DocumentEntity: startProcessing, completeProcessing and
\* failProcessing throw in any other status.
EntityMoves ==
  {"PENDING", "FAILED"} \X {"PROCESSING"} \cup {"PROCESSING"} \X {"COMPLETED", "FAILED"}

\* The service's moves, which bypass the entity.  Its failProcessing throws
\* "Document is not being processed" where the service takes a PENDING document
\* to FAILED, when a run's lookup or first transaction fails; its
\* startProcessing takes up a FAILED one, which the service never does; and it
\* does not know the update that makes a document PENDING again.
LifeCycle ==
  (EntityMoves \ {<<"FAILED", "PROCESSING">>})
    \cup {<<"PENDING", "FAILED">>}
    \cup {"PROCESSING", "COMPLETED", "FAILED"} \X {"PENDING"}

Kept(d) == Live(d) /\ Live(d)'

FollowsLifeCycle ==
  \A d \in Doc \ contended' : Kept(d) =>
    /\ status'[d] # status[d] => <<status[d], status'[d]>> \in LifeCycle
    /\ content'[d] # content[d] => status'[d] = "PENDING"
    /\ status[d] # "PENDING" /\ status'[d] = "PENDING" => content'[d] # content[d]

\* While no two jobs overlap on a document, no run touches one that is
\* COMPLETED or FAILED, none completes one it has not marked, and a document
\* goes back to PENDING exactly when its content changes: neither is content
\* replaced under a status that speaks of the old one, nor work done again.
\* This is the service's life cycle and not DocumentEntity's.  Where updates
\* overlap not even this holds: one that read before another one and its run,
\* and writes after them, leaves a COMPLETED document with content that nobody
\* is going to process.
LifeCycleUnlessContended == [][FollowsLifeCycle]_vars

\* A job on d died with the server, or could not record its failure.
Abandoned(d) ==
  \E q \in Job : target[q] = d /\ pc[q] \in {"lost", "swallowed"}

\* Every document that waits for processing is COMPLETED, FAILED or deleted in
\* the end, whatever the embeddings service and the database do, unless a
\* crash or a failed write of FAILED leaves nobody to finish it.
Settles ==
  \A d \in Doc : status[d] \in {"PENDING", "PROCESSING"}
                  ~> status[d] \in {"COMPLETED", "FAILED", "DELETED"} \/ Abandoned(d)

-----------------------------------------------------------------------------
(* The inductive strengthening of FreshUnlessContended and of the action   *)
(* property above.                                                         *)

\* A job that began has a document that exists or existed; a live document
\* has content, and so has each job that is about to write some.
WellFormed ==
  /\ \A d \in Doc : Live(d) => content[d] \in Text
  /\ \A q \in Job :
       /\ pc[q] # "free" => target[q] \in Doc /\ status[target[q]] # "ABSENT"
       /\ pc[q] \in {"write", "mark", "embed", "store"} => text[q] \in Text

Alone(q) == \A p \in Job : BusyOn(p, target[q]) => p = q

\* What a job knows of its live document while it is alone with it.
Knows(q) ==
  LET d == target[q] IN
  Live(d) =>
    /\ pc[q] = "write" => (reprocess[q] <=> text[q] # content[d])
    /\ pc[q] \in {"spawn", "lookup", "mark"} => status[d] = "PENDING"
    /\ pc[q] \in {"embed", "store"} => status[d] = "PROCESSING" /\ ChunksOf(d) = {}
    /\ pc[q] \in {"mark", "embed", "store"} => text[q] = content[d]
    /\ pc[q] = "fail" => status[d] \in {"PENDING", "PROCESSING"}

Uncontended(q) == pc[q] \in Busy /\ target[q] \notin contended

\* Inductive: the types, the shape of jobs, no chunk without its document,
\* and every busy job on an uncontended document alone with what it knows.
IInv ==
  /\ TypeOK
  /\ WellFormed
  /\ DeletedLeavesNothing
  /\ \A q \in Job : Uncontended(q) => Alone(q) /\ Knows(q)
  /\ FreshUnlessContended

-----------------------------------------------------------------------------
(* What the repository says of the program and the program does not do.    *)

\* processDocument, "Delete existing chunks": a run replaces the chunks.
OneChunkSetPerDocument ==
  \A ch1, ch2 \in chunks : ch1.doc = ch2.doc => ch1 = ch2
=============================================================================
