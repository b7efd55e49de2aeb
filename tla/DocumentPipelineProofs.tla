----------------------- MODULE DocumentPipelineProofs -----------------------
(* Theorems about DocumentPipeline, for every set of documents, contents and *)
(* jobs, every number of crashes, and both settings of the RLS and fault     *)
(* constants.                                                                *)
EXTENDS DocumentPipeline, TLAPS

\* The values that the steps write, expanded in every proof.
USE DEF StatusAfterWrite, AfterWrite, RunText, MarkedAs

-----------------------------------------------------------------------------
(* Types.                                                                  *)

TypeInv == TypeOK /\ WellFormed

LEMMA TypeInit == Init => TypeInv
  BY ConstantsAssumption
     DEF Init, TypeInv, TypeOK, WellFormed, Live, ProcessingStatus, PC, Chunk

LEMMA TypeStep == TypeInv /\ [Next]_vars => TypeInv'
<1> SUFFICES ASSUME TypeInv, [Next]_vars PROVE TypeInv'
  OBVIOUS
<1> USE ConstantsAssumption
    DEF TypeInv, TypeOK, WellFormed, Live, ProcessingStatus, PC, Busy, Ended,
        Goto, rowVars
<1>1. ASSUME NEW q \in Job, NEW d \in Doc, NEW c \in Text, Create(q, d, c)
      PROVE  TypeInv'
  BY <1>1 DEF Create
<1>2. ASSUME NEW q \in Job, NEW d \in Doc, NEW c \in Text, UpdateRead(q, d, c)
      PROVE  TypeInv'
  BY <1>2 DEF UpdateRead, Contend, NeedsReprocessing
<1>3. ASSUME NEW q \in Job, NEW d \in Doc, DeleteFind(q, d)
      PROVE  TypeInv'
  BY <1>3 DEF DeleteFind
<1>4. ASSUME NEW q \in Job, UpdateWrite(q) PROVE TypeInv'
  <2> DEFINE d == target[q]
  <2>1. d \in Doc /\ text[q] \in Text /\ status[d] \in ProcessingStatus
    BY <1>4 DEF UpdateWrite
  <2> HIDE DEF d
  <2>2. /\ content' = [content EXCEPT ![d] = text[q]]
        /\ status' \in {status, [status EXCEPT ![d] = "PENDING"]}
        /\ pc' \in {[pc EXCEPT ![q] = "spawn"], [pc EXCEPT ![q] = "done"]}
        /\ UNCHANGED <<failure, chunks, target, text, reprocess, crashes, contended>>
    BY <1>4 DEF UpdateWrite, d
  <2>3. TypeOK'
    BY <2>1, <2>2
  <2>4. \A e \in Doc : Live(e)' => content'[e] \in Text
    BY <2>1, <2>2
  <2>5. \A p \in Job : pc'[p] # "free" => target'[p] \in Doc /\ status'[target'[p]] # "ABSENT"
    BY <2>1, <2>2, <1>4 DEF UpdateWrite
  <2>6. \A p \in Job : pc'[p] \in {"write", "mark", "embed", "store"} => text'[p] \in Text
    BY <2>2
  <2>7. QED
    BY <2>3, <2>4, <2>5, <2>6
<1>5. ASSUME NEW q \in Job, UpdateAbort(q) PROVE TypeInv'
  BY <1>5 DEF UpdateAbort
<1>6. ASSUME NEW q \in Job, Spawn(q) PROVE TypeInv'
  BY <1>6 DEF Spawn
<1>7. ASSUME NEW q \in Job, DeleteRow(q) PROVE TypeInv'
  <2>1. CASE ~Live(target[q])
    BY <1>7, <2>1 DEF DeleteRow
  <2>2. CASE Live(target[q])
    <3> DEFINE d == target[q]
    <3>1. d \in Doc
      BY <1>7 DEF DeleteRow
    <3> HIDE DEF d
    <3>2. /\ status' = [status EXCEPT ![d] = "DELETED"]
          /\ content' = [content EXCEPT ![d] = NoText]
          /\ failure' = [failure EXCEPT ![d] = FALSE]
          /\ chunks' \subseteq chunks
          /\ pc' = [pc EXCEPT ![q] = "done"]
          /\ UNCHANGED <<target, text, reprocess, crashes, contended>>
      BY <1>7, <2>2 DEF DeleteRow, DropChunks, d
    <3>3. TypeOK'
      BY <3>1, <3>2
    <3>4. \A p \in Job : pc'[p] # "free" => target'[p] \in Doc /\ status'[target'[p]] # "ABSENT"
      BY <3>1, <3>2, <1>7 DEF DeleteRow
    <3>5. QED
      BY <3>1, <3>2, <3>3, <3>4
  <2>3. QED
    BY <2>1, <2>2
<1>8. ASSUME NEW q \in Job, Lookup(q) PROVE TypeInv'
  <2>1. CASE Live(target[q])
    BY <1>8, <2>1 DEF Lookup
  <2>2. CASE ~Live(target[q])
    BY <1>8, <2>2 DEF Lookup
  <2>3. QED
    BY <2>1, <2>2
<1>9. ASSUME NEW q \in Job, Mark(q) PROVE TypeInv'
  BY <1>9 DEF Mark, DropChunks
<1>10. ASSUME NEW q \in Job, Embed(q) PROVE TypeInv'
  BY <1>10 DEF Embed
<1>11. ASSUME NEW q \in Job, Store(q) PROVE TypeInv'
  <2>1. [doc |-> target[q], by |-> q, text |-> text[q]] \in Chunk
    BY <1>11 DEF Store, Chunk
  <2>2. QED
    BY <1>11, <2>1 DEF Store, CanStore
<1>12. ASSUME NEW q \in Job, Throw(q) PROVE TypeInv'
  BY <1>12 DEF Throw
<1>13. ASSUME NEW q \in Job, RecordFailure(q) PROVE TypeInv'
  <2> DEFINE d == target[q]
  <2>1. d \in Doc
    BY <1>13 DEF RecordFailure
  <2>2. UNCHANGED <<content, chunks, target, text, reprocess, crashes, contended>>
    BY <1>13 DEF RecordFailure
  <2>3. \/ /\ Live(d)
           /\ status' = [status EXCEPT ![d] = "FAILED"]
           /\ failure' = [failure EXCEPT ![d] = TRUE]
           /\ pc' = [pc EXCEPT ![q] = "done"]
        \/ /\ pc' = [pc EXCEPT ![q] = "swallowed"]
           /\ UNCHANGED <<status, failure>>
    BY <1>13 DEF RecordFailure, Recordable
  <2>4. pc[q] = "fail"
    BY <1>13 DEF RecordFailure
  <2> HIDE DEF d
  <2>5. TypeOK'
    BY <2>1, <2>2, <2>3
  <2>6. \A e \in Doc : Live(e)' => content'[e] \in Text
    BY <2>1, <2>2, <2>3
  <2>7. \A p \in Job : pc'[p] # "free" => target'[p] \in Doc /\ status'[target'[p]] # "ABSENT"
    BY <2>1, <2>2, <2>3, <2>4
  <2>8. \A p \in Job : pc'[p] \in {"write", "mark", "embed", "store"} => text'[p] \in Text
    BY <2>2, <2>3
  <2>9. QED
    BY <2>5, <2>6, <2>7, <2>8
<1>14. CASE Crash
  BY <1>14 DEF Crash
<1>15. CASE UNCHANGED vars
  BY <1>15 DEF vars, jobVars
<1>16. QED
  BY <1>1, <1>2, <1>3, <1>4, <1>5, <1>6, <1>7, <1>8, <1>9, <1>10, <1>11,
     <1>12, <1>13, <1>14, <1>15
     DEF Next, Begin, Handle, Process, Rest

\* Every variable keeps its type in every behaviour.
THEOREM TypeCorrect == Spec => []TypeOK
<1>1. TypeInv => TypeOK
  BY DEF TypeInv
<1>2. QED
  BY TypeInit, TypeStep, <1>1, PTL DEF Spec

-----------------------------------------------------------------------------
(* Which steps touch the tables at all.                                    *)

RowStep(q) ==
  \/ \E d \in Doc, c \in Text : Create(q, d, c)
  \/ UpdateWrite(q) \/ DeleteRow(q) \/ Mark(q) \/ Store(q) \/ RecordFailure(q)

LEMMA RowSteps == [Next]_vars => UNCHANGED rowVars \/ \E q \in Job : RowStep(q)
<1> SUFFICES ASSUME [Next]_vars, ~UNCHANGED rowVars
             PROVE  \E q \in Job : RowStep(q)
  OBVIOUS
<1> USE DEF rowVars
<1>1. CASE Crash
  BY <1>1 DEF Crash
<1>2. CASE Rest \/ UNCHANGED vars
  BY <1>2 DEF Rest, vars
<1>3. CASE \E q \in Job : Begin(q) \/ Handle(q) \/ Process(q)
  BY <1>3 DEF Begin, Handle, Process, RowStep, UpdateRead, UpdateAbort, Spawn,
              DeleteFind, Lookup, Embed, Throw
<1>4. QED
  BY <1>1, <1>2, <1>3 DEF Next

-----------------------------------------------------------------------------
(* Chunks and status.                                                      *)

ChunkInv == DeletedLeavesNothing /\ CompletedIsSearchable

LEMMA ChunkStep == TypeInv /\ ChunkInv /\ [Next]_vars => ChunkInv'
<1> SUFFICES ASSUME TypeInv, ChunkInv, [Next]_vars PROVE ChunkInv'
  OBVIOUS
<1> USE DEF TypeInv, TypeOK, WellFormed, ChunkInv, DeletedLeavesNothing,
            CompletedIsSearchable, ChunksOf, Live, ProcessingStatus
<1>1. CASE UNCHANGED rowVars
  BY <1>1 DEF rowVars
<1>2. ASSUME NEW q \in Job, NEW d \in Doc, NEW c \in Text, Create(q, d, c)
      PROVE  ChunkInv'
  BY <1>2 DEF Create
<1>3. ASSUME NEW q \in Job, UpdateWrite(q) PROVE ChunkInv'
  BY <1>3 DEF UpdateWrite
<1>4. ASSUME NEW q \in Job, DeleteRow(q) PROVE ChunkInv'
  <2>1. target[q] \in Doc
    BY <1>4 DEF DeleteRow
  <2>2. CASE Live(target[q])
    <3> DEFINE d == target[q]
    <3>1. /\ status' = [status EXCEPT ![d] = "DELETED"]
          /\ chunks' = {ch \in chunks : ch.doc # d}
      BY <1>4, <2>2 DEF DeleteRow, DropChunks
    <3> HIDE DEF d
    <3>2. QED
      BY <2>1, <3>1 DEF d
  <2>3. CASE ~Live(target[q])
    BY <1>1, <1>4, <2>3 DEF DeleteRow
  <2>4. QED
    BY <2>2, <2>3
<1>5. ASSUME NEW q \in Job, Mark(q) PROVE ChunkInv'
  <2>1. target[q] \in Doc
    BY <1>5 DEF Mark
  <2>2. QED
    BY <1>5, <2>1 DEF Mark, DropChunks
<1>6. ASSUME NEW q \in Job, Store(q) PROVE ChunkInv'
  <2> DEFINE d == target[q]
             ch == [doc |-> d, by |-> q, text |-> text[q]]
  <2>1. d \in Doc /\ Live(d) /\ ch.doc = d
    BY <1>6 DEF Store, CanStore
  <2>2. chunks' = chunks \cup {ch} /\ status' = [status EXCEPT ![d] = "COMPLETED"]
    BY <1>6, <2>1 DEF Store
  <2> HIDE DEF d, ch
  <2>3. QED
    BY <2>1, <2>2
<1>7. ASSUME NEW q \in Job, RecordFailure(q) PROVE ChunkInv'
  <2> DEFINE d == target[q]
  <2>1. d \in Doc
    BY <1>7 DEF RecordFailure
  <2>2. /\ chunks' = chunks
        /\ \/ Live(d) /\ status' = [status EXCEPT ![d] = "FAILED"]
           \/ status' = status
    BY <1>7 DEF RecordFailure, Recordable
  <2> HIDE DEF d
  <2>3. CASE status' = status
    BY <2>2, <2>3
  <2>4. CASE Live(d) /\ status' = [status EXCEPT ![d] = "FAILED"]
    BY <2>1, <2>2, <2>4
  <2>5. QED
    BY <2>2, <2>3, <2>4
<1>8. QED
  BY RowSteps, <1>1, <1>2, <1>3, <1>4, <1>5, <1>6, <1>7 DEF RowStep

\* A COMPLETED document has chunks and a deleted one has none, through every
\* interleaving of runs, updates, deletions, faults and crashes.
THEOREM ChunksCorrect == Spec => [](DeletedLeavesNothing /\ CompletedIsSearchable)
<1>1. Init => ChunkInv
  BY DEF Init, ChunkInv, DeletedLeavesNothing, CompletedIsSearchable
<1>2. QED
  BY <1>1, TypeInit, TypeStep, ChunkStep, PTL DEF Spec, ChunkInv

\* Of a deleted document no chunk is left, and none is stored afterwards.
THEOREM DeletedCorrect == Spec => []DeletedLeavesNothing
<1>1. DeletedLeavesNothing /\ CompletedIsSearchable => DeletedLeavesNothing
  OBVIOUS
<1>2. QED
  BY <1>1, ChunksCorrect, PTL

-----------------------------------------------------------------------------
(* A busy job on an uncontended document is the only one.                  *)

AloneInv == \A q \in Job : Uncontended(q) => Alone(q)

\* A job that moves on, or stops, takes no document from another.
LEMMA MoveAlone ==
  ASSUME TypeInv, AloneInv, NEW q \in Job, NEW l \in PC,
         pc[q] \in Busy \/ l \notin Busy,
         pc' = [pc EXCEPT ![q] = l], UNCHANGED <<target, contended>>
  PROVE  AloneInv'
BY DEF TypeInv, TypeOK, AloneInv, Uncontended, Alone, BusyOn

LEMMA AloneStep == TypeInv /\ AloneInv /\ [Next]_vars => AloneInv'
<1> SUFFICES ASSUME TypeInv, AloneInv, [Next]_vars PROVE AloneInv'
  OBVIOUS
<1>1. ASSUME NEW q \in Job, NEW d \in Doc, NEW c \in Text, Create(q, d, c)
      PROVE  AloneInv'
  <2>1. \A p \in Job : ~BusyOn(p, d)
    BY <1>1 DEF Create, TypeInv, WellFormed, BusyOn, Busy
  <2>2. /\ pc' = [pc EXCEPT ![q] = "spawn"]
        /\ target' = [target EXCEPT ![q] = d]
        /\ contended' = contended
    BY <1>1 DEF Create, Goto
  <2>3. QED
    BY <2>1, <2>2 DEF TypeInv, TypeOK, AloneInv, Uncontended, Alone, BusyOn
<1>2. ASSUME NEW q \in Job, NEW d \in Doc, NEW c \in Text, UpdateRead(q, d, c)
      PROVE  AloneInv'
  <2>1. /\ pc' = [pc EXCEPT ![q] = "write"]
        /\ target' = [target EXCEPT ![q] = d]
        /\ \/ contended' = contended /\ \A p \in Job : ~BusyOn(p, d)
           \/ contended' = contended \cup {d}
    BY <1>2 DEF UpdateRead, Goto, Contend
  <2>2. QED
    BY <2>1 DEF TypeInv, TypeOK, AloneInv, Uncontended, Alone, BusyOn
<1>3. ASSUME NEW q \in Job, NEW d \in Doc, DeleteFind(q, d)
      PROVE  AloneInv'
  <2>1. /\ pc' = [pc EXCEPT ![q] = "drop"]
        /\ target' = [target EXCEPT ![q] = d]
        /\ contended' = contended
        /\ "drop" \notin Busy
    BY <1>3 DEF DeleteFind, Goto, Busy
  <2>2. QED
    BY <2>1 DEF TypeInv, TypeOK, AloneInv, Uncontended, Alone, BusyOn
<1>4. ASSUME NEW q \in Job,
             \/ UpdateWrite(q) \/ UpdateAbort(q) \/ Spawn(q) \/ Lookup(q) \/ Mark(q)
             \/ Embed(q) \/ Store(q) \/ Throw(q) \/ RecordFailure(q)
      PROVE  AloneInv'
  <2>1. /\ pc[q] \in Busy
        /\ UNCHANGED <<target, contended>>
        /\ \E l \in PC : pc' = [pc EXCEPT ![q] = l]
    BY <1>4 DEF UpdateWrite, UpdateAbort, Spawn, Lookup, Mark, Embed, Store,
                Throw, RecordFailure, Goto, Busy, PC, Ended
  <2>2. QED
    BY <2>1, MoveAlone
<1>5. ASSUME NEW q \in Job, DeleteRow(q) PROVE AloneInv'
  <2>1. /\ pc' = [pc EXCEPT ![q] = "done"]
        /\ UNCHANGED <<target, contended>>
        /\ "done" \in PC /\ "done" \notin Busy
    BY <1>5 DEF DeleteRow, Goto, PC, Busy, Ended
  <2>2. QED
    BY <2>1, MoveAlone
<1>6. CASE Crash
  BY <1>6 DEF Crash, TypeInv, TypeOK, AloneInv, Uncontended, Busy, Ended
<1>7. CASE UNCHANGED vars
  BY <1>7 DEF vars, jobVars, AloneInv, Uncontended, Alone, BusyOn
<1>8. QED
  BY <1>1, <1>2, <1>3, <1>4, <1>5, <1>6, <1>7
     DEF Next, Begin, Handle, Process, Rest

-----------------------------------------------------------------------------
(* What a job knows of its document while it is alone with it.             *)

KnowsInv == \A q \in Job : Uncontended(q) => Knows(q)

\* A step of busy job q that keeps to its own document.
KeepsTo(q) ==
  /\ \A e \in Doc \ {target[q]} : /\ status'[e] = status[e]
                                 /\ content'[e] = content[e]
                                 /\ ChunksOf(e)' = ChunksOf(e)
  /\ \A p \in Job \ {q} : /\ pc'[p] = pc[p]
                          /\ text'[p] = text[p]
                          /\ reprocess'[p] = reprocess[p]
  /\ UNCHANGED <<target, contended>>

LEMMA KeepsToKnows ==
  ASSUME TypeInv, AloneInv, KnowsInv, NEW q \in Job, pc[q] \in Busy,
         KeepsTo(q), Uncontended(q)' => Knows(q)'
  PROVE  KnowsInv'
<1> SUFFICES ASSUME NEW p \in Job, Uncontended(p)', p # q PROVE Knows(p)'
  BY DEF KnowsInv
<1>1. Uncontended(p) /\ target'[p] = target[p] /\ target[p] \in Doc
  BY DEF KeepsTo, Uncontended, TypeInv, TypeOK, WellFormed, Busy
<1>2. target[p] # target[q]
  BY <1>1 DEF AloneInv, Alone, BusyOn
<1>3. Knows(p)
  BY <1>1 DEF KnowsInv
<1> DEFINE e == target[p]
<1>4. /\ e \in Doc /\ status'[e] = status[e] /\ content'[e] = content[e]
      /\ ChunksOf(e)' = ChunksOf(e)
      /\ pc'[p] = pc[p] /\ text'[p] = text[p] /\ reprocess'[p] = reprocess[p]
  BY <1>1, <1>2 DEF KeepsTo
<1>5. QED
  BY <1>1, <1>3, <1>4 DEF Knows, Live

LEMMA KnowsStep ==
  TypeInv /\ AloneInv /\ KnowsInv /\ [Next]_vars => KnowsInv'
<1> SUFFICES ASSUME TypeInv, AloneInv, KnowsInv, [Next]_vars PROVE KnowsInv'
  OBVIOUS
<1>1. ASSUME NEW q \in Job, NEW d \in Doc, NEW c \in Text, Create(q, d, c)
      PROVE  KnowsInv'
  <2> SUFFICES ASSUME NEW p \in Job, Uncontended(p)' PROVE Knows(p)'
    BY DEF KnowsInv
  <2> USE <1>1 DEF Create, Goto, TypeInv, TypeOK
  <2>1. CASE p = q
    BY <2>1 DEF Knows
  <2>2. CASE p # q
    <3>1. pc'[p] = pc[p] /\ target'[p] = target[p]
      BY <2>2
    <3>2. Uncontended(p) /\ Knows(p)
      BY <3>1 DEF Uncontended, KnowsInv
    <3>3. target[p] \in Doc /\ target[p] # d
      BY <3>2 DEF Uncontended, WellFormed, Busy
    <3>4. /\ status'[target[p]] = status[target[p]]
          /\ content'[target[p]] = content[target[p]]
          /\ UNCHANGED <<chunks, text, reprocess>>
      BY <3>3
    <3>5. QED
      BY <3>1, <3>2, <3>4 DEF Knows, Live, ChunksOf
  <2>3. QED
    BY <2>1, <2>2
<1>2. ASSUME NEW q \in Job, NEW d \in Doc, NEW c \in Text, UpdateRead(q, d, c)
      PROVE  KnowsInv'
  <2> SUFFICES ASSUME NEW p \in Job, Uncontended(p)' PROVE Knows(p)'
    BY DEF KnowsInv
  <2> USE <1>2 DEF UpdateRead, Goto, TypeInv, TypeOK, rowVars
  <2>1. CASE p = q
    BY <2>1 DEF Knows, NeedsReprocessing
  <2>2. CASE p # q
    <3>1. pc'[p] = pc[p] /\ target'[p] = target[p] /\ text'[p] = text[p]
          /\ reprocess'[p] = reprocess[p] /\ contended \subseteq contended'
      BY <2>2 DEF Contend
    <3>2. Uncontended(p) /\ Knows(p)
      BY <3>1 DEF Uncontended, KnowsInv
    <3>3. QED
      BY <3>1, <3>2 DEF Knows, Live, ChunksOf
  <2>3. QED
    BY <2>1, <2>2
<1>3. ASSUME NEW q \in Job, NEW d \in Doc, DeleteFind(q, d)
      PROVE  KnowsInv'
  <2> SUFFICES ASSUME NEW p \in Job, Uncontended(p)' PROVE Knows(p)'
    BY DEF KnowsInv
  <2>1. p # q /\ pc'[p] = pc[p] /\ target'[p] = target[p]
    BY <1>3 DEF DeleteFind, Goto, TypeInv, TypeOK, Uncontended, Busy
  <2>2. Uncontended(p) /\ Knows(p)
    BY <1>3, <2>1 DEF DeleteFind, Uncontended, KnowsInv
  <2>3. QED
    BY <1>3, <2>1, <2>2 DEF DeleteFind, Knows, Live, ChunksOf, rowVars
<1>4. ASSUME NEW q \in Job, DeleteRow(q) PROVE KnowsInv'
  <2> SUFFICES ASSUME NEW p \in Job, Uncontended(p)', Live(target[p])' PROVE Knows(p)'
    BY <1>4 DEF KnowsInv, Knows, DeleteRow
  <2>1. p # q /\ pc'[p] = pc[p]
    BY <1>4 DEF DeleteRow, Goto, TypeInv, TypeOK, Uncontended, Busy
  <2>2. Uncontended(p) /\ Knows(p) /\ target[p] \in Doc
    BY <1>4, <2>1 DEF DeleteRow, Uncontended, KnowsInv, TypeInv, WellFormed, Busy
  <2>3. CASE ~Live(target[q])
    BY <1>4, <2>1, <2>2, <2>3 DEF DeleteRow, Knows, Live, ChunksOf, rowVars
  <2>4. CASE Live(target[q])
    <3>1. /\ status' = [status EXCEPT ![target[q]] = "DELETED"]
          /\ content' = [content EXCEPT ![target[q]] = NoText]
          /\ chunks' = {ch \in chunks : ch.doc # target[q]}
          /\ UNCHANGED <<target, text, reprocess>>
      BY <1>4, <2>4 DEF DeleteRow, DropChunks, ChunksOf
    <3>2. target[p] # target[q]
      BY <2>2, <3>1 DEF Live, ProcessingStatus, TypeInv, TypeOK
    <3>3. /\ status'[target[p]] = status[target[p]]
          /\ content'[target[p]] = content[target[p]]
          /\ {ch \in chunks' : ch.doc = target[p]} = ChunksOf(target[p])
      BY <2>2, <3>1, <3>2 DEF TypeInv, TypeOK, ChunksOf
    <3>4. QED
      BY <2>1, <2>2, <3>1, <3>3 DEF Knows, Live, ChunksOf
  <2>5. QED
    BY <2>3, <2>4
<1>5. ASSUME NEW q \in Job,
             \/ UpdateWrite(q) \/ UpdateAbort(q) \/ Spawn(q) \/ Lookup(q) \/ Mark(q)
             \/ Embed(q) \/ Store(q) \/ Throw(q) \/ RecordFailure(q)
      PROVE  KnowsInv'
  <2>1. pc[q] \in Busy /\ target[q] \in Doc
    BY <1>5 DEF UpdateWrite, UpdateAbort, Spawn, Lookup, Mark, Embed, Store,
                Throw, RecordFailure, Busy, TypeInv, WellFormed
  <2>2. KeepsTo(q)
    <3>1. CASE UpdateWrite(q)
      BY <2>1, <3>1 DEF UpdateWrite, KeepsTo, Goto, TypeInv, TypeOK, ChunksOf
    <3>2. CASE UpdateAbort(q)
      BY <2>1, <3>2 DEF UpdateAbort, KeepsTo, Goto, TypeInv, TypeOK, rowVars, ChunksOf
    <3>3. CASE Spawn(q)
      BY <2>1, <3>3 DEF Spawn, KeepsTo, Goto, TypeInv, TypeOK, rowVars, ChunksOf
    <3>4. CASE Lookup(q)
      BY <2>1, <3>4 DEF Lookup, KeepsTo, Goto, TypeInv, TypeOK, rowVars, ChunksOf
    <3>5. CASE Mark(q)
      BY <2>1, <3>5 DEF Mark, KeepsTo, Goto, TypeInv, TypeOK, DropChunks, ChunksOf
    <3>6. CASE Embed(q)
      BY <2>1, <3>6 DEF Embed, KeepsTo, Goto, TypeInv, TypeOK, rowVars, ChunksOf
    <3>7. CASE Store(q)
      BY <2>1, <3>7 DEF Store, KeepsTo, Goto, TypeInv, TypeOK, CanStore, ChunksOf
    <3>8. CASE Throw(q)
      BY <2>1, <3>8 DEF Throw, KeepsTo, Goto, TypeInv, TypeOK, rowVars, ChunksOf
    <3>9. CASE RecordFailure(q)
      BY <2>1, <3>9 DEF RecordFailure, KeepsTo, Goto, TypeInv, TypeOK, ChunksOf
    <3>10. QED
      BY <1>5, <3>1, <3>2, <3>3, <3>4, <3>5, <3>6, <3>7, <3>8, <3>9
  <2>3. Uncontended(q)' => Knows(q)'
    <3>1. CASE UpdateWrite(q)
      BY <2>1, <3>1 DEF UpdateWrite, Goto, TypeInv, TypeOK, KnowsInv, Uncontended, Knows, Live, Busy
    <3>2. CASE UpdateAbort(q)
      BY <2>1, <3>2 DEF UpdateAbort, Goto, TypeInv, TypeOK, KnowsInv, Uncontended, Knows, Live, Busy
    <3>3. CASE Spawn(q)
      BY <2>1, <3>3 DEF Spawn, Goto, TypeInv, TypeOK, KnowsInv, Uncontended, Knows, Live, rowVars, ChunksOf, Busy
    <3>4. CASE Lookup(q)
      BY <2>1, <3>4 DEF Lookup, Goto, TypeInv, TypeOK, KnowsInv, Uncontended, Knows, Live, rowVars, ChunksOf, Busy
    <3>5. CASE Mark(q)
      BY <2>1, <3>5 DEF Mark, Goto, TypeInv, TypeOK, KnowsInv, Uncontended, Knows, Live, DropChunks, ChunksOf, Busy
    <3>6. CASE Embed(q)
      BY <2>1, <3>6 DEF Embed, Goto, TypeInv, TypeOK, KnowsInv, Uncontended, Knows, Live, rowVars, ChunksOf, Busy
    <3>7. CASE Store(q)
      BY <2>1, <3>7 DEF Store, Goto, TypeInv, TypeOK, KnowsInv, Uncontended, Knows, Live, Busy
    <3>8. CASE Throw(q)
      BY <2>1, <3>8 DEF Throw, Goto, TypeInv, TypeOK, KnowsInv, Uncontended, Knows, Live, rowVars, ChunksOf, Busy
    <3>9. CASE RecordFailure(q)
      BY <2>1, <3>9 DEF RecordFailure, Goto, TypeInv, TypeOK, KnowsInv, Uncontended, Knows, Live, Busy
    <3>10. QED
      BY <1>5, <3>1, <3>2, <3>3, <3>4, <3>5, <3>6, <3>7, <3>8, <3>9
  <2>4. QED
    BY <2>1, <2>2, <2>3, KeepsToKnows
<1>6. CASE Crash
  BY <1>6 DEF Crash, KnowsInv, TypeInv, TypeOK, Uncontended, Busy, Ended
<1>7. CASE UNCHANGED vars
  BY <1>7 DEF vars, jobVars, rowVars, KnowsInv, Uncontended, Knows, Live, ChunksOf
<1>8. QED
  BY <1>1, <1>2, <1>3, <1>4, <1>5, <1>6, <1>7
     DEF Next, Begin, Handle, Process, Rest

-----------------------------------------------------------------------------
(* Freshness.                                                              *)

LEMMA FreshStep ==
  TypeInv /\ AloneInv /\ KnowsInv /\ ChunkInv /\ FreshUnlessContended /\ [Next]_vars
  => FreshUnlessContended'
<1> SUFFICES ASSUME TypeInv, AloneInv, KnowsInv, ChunkInv, FreshUnlessContended,
                    [Next]_vars,
                    NEW e \in Doc, e \notin contended', status'[e] = "COMPLETED"
             PROVE  \E p \in Job : ChunksOf(e)' = {[doc |-> e, by |-> p, text |-> content'[e]]}
  BY DEF FreshUnlessContended
<1>1. e \notin contended
  BY DEF Next, Begin, Handle, Process, Create, UpdateRead, UpdateWrite, UpdateAbort,
         Spawn, DeleteFind, DeleteRow, Lookup, Mark, Embed, Store, Throw,
         RecordFailure, Crash, Rest, Contend, vars
<1>2. status[e] = "COMPLETED" =>
        \E p \in Job : ChunksOf(e) = {[doc |-> e, by |-> p, text |-> content[e]]}
  BY <1>1 DEF FreshUnlessContended
<1> USE DEF TypeInv, TypeOK
<1>3. CASE UNCHANGED rowVars
  BY <1>2, <1>3 DEF rowVars, ChunksOf
<1>4. ASSUME NEW q \in Job, NEW d \in Doc, NEW c \in Text, Create(q, d, c)
      PROVE  \E p \in Job : ChunksOf(e)' = {[doc |-> e, by |-> p, text |-> content'[e]]}
  BY <1>2, <1>4 DEF Create, ChunksOf
<1>5. ASSUME NEW q \in Job, UpdateWrite(q)
      PROVE  \E p \in Job : ChunksOf(e)' = {[doc |-> e, by |-> p, text |-> content'[e]]}
  <2>1. CASE e # target[q]
    BY <1>2, <1>5, <2>1 DEF UpdateWrite, ChunksOf
  <2>2. CASE e = target[q]
    <3>1. ~reprocess[q] /\ status[e] = "COMPLETED"
      BY <1>5, <2>2 DEF UpdateWrite
    <3>2. Uncontended(q) /\ Live(e)
      BY <1>1, <1>5, <2>2 DEF UpdateWrite, Uncontended, Busy
    <3>3. text[q] = content[e]
      BY <1>5, <2>2, <3>1, <3>2 DEF UpdateWrite, KnowsInv, Knows
    <3>4. content'[e] = content[e] /\ ChunksOf(e)' = ChunksOf(e)
      BY <1>5, <2>2, <3>3 DEF UpdateWrite, ChunksOf
    <3>5. QED
      BY <1>2, <3>1, <3>4
  <2>3. QED
    BY <2>1, <2>2
<1>6. ASSUME NEW q \in Job, DeleteRow(q)
      PROVE  \E p \in Job : ChunksOf(e)' = {[doc |-> e, by |-> p, text |-> content'[e]]}
  <2>1. CASE ~Live(target[q])
    BY <1>3, <1>6, <2>1 DEF DeleteRow
  <2>2. CASE Live(target[q])
    <3>1. /\ e # target[q]
          /\ status'[e] = status[e] /\ content'[e] = content[e]
          /\ ChunksOf(e)' = ChunksOf(e)
      BY <1>6, <2>2 DEF DeleteRow, DropChunks, ChunksOf
    <3>2. QED
      BY <1>2, <3>1
  <2>3. QED
    BY <2>1, <2>2
<1>7. ASSUME NEW q \in Job, Mark(q)
      PROVE  \E p \in Job : ChunksOf(e)' = {[doc |-> e, by |-> p, text |-> content'[e]]}
  <2>1. /\ e # target[q]
        /\ status'[e] = status[e] /\ content'[e] = content[e]
        /\ ChunksOf(e)' = ChunksOf(e)
    BY <1>7 DEF Mark, DropChunks, ChunksOf
  <2>2. QED
    BY <1>2, <2>1
<1>8. ASSUME NEW q \in Job, Store(q)
      PROVE  \E p \in Job : ChunksOf(e)' = {[doc |-> e, by |-> p, text |-> content'[e]]}
  <2> DEFINE ch == [doc |-> target[q], by |-> q, text |-> text[q]]
  <2>1. /\ Live(target[q]) /\ content' = content
        /\ chunks' = chunks \cup {ch}
        /\ status' = [status EXCEPT ![target[q]] = "COMPLETED"]
    BY <1>8 DEF Store, CanStore
  <2>2. CASE e # target[q]
    <3>1. status[e] = "COMPLETED" /\ ChunksOf(e)' = ChunksOf(e)
      BY <2>1, <2>2 DEF ChunksOf
    <3>2. QED
      BY <1>2, <2>1, <3>1
  <2>3. CASE e = target[q]
    <3>1. Uncontended(q)
      BY <1>1, <1>8, <2>3 DEF Store, Uncontended, Busy
    <3>2. ChunksOf(e) = {} /\ text[q] = content[e]
      BY <1>8, <2>1, <2>3, <3>1 DEF Store, KnowsInv, Knows
    <3>3. ChunksOf(e)' = {ch}
      BY <2>1, <2>3, <3>2 DEF ChunksOf
    <3>4. QED
      BY <2>1, <2>3, <3>2, <3>3
  <2>4. QED
    BY <2>2, <2>3
<1>9. ASSUME NEW q \in Job, RecordFailure(q)
      PROVE  \E p \in Job : ChunksOf(e)' = {[doc |-> e, by |-> p, text |-> content'[e]]}
  <2>1. /\ status[e] = "COMPLETED" /\ content' = content
        /\ ChunksOf(e)' = ChunksOf(e)
    BY <1>9 DEF RecordFailure, ChunksOf
  <2>2. QED
    BY <1>2, <2>1
<1>10. QED
  BY RowSteps, <1>3, <1>4, <1>5, <1>6, <1>7, <1>8, <1>9 DEF RowStep

\* As long as no two jobs overlap on a document, COMPLETED means that exactly
\* the chunks of its present content are stored.
THEOREM FreshCorrect == Spec => []FreshUnlessContended
<1>1. Init => AloneInv /\ KnowsInv /\ ChunkInv /\ FreshUnlessContended
  BY DEF Init, AloneInv, KnowsInv, Uncontended, Busy, ChunkInv, DeletedLeavesNothing,
         CompletedIsSearchable, FreshUnlessContended
<1>2. QED
  BY <1>1, TypeInit, TypeStep, AloneStep, KnowsStep, ChunkStep, FreshStep, PTL DEF Spec

LEMMA OneChunkSetStep ==
  TypeInv /\ KnowsInv /\ OneChunkSetUnlessContended /\ [Next]_vars
  => OneChunkSetUnlessContended'
<1> SUFFICES ASSUME TypeInv, KnowsInv, OneChunkSetUnlessContended, [Next]_vars,
                    NEW ch1 \in chunks', NEW ch2 \in chunks',
                    ch1.doc = ch2.doc, ch1.doc \notin contended'
             PROVE  ch1 = ch2
  BY DEF OneChunkSetUnlessContended
<1> DEFINE e == ch1.doc
<1>1. e \notin contended
  BY DEF Next, Begin, Handle, Process, Create, UpdateRead, UpdateWrite, UpdateAbort,
         Spawn, DeleteFind, DeleteRow, Lookup, Mark, Embed, Store, Throw,
         RecordFailure, Crash, Rest, Contend, vars
<1>2. CASE chunks' \subseteq chunks
  BY <1>1, <1>2 DEF OneChunkSetUnlessContended
<1>3. ASSUME NEW q \in Job, Store(q) PROVE ch1 = ch2
  <2> DEFINE ch == [doc |-> target[q], by |-> q, text |-> text[q]]
  <2>1. chunks' = chunks \cup {ch} /\ Live(target[q])
    BY <1>3 DEF Store, CanStore
  <2>2. CASE e # target[q]
    BY <1>1, <2>1, <2>2 DEF OneChunkSetUnlessContended
  <2>3. CASE e = target[q]
    <3>1. ChunksOf(e) = {}
      BY <1>1, <1>3, <2>1, <2>3 DEF Store, Uncontended, Busy, KnowsInv, Knows
    <3>2. QED
      BY <2>1, <2>3, <3>1 DEF ChunksOf
  <2>4. QED
    BY <2>2, <2>3
<1>4. QED
  BY RowSteps, <1>2, <1>3
     DEF RowStep, rowVars, Create, UpdateWrite, DeleteRow, Mark, DropChunks, RecordFailure

\* The chunks of two runs stand side by side only where jobs have overlapped on
\* the document, whatever its status.
THEOREM OneChunkSetCorrect == Spec => []OneChunkSetUnlessContended
<1>1. Init => AloneInv /\ KnowsInv /\ OneChunkSetUnlessContended
  BY DEF Init, AloneInv, KnowsInv, Uncontended, Busy, OneChunkSetUnlessContended
<1>2. QED
  BY <1>1, TypeInit, TypeStep, AloneStep, KnowsStep, OneChunkSetStep, PTL DEF Spec

\* The inductive invariant that the runs check as well: the parts of it that
\* are proved above, together.
THEOREM Invariance == Spec => []IInv
<1>1. Init => AloneInv /\ KnowsInv /\ ChunkInv /\ FreshUnlessContended
  BY DEF Init, AloneInv, KnowsInv, Uncontended, Busy, ChunkInv, DeletedLeavesNothing,
         CompletedIsSearchable, FreshUnlessContended
<1>2. TypeInv /\ AloneInv /\ KnowsInv /\ ChunkInv /\ FreshUnlessContended => IInv
  BY DEF TypeInv, AloneInv, KnowsInv, ChunkInv, IInv
<1>3. QED
  BY <1>1, <1>2, TypeInit, TypeStep, AloneStep, KnowsStep, ChunkStep, FreshStep, PTL DEF Spec

-----------------------------------------------------------------------------
(* The life cycle.                                                         *)

\* What a step may do to a kept, uncontended document.
LifeCycleOf(e) ==
  /\ status'[e] # status[e] => <<status[e], status'[e]>> \in LifeCycle
  /\ content'[e] # content[e] => status'[e] = "PENDING"
  /\ status[e] # "PENDING" /\ status'[e] = "PENDING" => content'[e] # content[e]

LEMMA LifeCycleStep ==
  ASSUME TypeInv, KnowsInv, [Next]_vars, NEW e \in Doc, e \notin contended', Kept(e)
  PROVE  LifeCycleOf(e)
<1>1. e \notin contended
  BY DEF Next, Begin, Handle, Process, Create, UpdateRead, UpdateWrite, UpdateAbort,
         Spawn, DeleteFind, DeleteRow, Lookup, Mark, Embed, Store, Throw,
         RecordFailure, Crash, Rest, Contend, vars
<1> USE DEF TypeInv, TypeOK, Kept, Live, ProcessingStatus, LifeCycle, EntityMoves, LifeCycleOf
<1>2. SUFFICES ASSUME NEW q \in Job, RowStep(q) PROVE LifeCycleOf(e)
  BY RowSteps DEF rowVars
<1>3. CASE UpdateWrite(q)
  <2>1. CASE target[q] # e
    BY <1>3, <2>1 DEF UpdateWrite
  <2>2. CASE target[q] = e
    <3>1. Uncontended(q) /\ pc[q] = "write"
      BY <1>1, <1>3, <2>2 DEF UpdateWrite, Uncontended, Busy
    <3>2. reprocess[q] <=> text[q] # content[e]
      BY <2>2, <3>1 DEF KnowsInv, Knows
    <3>3. content'[e] = text[q] /\ status'[e] = StatusAfterWrite(q, e)
      BY <1>3, <2>2 DEF UpdateWrite
    <3>4. QED
      BY <3>2, <3>3 DEF StatusAfterWrite
  <2>3. QED
    BY <2>1, <2>2
<1>4. CASE Mark(q)
  <2>1. content'[e] = content[e]
    BY <1>4 DEF Mark
  <2>2. CASE target[q] # e
    BY <1>4, <2>1, <2>2 DEF Mark
  <2>3. CASE target[q] = e
    <3>1. status'[e] = "PROCESSING" /\ Uncontended(q) /\ pc[q] = "mark"
      BY <1>1, <1>4, <2>3 DEF Mark, MarkedAs, Uncontended, Busy
    <3>2. QED
      BY <2>1, <2>3, <3>1 DEF KnowsInv, Knows
  <2>4. QED
    BY <2>2, <2>3
<1>5. CASE Store(q)
  <2>1. content'[e] = content[e]
    BY <1>5 DEF Store
  <2>2. CASE target[q] # e
    BY <1>5, <2>1, <2>2 DEF Store
  <2>3. CASE target[q] = e
    <3>1. status'[e] = "COMPLETED" /\ Uncontended(q) /\ pc[q] = "store"
      BY <1>1, <1>5, <2>3 DEF Store, CanStore, Uncontended, Busy
    <3>2. QED
      BY <2>1, <2>3, <3>1 DEF KnowsInv, Knows
  <2>4. QED
    BY <2>2, <2>3
<1>6. CASE RecordFailure(q)
  <2>1. content'[e] = content[e]
    BY <1>6 DEF RecordFailure
  <2>2. CASE status'[e] = status[e]
    BY <2>1, <2>2
  <2>3. CASE status'[e] # status[e]
    <3>1. e = target[q] /\ status'[e] = "FAILED" /\ Uncontended(q) /\ pc[q] = "fail"
      BY <1>1, <1>6, <2>3 DEF RecordFailure, Uncontended, Busy
    <3>2. QED
      BY <2>1, <3>1 DEF KnowsInv, Knows
  <2>4. QED
    BY <2>2, <2>3
<1>7. CASE DeleteRow(q)
  BY <1>7 DEF DeleteRow, rowVars
<1>8. CASE \E d \in Doc, c \in Text : Create(q, d, c)
  BY <1>8 DEF Create
<1>9. QED
  BY <1>2, <1>3, <1>4, <1>5, <1>6, <1>7, <1>8 DEF RowStep

\* An uncontended document changes status only by the service's own moves, and
\* goes back to PENDING exactly when an update changes its content.
THEOREM LifeCycleCorrect == Spec => LifeCycleUnlessContended
<1>1. Init => AloneInv /\ KnowsInv
  BY DEF Init, AloneInv, KnowsInv, Uncontended, Busy
<1>2. TypeInv /\ KnowsInv /\ [Next]_vars => [FollowsLifeCycle]_vars
  BY LifeCycleStep DEF FollowsLifeCycle, LifeCycleOf
<1>3. QED
  BY <1>1, <1>2, TypeInit, TypeStep, AloneStep, KnowsStep, PTL
     DEF Spec, LifeCycleUnlessContended

-----------------------------------------------------------------------------
(* Unfinished documents.                                                   *)

Owes(q) == pc[q] \in (Busy \ {"write"}) \cup {"lost", "swallowed"}

LEMMA OwedStep == TypeInv /\ UnfinishedIsOwed /\ [Next]_vars => UnfinishedIsOwed'
<1> SUFFICES ASSUME TypeInv, UnfinishedIsOwed, [Next]_vars,
                    NEW e \in Doc, status'[e] \in {"PENDING", "PROCESSING"}
             PROVE  \E p \in Job : target'[p] = e /\ Owes(p)'
  BY DEF UnfinishedIsOwed, Owes
<1> USE DEF TypeInv, TypeOK, Owes, Busy
<1>1. status[e] \in {"PENDING", "PROCESSING"} => \E p \in Job : target[p] = e /\ Owes(p)
  BY DEF UnfinishedIsOwed
<1>2. ASSUME NEW q \in Job, NEW d \in Doc, NEW c \in Text, Create(q, d, c)
      PROVE  \E p \in Job : target'[p] = e /\ Owes(p)'
  BY <1>1, <1>2 DEF Create, Goto
<1>3. ASSUME NEW q \in Job, NEW d \in Doc, NEW c \in Text, UpdateRead(q, d, c)
      PROVE  \E p \in Job : target'[p] = e /\ Owes(p)'
  BY <1>1, <1>3 DEF UpdateRead, Goto, rowVars
<1>4. ASSUME NEW q \in Job, NEW d \in Doc, DeleteFind(q, d)
      PROVE  \E p \in Job : target'[p] = e /\ Owes(p)'
  BY <1>1, <1>4 DEF DeleteFind, Goto, rowVars
<1>5. ASSUME NEW q \in Job, UpdateWrite(q) \/ UpdateAbort(q) \/ DeleteRow(q)
      PROVE  \E p \in Job : target'[p] = e /\ Owes(p)'
  <2>1. CASE UpdateWrite(q)
    BY <1>1, <2>1 DEF UpdateWrite, Goto
  <2>2. CASE UpdateAbort(q)
    BY <1>1, <2>2 DEF UpdateAbort, Goto, rowVars
  <2>3. CASE DeleteRow(q)
    BY <1>1, <2>3 DEF DeleteRow, Goto, rowVars
  <2>4. QED
    BY <1>5, <2>1, <2>2, <2>3
<1>6. ASSUME NEW q \in Job, Spawn(q) \/ Embed(q) \/ Throw(q) \/ Lookup(q)
      PROVE  \E p \in Job : target'[p] = e /\ Owes(p)'
  <2>1. CASE Spawn(q) \/ Embed(q) \/ Throw(q)
    BY <1>1, <2>1 DEF Spawn, Embed, Throw, Goto, rowVars
  <2>2. CASE Lookup(q)
    BY <1>1, <2>2 DEF Lookup, Goto, rowVars, Live, ProcessingStatus
  <2>3. QED
    BY <1>6, <2>1, <2>2
<1>7. ASSUME NEW q \in Job, Mark(q)
      PROVE  \E p \in Job : target'[p] = e /\ Owes(p)'
  BY <1>1, <1>7 DEF Mark, Goto
<1>8. ASSUME NEW q \in Job, Store(q)
      PROVE  \E p \in Job : target'[p] = e /\ Owes(p)'
  BY <1>1, <1>8 DEF Store, CanStore, Goto
<1>9. ASSUME NEW q \in Job, RecordFailure(q)
      PROVE  \E p \in Job : target'[p] = e /\ Owes(p)'
  BY <1>1, <1>9 DEF RecordFailure, Goto
<1>10. CASE Crash
  BY <1>1, <1>10 DEF Crash, Ended, rowVars
<1>11. CASE UNCHANGED vars
  BY <1>1, <1>11 DEF vars, rowVars, jobVars
<1>12. QED
  BY <1>2, <1>3, <1>4, <1>5, <1>6, <1>7, <1>8, <1>9, <1>10, <1>11
     DEF Next, Begin, Handle, Process, Rest

\* A document left PENDING or PROCESSING is some job's to finish, unless that
\* job died with the server or could not write FAILED.
THEOREM OwedCorrect == Spec => []UnfinishedIsOwed
<1>1. Init => UnfinishedIsOwed
  BY DEF Init, UnfinishedIsOwed
<1>2. QED
  BY <1>1, TypeInit, TypeStep, OwedStep, PTL DEF Spec

=============================================================================
