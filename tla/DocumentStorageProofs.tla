------------------------ MODULE DocumentStorageProofs ------------------------
(* Theorems about DocumentStorage, for all requests, sizes, limits, failures *)
(* and crashes.  Sizes are added up by counting bytes: the files of two      *)
(* disjoint sets have disjoint bytes.                                        *)
EXTENDS DocumentStorage, FiniteSetTheorems, TLAPS

-----------------------------------------------------------------------------
(* Counting.                                                                 *)

LEMMA BytesFinite ==
  ASSUME NEW D \in SUBSET Request
  PROVE  IsFiniteSet(D) /\ IsFiniteSet(Bytes(D)) /\ Usage(D) \in Nat
<1>1. IsFiniteSet(D)
  BY FS_Subset, ConstantsAssumption
<1>2. IsFiniteSet(1..MaxFileSize)
  BY FS_Interval, ConstantsAssumption
<1>3. IsFiniteSet(D \X (1..MaxFileSize))
  BY <1>1, <1>2, FS_Product
<1>4. Bytes(D) \in SUBSET (D \X (1..MaxFileSize))
  BY DEF Bytes
<1>5. IsFiniteSet(Bytes(D))
  BY <1>3, <1>4, FS_Subset
<1> QED
  BY <1>1, <1>5, FS_CardinalityType DEF Usage

LEMMA UsageGrows ==
  ASSUME NEW E \in SUBSET Request, NEW D \in SUBSET E
  PROVE  Usage(D) <= Usage(E)
<1>1. Bytes(D) \in SUBSET Bytes(E)
  BY DEF Bytes
<1> QED
  BY <1>1, BytesFinite, FS_Subset DEF Usage

\* A file of s bytes has at most s of them.
LEMMA OneFile ==
  ASSUME NEW q \in Request, size[q] \in 0..MaxFileSize
  PROVE  Usage({q}) <= size[q]
<1> DEFINE f == [i \in 1..size[q] |-> <<q, i>>]
<1>1. f \in Surjection(1..size[q], Bytes({q}))
  <2>1. \A i \in 1..size[q] : f[i] \in Bytes({q})
    BY ConstantsAssumption DEF Bytes
  <2>2. ASSUME NEW b \in Bytes({q}) PROVE b[2] \in 1..size[q] /\ f[b[2]] = b
    <3>1. b \in {q} \X (1..MaxFileSize) /\ b[2] <= size[b[1]]
      BY DEF Bytes
    <3>2. b = <<q, b[2]>> /\ b[1] = q /\ b[2] \in 1..MaxFileSize
      BY <3>1
    <3>3. b[2] \in 1..size[q]
      BY <3>1, <3>2, ConstantsAssumption
    <3> QED
      BY <3>2, <3>3
  <2> QED
    BY <2>1, <2>2 DEF Surjection
<1>2. IsFiniteSet(1..size[q]) /\ Cardinality(1..size[q]) = size[q]
  <2>1. 1 \in Int /\ size[q] \in Int /\ size[q] >= 0
    BY ConstantsAssumption
  <2> HIDE DEF f
  <2>2. /\ IsFiniteSet(1..size[q])
        /\ Cardinality(1..size[q]) = IF 1 > size[q] THEN 0 ELSE size[q] - 1 + 1
    BY <2>1, FS_Interval
  <2> QED
    BY <2>1, <2>2
<1> QED
  BY <1>1, <1>2, FS_Surjection DEF Usage

LEMMA UsageAdds ==
  ASSUME NEW D \in SUBSET Request, NEW q \in Request, size[q] \in 0..MaxFileSize
  PROVE  Usage(D \cup {q}) <= Usage(D) + size[q]
<1>1. Bytes(D \cup {q}) = Bytes(D) \cup Bytes({q})
  BY DEF Bytes
<1>2. IsFiniteSet(Bytes(D)) /\ IsFiniteSet(Bytes({q}))
  BY BytesFinite
<1>3. Cardinality(Bytes(D) \cap Bytes({q})) \in Nat
  BY <1>2, FS_Intersection, FS_CardinalityType
<1>4. Usage(D \cup {q}) = Usage(D) + Usage({q}) - Cardinality(Bytes(D) \cap Bytes({q}))
  BY <1>1, <1>2, FS_Union DEF Usage
<1> QED
  BY <1>3, <1>4, OneFile, BytesFinite, ConstantsAssumption

LEMMA FewerFiles ==
  ASSUME NEW E \in SUBSET Request, NEW D \in SUBSET E
  PROVE  /\ Cardinality(D) \in Nat /\ Cardinality(E) \in Nat
         /\ Cardinality(D) <= Cardinality(E)
<1>1. IsFiniteSet(E) /\ IsFiniteSet(D)
  BY BytesFinite
<1>2. Cardinality(D) \in Nat /\ Cardinality(E) \in Nat
  BY <1>1, FS_CardinalityType
<1> QED
  BY <1>1, <1>2, FS_Subset

LEMMA OneMoreFile ==
  ASSUME NEW D \in SUBSET Request, NEW q \in Request
  PROVE  Cardinality(D \cup {q}) <= Cardinality(D) + 1 /\ Cardinality(D) \in Nat
<1>1. IsFiniteSet(D)
  BY BytesFinite
<1>2. Cardinality(D) \in Nat
  BY <1>1, FS_CardinalityType
<1>3. Cardinality(D \cup {q}) = IF q \in D THEN Cardinality(D) ELSE Cardinality(D) + 1
  BY <1>1, FS_AddElement
<1> QED
  BY <1>2, <1>3

LEMMA FilesType ==
  ASSUME TypeOK
  PROVE  /\ Files \in SUBSET Request
         /\ \A q \in Request : HasFile(q) => size[q] \in 0..MaxFileSize
  BY DEF TypeOK, Files, HasFile

-----------------------------------------------------------------------------
(* What most steps leave alone.                                              *)

\* Files may go, windows may close, and nothing else about the limits changes.
LEMMA LimitsFrame ==
  ASSUME IInv, UNCHANGED <<size, raced>>, Files' \subseteq Files,
         Windows' \subseteq Windows,
         \A q \in Windows' : pc'[q] # "count" =>
           pc[q] # "count" \/ Cardinality(Files) < MaxDocuments
  PROVE  RoomOK' /\ UnracedFilesFit' /\ UnracedFilesCounted'
<1> DEFINE F == Files'
<1>1. F \in SUBSET Files /\ Files \in SUBSET Request
  BY FilesType DEF IInv
<1>2. Usage(F) <= Usage(Files) /\ Usage(F) \in Nat /\ Usage(Files) \in Nat
  BY <1>1, UsageGrows, BytesFinite
<1>3. Usage(F \ raced) <= Usage(Files \ raced) /\ Usage(F \ raced) \in Nat
      /\ Usage(Files \ raced) \in Nat
  BY <1>1, UsageGrows, BytesFinite
<1>4. Cardinality(F) \in Nat /\ Cardinality(Files) \in Nat /\ Cardinality(F) <= Cardinality(Files)
  BY <1>1, FewerFiles
<1>5. /\ Cardinality(F \ raced) \in Nat /\ Cardinality(Files \ raced) \in Nat
      /\ Cardinality(F \ raced) <= Cardinality(Files \ raced)
  BY <1>1, FewerFiles
<1>6. Usage(Files)' = Usage(F) /\ Usage(Files \ raced)' = Usage(F \ raced)
  BY DEF Usage, Bytes
<1>7. Cardinality(Files)' = Cardinality(F) /\ Cardinality(Files \ raced)' = Cardinality(F \ raced)
  OBVIOUS
<1> HIDE DEF F
<1>8. \A q \in Windows : size[q] \in Nat
  BY FilesType, ConstantsAssumption DEF IInv, Windows
<1>9. UnracedFilesFit'
  BY <1>3, <1>6, ConstantsAssumption DEF IInv, UnracedFilesFit
<1>10. UnracedFilesCounted'
  BY <1>5, <1>7, ConstantsAssumption DEF IInv, UnracedFilesCounted
<1>11. ASSUME NEW q \in Windows' \ raced
       PROVE  /\ Usage(Files)' + size[q] <= MaxStorage
              /\ pc'[q] # "count" => Cardinality(Files)' < MaxDocuments
  <2>1. q \in Windows \ raced
    BY <1>11
  <2>2. Usage(Files) + size[q] <= MaxStorage /\ (pc[q] # "count" => Cardinality(Files) < MaxDocuments)
    BY <2>1 DEF IInv, RoomOK
  <2>3. Usage(Files)' + size[q] <= MaxStorage
    BY <1>2, <1>6, <1>8, <2>1, <2>2, ConstantsAssumption
  <2>4. pc'[q] # "count" => Cardinality(Files)' < MaxDocuments
    BY <1>4, <1>7, <1>11, <2>2, ConstantsAssumption
  <2> QED
    BY <2>3, <2>4
<1>12. RoomOK'
  BY <1>11 DEF IInv, RoomOK
<1> QED
  BY <1>9, <1>10, <1>12

-----------------------------------------------------------------------------
(* One lemma per action.                                                     *)

LEMMA CreateTextStep ==
  ASSUME IInv, NEW q \in Request, CreateText(q)
  PROVE  IInv'
<1>1. TypeOK'
  BY ConstantsAssumption DEF IInv, TypeOK, ProgressOK, DeletionsOK, PC, Uploading, CreateText, Goto, HasFile
<1>2. ProgressOK'
  BY ConstantsAssumption DEF IInv, TypeOK, ProgressOK, DeletionsOK, CreateText, Goto, HasFile
<1>3. DeletionsOK'
  BY ConstantsAssumption DEF IInv, TypeOK, ProgressOK, DeletionsOK, CreateText, Goto, HasFile
<1>4. RoomOK' /\ UnracedFilesFit' /\ UnracedFilesCounted'
  BY LimitsFrame, ConstantsAssumption DEF Windows, Files, Uploading, HasFile, CreateText, Goto, IInv, TypeOK, ProgressOK
<1>5. FilesAreStored'
  BY ConstantsAssumption DEF IInv, TypeOK, ProgressOK, DeletionsOK, FilesAreStored, Files, CreateText, Goto, HasFile
<1>6. OrphansAreAbandoned'
  BY ConstantsAssumption DEF IInv, TypeOK, ProgressOK, DeletionsOK, OrphansAreAbandoned, Files, CreateText, Goto, HasFile
<1> QED
  BY <1>1, <1>2, <1>3, <1>4, <1>5, <1>6 DEF IInv

LEMMA CheckStorageStep ==
  ASSUME IInv, NEW q \in Request, NEW s \in Sizes, CheckStorage(q, s)
  PROVE  IInv'
<1>1. TypeOK'
  <2>1. s \in 0..MaxFileSize
    BY ConstantsAssumption DEF CheckStorage, SmallEnough
  <2>2. raced' \subseteq Request
    BY DEF CheckStorage, Windows, IInv, TypeOK
  <2> QED
    BY <2>1, <2>2 DEF IInv, TypeOK, CheckStorage, Goto, PC, Uploading
<1>2. ProgressOK'
  BY ConstantsAssumption DEF IInv, TypeOK, ProgressOK, DeletionsOK, CheckStorage, Goto, Fits, HasFile
<1>3. DeletionsOK'
  BY ConstantsAssumption DEF IInv, TypeOK, ProgressOK, DeletionsOK, CheckStorage, Goto, Fits, HasFile
<1>4. RoomOK' /\ UnracedFilesFit' /\ UnracedFilesCounted'
  <2>1. /\ size[q] = Null /\ q \notin rows /\ size'[q] = s /\ s \in 0..MaxFileSize
        /\ \A p \in Request : p # q => size'[p] = size[p] /\ pc'[p] = pc[p]
        /\ pc[q] = "free" /\ pc'[q] = "count"
    BY ConstantsAssumption DEF IInv, TypeOK, ProgressOK, CheckStorage, SmallEnough, Goto, HasFile
  <2>2. Files' = Files /\ Windows' = Windows \cup {q} /\ q \notin Windows
    BY <2>1, ConstantsAssumption DEF IInv, TypeOK, Files, Windows, HasFile, Uploading, CheckStorage
  <2>3. Files \in SUBSET Request /\ q \notin Files
    BY <2>1, FilesType DEF IInv, Files
  <2>4. \A D \in SUBSET Files :
          {b \in D \X (1..MaxFileSize) : b[2] <= size'[b[1]]} = Bytes(D)
    BY <2>1, <2>3 DEF Bytes
  <2>5. Usage(Files)' = Usage(Files) /\ Usage(Files \ raced)' = Usage(Files \ raced')
    <3>1. Usage(Files)' = Cardinality({b \in Files \X (1..MaxFileSize) : b[2] <= size'[b[1]]})
      BY <2>2 DEF Usage, Bytes
    <3>2. Usage(Files \ raced)' =
            Cardinality({b \in (Files \ raced') \X (1..MaxFileSize) : b[2] <= size'[b[1]]})
      BY <2>2 DEF Usage, Bytes
    <3> QED
      BY <2>4, <3>1, <3>2 DEF Usage
  <2>6. raced' = IF Windows = {} THEN raced ELSE raced \cup Windows \cup {q}
    BY DEF CheckStorage
  <2>7. /\ Usage(Files \ raced') <= Usage(Files \ raced)
        /\ Usage(Files \ raced') \in Nat /\ Usage(Files \ raced) \in Nat
    BY <2>3, <2>6, UsageGrows, BytesFinite
  <2>8. /\ Cardinality(Files \ raced') <= Cardinality(Files \ raced)
        /\ Cardinality(Files \ raced') \in Nat /\ Cardinality(Files \ raced) \in Nat
    BY <2>3, <2>6, FewerFiles
  <2>9. UnracedFilesFit'
    BY <2>5, <2>7, ConstantsAssumption DEF IInv, UnracedFilesFit
  <2>10. UnracedFilesCounted'
    BY <2>2, <2>8, ConstantsAssumption DEF IInv, UnracedFilesCounted
  <2>11. RoomOK'
    <3>1. CASE Windows = {}
      <4>1. Windows' = {q}
        BY <2>2, <3>1
      <4>2. Usage(Files)' + size'[q] <= MaxStorage
        BY <2>1, <2>5 DEF CheckStorage, Fits
      <4> QED
        BY <2>1, <4>1, <4>2 DEF RoomOK
    <3>2. CASE Windows # {}
      <4>1. Windows' \subseteq raced'
        BY <2>2, <2>6, <3>2
      <4> QED
        BY <4>1 DEF RoomOK
    <3> QED
      BY <3>1, <3>2
  <2> QED
    BY <2>9, <2>10, <2>11
<1>5. FilesAreStored'
  BY ConstantsAssumption DEF IInv, TypeOK, ProgressOK, DeletionsOK, FilesAreStored, Files, CheckStorage, Goto, Fits, HasFile
<1>6. OrphansAreAbandoned'
  BY ConstantsAssumption DEF IInv, TypeOK, ProgressOK, DeletionsOK, OrphansAreAbandoned, Files, CheckStorage, Goto, Fits, HasFile
<1> QED
  BY <1>1, <1>2, <1>3, <1>4, <1>5, <1>6 DEF IInv

LEMMA CheckDocumentsStep ==
  ASSUME IInv, NEW q \in Request, CheckDocuments(q)
  PROVE  IInv'
<1>1. TypeOK'
  BY ConstantsAssumption DEF IInv, TypeOK, ProgressOK, DeletionsOK, PC, Uploading, CheckDocuments, Goto, RoomFor, HasFile
<1>2. ProgressOK'
  BY ConstantsAssumption DEF IInv, TypeOK, ProgressOK, DeletionsOK, CheckDocuments, Goto, RoomFor, HasFile
<1>3. DeletionsOK'
  BY ConstantsAssumption DEF IInv, TypeOK, ProgressOK, DeletionsOK, CheckDocuments, Goto, RoomFor, HasFile
<1>4. RoomOK' /\ UnracedFilesFit' /\ UnracedFilesCounted'
  <2>1. Cardinality(Files) <= Cardinality(rows)
        /\ Cardinality(Files) \in Nat /\ Cardinality(rows) \in Nat
    BY FewerFiles DEF IInv, TypeOK, Files
  <2>2. Files' \subseteq Files /\ Windows' \subseteq Windows
    BY DEF IInv, TypeOK, ProgressOK, CheckDocuments, Goto, Files, Windows, Uploading, HasFile
  <2>3. \A p \in Windows' : pc'[p] # "count" =>
          pc[p] # "count" \/ Cardinality(Files) < MaxDocuments
    BY <2>1, ConstantsAssumption DEF IInv, TypeOK, CheckDocuments, Goto, RoomFor, Windows, Uploading
  <2> QED
    BY <2>2, <2>3, LimitsFrame DEF CheckDocuments
<1>5. FilesAreStored'
  BY ConstantsAssumption DEF IInv, TypeOK, ProgressOK, DeletionsOK, FilesAreStored, Files, CheckDocuments, Goto, RoomFor, HasFile
<1>6. OrphansAreAbandoned'
  BY ConstantsAssumption DEF IInv, TypeOK, ProgressOK, DeletionsOK, OrphansAreAbandoned, Files, CheckDocuments, Goto, RoomFor, HasFile
<1> QED
  BY <1>1, <1>2, <1>3, <1>4, <1>5, <1>6 DEF IInv

LEMMA UploadStep ==
  ASSUME IInv, NEW q \in Request, Upload(q)
  PROVE  IInv'
<1>1. TypeOK'
  BY ConstantsAssumption DEF IInv, TypeOK, ProgressOK, DeletionsOK, PC, Uploading, Upload, Goto, Uploaded, HasFile
<1>2. ProgressOK'
  BY ConstantsAssumption DEF IInv, TypeOK, ProgressOK, DeletionsOK, Upload, Goto, Uploaded, HasFile
<1>3. DeletionsOK'
  BY ConstantsAssumption DEF IInv, TypeOK, ProgressOK, DeletionsOK, Upload, Goto, Uploaded, HasFile
<1>4. RoomOK' /\ UnracedFilesFit' /\ UnracedFilesCounted'
  BY LimitsFrame, ConstantsAssumption DEF Windows, Files, Uploading, HasFile, Upload, Goto, Uploaded, IInv, TypeOK, ProgressOK
<1>5. FilesAreStored'
  BY ConstantsAssumption DEF IInv, TypeOK, ProgressOK, DeletionsOK, FilesAreStored, Files, Upload, Goto, Uploaded, HasFile
<1>6. OrphansAreAbandoned'
  BY ConstantsAssumption DEF IInv, TypeOK, ProgressOK, DeletionsOK, OrphansAreAbandoned, Files, Upload, Goto, Uploaded, HasFile
<1> QED
  BY <1>1, <1>2, <1>3, <1>4, <1>5, <1>6 DEF IInv

LEMMA UploadFailsStep ==
  ASSUME IInv, NEW q \in Request, UploadFails(q)
  PROVE  IInv'
<1>1. TypeOK'
  BY ConstantsAssumption DEF IInv, TypeOK, ProgressOK, DeletionsOK, PC, Uploading, UploadFails, Goto, HasFile
<1>2. ProgressOK'
  BY ConstantsAssumption DEF IInv, TypeOK, ProgressOK, DeletionsOK, UploadFails, Goto, HasFile
<1>3. DeletionsOK'
  BY ConstantsAssumption DEF IInv, TypeOK, ProgressOK, DeletionsOK, UploadFails, Goto, HasFile
<1>4. RoomOK' /\ UnracedFilesFit' /\ UnracedFilesCounted'
  BY LimitsFrame, ConstantsAssumption DEF Windows, Files, Uploading, HasFile, UploadFails, Goto, IInv, TypeOK, ProgressOK
<1>5. FilesAreStored'
  BY ConstantsAssumption DEF IInv, TypeOK, ProgressOK, DeletionsOK, FilesAreStored, Files, UploadFails, Goto, HasFile
<1>6. OrphansAreAbandoned'
  BY ConstantsAssumption DEF IInv, TypeOK, ProgressOK, DeletionsOK, OrphansAreAbandoned, Files, UploadFails, Goto, HasFile
<1> QED
  BY <1>1, <1>2, <1>3, <1>4, <1>5, <1>6 DEF IInv

LEMMA ParseStep ==
  ASSUME IInv, NEW q \in Request, Parse(q)
  PROVE  IInv'
<1>1. TypeOK'
  BY ConstantsAssumption DEF IInv, TypeOK, ProgressOK, DeletionsOK, PC, Uploading, Parse, Goto, HasFile
<1>2. ProgressOK'
  BY ConstantsAssumption DEF IInv, TypeOK, ProgressOK, DeletionsOK, Parse, Goto, HasFile
<1>3. DeletionsOK'
  BY ConstantsAssumption DEF IInv, TypeOK, ProgressOK, DeletionsOK, Parse, Goto, HasFile
<1>4. RoomOK' /\ UnracedFilesFit' /\ UnracedFilesCounted'
  BY LimitsFrame, ConstantsAssumption DEF Windows, Files, Uploading, HasFile, Parse, Goto, IInv, TypeOK, ProgressOK
<1>5. FilesAreStored'
  BY ConstantsAssumption DEF IInv, TypeOK, ProgressOK, DeletionsOK, FilesAreStored, Files, Parse, Goto, HasFile
<1>6. OrphansAreAbandoned'
  BY ConstantsAssumption DEF IInv, TypeOK, ProgressOK, DeletionsOK, OrphansAreAbandoned, Files, Parse, Goto, HasFile
<1> QED
  BY <1>1, <1>2, <1>3, <1>4, <1>5, <1>6 DEF IInv

LEMMA InsertStep ==
  ASSUME IInv, NEW q \in Request, Insert(q)
  PROVE  IInv'
<1>1. TypeOK'
  BY ConstantsAssumption DEF IInv, TypeOK, ProgressOK, DeletionsOK, PC, Uploading, Insert, Goto, HasFile
<1>2. ProgressOK'
  BY ConstantsAssumption DEF IInv, TypeOK, ProgressOK, DeletionsOK, Insert, Goto, HasFile
<1>3. DeletionsOK'
  BY ConstantsAssumption DEF IInv, TypeOK, ProgressOK, DeletionsOK, Insert, Goto, HasFile
<1>4. RoomOK' /\ UnracedFilesFit' /\ UnracedFilesCounted'
  <2>1. /\ UNCHANGED <<size, raced>> /\ Windows' = Windows \ {q} /\ pc[q] = "insert"
        /\ \A p \in Windows' : pc'[p] = pc[p]
    BY DEF IInv, TypeOK, Insert, Goto, Windows, Uploading, HasFile
  <2>2. CASE ~HasFile(q)
    <3>1. Files' = Files
      BY <2>1, <2>2 DEF Insert, Files, HasFile
    <3> QED
      BY <2>1, <3>1, LimitsFrame
  <2>3. CASE HasFile(q)
    <3>1. Files' = Files \cup {q} /\ q \in Windows /\ size[q] \in 0..MaxFileSize
      BY <2>1, <2>3, FilesType DEF IInv, Insert, Files, HasFile, Windows, Uploading
    <3>2. Files \in SUBSET Request
      BY FilesType DEF IInv
    <3>3. Windows' \subseteq raced'
      BY <2>1, <3>1 DEF IInv, RoomOK
    <3>4. RoomOK'
      BY <3>3 DEF RoomOK
    <3>5. CASE q \in raced
      <4>1. Files' \ raced' = Files \ raced
        BY <2>1, <3>1, <3>5
      <4>2. Usage(Files \ raced)' = Usage(Files \ raced)
        BY <2>1, <4>1 DEF Usage, Bytes
      <4> QED
        BY <3>4, <4>1, <4>2 DEF IInv, UnracedFilesFit, UnracedFilesCounted
    <3>6. CASE q \notin raced
      <4>1. Usage(Files) + size[q] <= MaxStorage /\ Cardinality(Files) < MaxDocuments
        BY <2>1, <3>1, <3>6 DEF IInv, RoomOK
      <4>2. Usage(Files \ raced)' = Usage((Files \cup {q}) \ raced)
        BY <2>1, <3>1 DEF Usage, Bytes
      <4>3. /\ Usage((Files \cup {q}) \ raced) <= Usage(Files \cup {q})
            /\ Usage(Files \cup {q}) <= Usage(Files) + size[q]
            /\ Usage((Files \cup {q}) \ raced) \in Nat /\ Usage(Files \cup {q}) \in Nat
            /\ Usage(Files) \in Nat
        BY <3>1, <3>2, UsageGrows, UsageAdds, BytesFinite
      <4>4. UnracedFilesFit'
        BY <3>1, <4>1, <4>2, <4>3, ConstantsAssumption DEF UnracedFilesFit
      <4>5. Files' \ raced' \in SUBSET (Files \cup {q})
        BY <2>1, <3>1
      <4>6. /\ Cardinality(Files' \ raced') <= Cardinality(Files \cup {q})
            /\ Cardinality(Files' \ raced') \in Nat /\ Cardinality(Files \cup {q}) \in Nat
        BY <3>2, <4>5, FewerFiles
      <4>7. Cardinality(Files \cup {q}) <= Cardinality(Files) + 1 /\ Cardinality(Files) \in Nat
        BY <3>2, OneMoreFile
      <4>8. UnracedFilesCounted'
        BY <4>1, <4>6, <4>7, ConstantsAssumption DEF UnracedFilesCounted
      <4> QED
        BY <3>4, <4>4, <4>8
    <3> QED
      BY <3>5, <3>6
  <2> QED
    BY <2>2, <2>3
<1>5. FilesAreStored'
  BY ConstantsAssumption DEF IInv, TypeOK, ProgressOK, DeletionsOK, FilesAreStored, Files, Insert, Goto, HasFile
<1>6. OrphansAreAbandoned'
  BY ConstantsAssumption DEF IInv, TypeOK, ProgressOK, DeletionsOK, OrphansAreAbandoned, Files, Insert, Goto, HasFile
<1> QED
  BY <1>1, <1>2, <1>3, <1>4, <1>5, <1>6 DEF IInv

LEMMA CreateFailsStep ==
  ASSUME IInv, NEW q \in Request, CreateFails(q)
  PROVE  IInv'
<1>1. TypeOK'
  BY ConstantsAssumption DEF IInv, TypeOK, ProgressOK, DeletionsOK, PC, Uploading, CreateFails, Goto, HasFile
<1>2. ProgressOK'
  BY ConstantsAssumption DEF IInv, TypeOK, ProgressOK, DeletionsOK, CreateFails, Goto, HasFile
<1>3. DeletionsOK'
  BY ConstantsAssumption DEF IInv, TypeOK, ProgressOK, DeletionsOK, CreateFails, Goto, HasFile
<1>4. RoomOK' /\ UnracedFilesFit' /\ UnracedFilesCounted'
  BY LimitsFrame, ConstantsAssumption DEF Windows, Files, Uploading, HasFile, CreateFails, Goto, IInv, TypeOK, ProgressOK
<1>5. FilesAreStored'
  BY ConstantsAssumption DEF IInv, TypeOK, ProgressOK, DeletionsOK, FilesAreStored, Files, CreateFails, Goto, HasFile
<1>6. OrphansAreAbandoned'
  BY ConstantsAssumption DEF IInv, TypeOK, ProgressOK, DeletionsOK, OrphansAreAbandoned, Files, CreateFails, Goto, HasFile
<1> QED
  BY <1>1, <1>2, <1>3, <1>4, <1>5, <1>6 DEF IInv

LEMMA FindStep ==
  ASSUME IInv, NEW q \in Request, NEW d \in Request, Find(q, d)
  PROVE  IInv'
<1>1. TypeOK'
  BY ConstantsAssumption DEF IInv, TypeOK, ProgressOK, DeletionsOK, PC, Uploading, Find, Goto, AfterFind, HasFile
<1>2. ProgressOK'
  BY ConstantsAssumption DEF IInv, TypeOK, ProgressOK, DeletionsOK, Find, Goto, AfterFind, HasFile
<1>3. DeletionsOK'
  BY ConstantsAssumption DEF IInv, TypeOK, ProgressOK, DeletionsOK, Find, Goto, AfterFind, HasFile
<1>4. RoomOK' /\ UnracedFilesFit' /\ UnracedFilesCounted'
  BY LimitsFrame, ConstantsAssumption DEF Windows, Files, Uploading, HasFile, Find, Goto, AfterFind, IInv, TypeOK, ProgressOK
<1>5. FilesAreStored'
  BY ConstantsAssumption DEF IInv, TypeOK, ProgressOK, DeletionsOK, FilesAreStored, Files, Find, Goto, AfterFind, HasFile
<1>6. OrphansAreAbandoned'
  BY ConstantsAssumption DEF IInv, TypeOK, ProgressOK, DeletionsOK, OrphansAreAbandoned, Files, Find, Goto, AfterFind, HasFile
<1> QED
  BY <1>1, <1>2, <1>3, <1>4, <1>5, <1>6 DEF IInv

LEMMA RemoveStep ==
  ASSUME IInv, NEW q \in Request, Remove(q)
  PROVE  IInv'
<1>1. TypeOK'
  BY ConstantsAssumption DEF IInv, TypeOK, ProgressOK, DeletionsOK, PC, Uploading, Remove, Goto, HasFile
<1>2. ProgressOK'
  BY ConstantsAssumption DEF IInv, TypeOK, ProgressOK, DeletionsOK, Remove, Goto, HasFile
<1>3. DeletionsOK'
  BY ConstantsAssumption DEF IInv, TypeOK, ProgressOK, DeletionsOK, Remove, Goto, HasFile
<1>4. RoomOK' /\ UnracedFilesFit' /\ UnracedFilesCounted'
  BY LimitsFrame, ConstantsAssumption DEF Windows, Files, Uploading, HasFile, Remove, Goto, IInv, TypeOK, ProgressOK
<1>5. FilesAreStored'
  BY ConstantsAssumption DEF IInv, TypeOK, ProgressOK, DeletionsOK, FilesAreStored, Files, Remove, Goto, HasFile
<1>6. OrphansAreAbandoned'
  BY ConstantsAssumption DEF IInv, TypeOK, ProgressOK, DeletionsOK, OrphansAreAbandoned, Files, Remove, Goto, HasFile
<1> QED
  BY <1>1, <1>2, <1>3, <1>4, <1>5, <1>6 DEF IInv

LEMMA RemoveFailsStep ==
  ASSUME IInv, NEW q \in Request, RemoveFails(q)
  PROVE  IInv'
<1>1. TypeOK'
  BY ConstantsAssumption DEF IInv, TypeOK, ProgressOK, DeletionsOK, PC, Uploading, RemoveFails, Goto, HasFile
<1>2. ProgressOK'
  BY ConstantsAssumption DEF IInv, TypeOK, ProgressOK, DeletionsOK, RemoveFails, Goto, HasFile
<1>3. DeletionsOK'
  BY ConstantsAssumption DEF IInv, TypeOK, ProgressOK, DeletionsOK, RemoveFails, Goto, HasFile
<1>4. RoomOK' /\ UnracedFilesFit' /\ UnracedFilesCounted'
  BY LimitsFrame, ConstantsAssumption DEF Windows, Files, Uploading, HasFile, RemoveFails, Goto, IInv, TypeOK, ProgressOK
<1>5. FilesAreStored'
  BY ConstantsAssumption DEF IInv, TypeOK, ProgressOK, DeletionsOK, FilesAreStored, Files, RemoveFails, Goto, HasFile
<1>6. OrphansAreAbandoned'
  BY ConstantsAssumption DEF IInv, TypeOK, ProgressOK, DeletionsOK, OrphansAreAbandoned, Files, RemoveFails, Goto, HasFile
<1> QED
  BY <1>1, <1>2, <1>3, <1>4, <1>5, <1>6 DEF IInv

LEMMA DropStep ==
  ASSUME IInv, NEW q \in Request, Drop(q)
  PROVE  IInv'
<1>1. TypeOK'
  BY ConstantsAssumption DEF IInv, TypeOK, ProgressOK, DeletionsOK, PC, Uploading, Drop, Goto, HasFile
<1>2. ProgressOK'
  BY ConstantsAssumption DEF IInv, TypeOK, ProgressOK, DeletionsOK, Drop, Goto, HasFile
<1>3. DeletionsOK'
  BY ConstantsAssumption DEF IInv, TypeOK, ProgressOK, DeletionsOK, Drop, Goto, HasFile
<1>4. RoomOK' /\ UnracedFilesFit' /\ UnracedFilesCounted'
  BY LimitsFrame, ConstantsAssumption DEF Windows, Files, Uploading, HasFile, Drop, Goto, IInv, TypeOK, ProgressOK
<1>5. FilesAreStored'
  BY ConstantsAssumption DEF IInv, TypeOK, ProgressOK, DeletionsOK, FilesAreStored, Files, Drop, Goto, HasFile
<1>6. OrphansAreAbandoned'
  BY ConstantsAssumption DEF IInv, TypeOK, ProgressOK, DeletionsOK, OrphansAreAbandoned, Files, Drop, Goto, HasFile
<1> QED
  BY <1>1, <1>2, <1>3, <1>4, <1>5, <1>6 DEF IInv

LEMMA DropFailsStep ==
  ASSUME IInv, NEW q \in Request, DropFails(q)
  PROVE  IInv'
<1>1. TypeOK'
  BY ConstantsAssumption DEF IInv, TypeOK, ProgressOK, DeletionsOK, PC, Uploading, DropFails, Goto, HasFile
<1>2. ProgressOK'
  BY ConstantsAssumption DEF IInv, TypeOK, ProgressOK, DeletionsOK, DropFails, Goto, HasFile
<1>3. DeletionsOK'
  BY ConstantsAssumption DEF IInv, TypeOK, ProgressOK, DeletionsOK, DropFails, Goto, HasFile
<1>4. RoomOK' /\ UnracedFilesFit' /\ UnracedFilesCounted'
  BY LimitsFrame, ConstantsAssumption DEF Windows, Files, Uploading, HasFile, DropFails, Goto, IInv, TypeOK, ProgressOK
<1>5. FilesAreStored'
  BY ConstantsAssumption DEF IInv, TypeOK, ProgressOK, DeletionsOK, FilesAreStored, Files, DropFails, Goto, HasFile
<1>6. OrphansAreAbandoned'
  BY ConstantsAssumption DEF IInv, TypeOK, ProgressOK, DeletionsOK, OrphansAreAbandoned, Files, DropFails, Goto, HasFile
<1> QED
  BY <1>1, <1>2, <1>3, <1>4, <1>5, <1>6 DEF IInv

LEMMA DeleteWorkspaceStep ==
  ASSUME IInv, DeleteWorkspace
  PROVE  IInv'
<1>1. TypeOK'
  BY FilesType DEF IInv, TypeOK, DeleteWorkspace
<1>2. ProgressOK'
  BY ConstantsAssumption DEF IInv, TypeOK, ProgressOK, DeletionsOK, DeleteWorkspace, HasFile
<1>3. DeletionsOK'
  BY ConstantsAssumption DEF IInv, TypeOK, ProgressOK, DeletionsOK, DeleteWorkspace, HasFile
<1>4. RoomOK' /\ UnracedFilesFit' /\ UnracedFilesCounted'
  BY LimitsFrame, ConstantsAssumption DEF Windows, Files, Uploading, HasFile, DeleteWorkspace, IInv, TypeOK, ProgressOK
<1>5. FilesAreStored'
  BY ConstantsAssumption DEF IInv, TypeOK, ProgressOK, DeletionsOK, FilesAreStored, Files, DeleteWorkspace, HasFile
<1>6. OrphansAreAbandoned'
  BY ConstantsAssumption DEF IInv, TypeOK, ProgressOK, DeletionsOK, OrphansAreAbandoned, Files, DeleteWorkspace, HasFile
<1> QED
  BY <1>1, <1>2, <1>3, <1>4, <1>5, <1>6 DEF IInv

LEMMA CrashStep ==
  ASSUME IInv, Crash
  PROVE  IInv'
<1>1. TypeOK'
  BY ConstantsAssumption DEF IInv, TypeOK, ProgressOK, DeletionsOK, PC, Uploading, Crash, HasFile
<1>2. ProgressOK'
  BY ConstantsAssumption DEF IInv, TypeOK, ProgressOK, DeletionsOK, Crash, HasFile
<1>3. DeletionsOK'
  BY ConstantsAssumption DEF IInv, TypeOK, ProgressOK, DeletionsOK, Crash, HasFile
<1>4. RoomOK' /\ UnracedFilesFit' /\ UnracedFilesCounted'
  BY LimitsFrame, ConstantsAssumption DEF Windows, Files, Uploading, HasFile, Crash, IInv, TypeOK, ProgressOK
<1>5. FilesAreStored'
  BY ConstantsAssumption DEF IInv, TypeOK, ProgressOK, DeletionsOK, FilesAreStored, Files, Crash, HasFile
<1>6. OrphansAreAbandoned'
  BY ConstantsAssumption DEF IInv, TypeOK, ProgressOK, DeletionsOK, OrphansAreAbandoned, Files, Crash, HasFile
<1> QED
  BY <1>1, <1>2, <1>3, <1>4, <1>5, <1>6 DEF IInv

-----------------------------------------------------------------------------
LEMMA InitInductive == Init => IInv
<1> SUFFICES ASSUME Init PROVE IInv
  OBVIOUS
<1>1. Files = {} /\ Windows = {}
  BY DEF Init, Files, Windows, Uploading
<1>2. Bytes({}) = {}
  BY DEF Bytes
<1>3. UnracedFilesFit /\ UnracedFilesCounted /\ RoomOK
  BY <1>1, <1>2, FS_EmptySet, ConstantsAssumption
     DEF UnracedFilesFit, UnracedFilesCounted, RoomOK, Usage
<1>4. TypeOK
  BY ConstantsAssumption DEF Init, TypeOK, PC
<1>5. ProgressOK /\ DeletionsOK
  BY DEF Init, ProgressOK, DeletionsOK, HasFile
<1>6. FilesAreStored /\ OrphansAreAbandoned
  BY <1>1 DEF Init, FilesAreStored, OrphansAreAbandoned
<1> QED
  BY <1>3, <1>4, <1>5, <1>6 DEF IInv

LEMMA UnchangedStep ==
  ASSUME IInv, UNCHANGED vars
  PROVE  IInv'
<1>1. TypeOK' /\ ProgressOK' /\ DeletionsOK'
  BY DEF IInv, TypeOK, ProgressOK, DeletionsOK, HasFile, vars
<1>2. Files' = Files /\ Windows' = Windows
  BY DEF Files, Windows, HasFile, vars
<1>3. RoomOK' /\ UnracedFilesFit' /\ UnracedFilesCounted'
  BY <1>2, LimitsFrame DEF vars
<1>4. FilesAreStored' /\ OrphansAreAbandoned'
  BY <1>2 DEF IInv, FilesAreStored, OrphansAreAbandoned, vars
<1> QED
  BY <1>1, <1>3, <1>4 DEF IInv

LEMMA NextInductive == IInv /\ [Next]_vars => IInv'
<1> SUFFICES ASSUME IInv, [Next]_vars PROVE IInv'
  OBVIOUS
<1>1. ASSUME NEW q \in Request, Create(q) PROVE IInv'
  BY <1>1, CreateTextStep, CheckStorageStep, CheckDocumentsStep, UploadStep,
     UploadFailsStep, ParseStep, InsertStep, CreateFailsStep DEF Create
<1>2. ASSUME NEW q \in Request, Delete(q) PROVE IInv'
  BY <1>2, FindStep, RemoveStep, RemoveFailsStep, DropStep, DropFailsStep DEF Delete
<1>3. CASE Rest \/ UNCHANGED vars
  BY <1>3, UnchangedStep DEF Rest
<1> QED
  BY <1>1, <1>2, <1>3, DeleteWorkspaceStep, CrashStep DEF Next

\* The inductive invariant of the files of a workspace.
THEOREM InvariantHolds == Spec => []IInv
<1>1. Init => IInv
  BY InitInductive
<1>2. IInv /\ [Next]_vars => IInv'
  BY NextInductive
<1> QED
  BY <1>1, <1>2, PTL DEF Spec

\* Rows, objects and requests are of their types.
THEOREM TypeCorrect == Spec => []TypeOK
<1>1. IInv => TypeOK
  BY DEF IInv
<1> QED
  BY <1>1, InvariantHolds, PTL

\* Files that raced no other upload fit the storage limit and are no more than
\* MAX_DOCUMENTS, for all sizes and limits.
THEOREM LimitsCorrect == Spec => []UnracedWithinLimits
<1>1. IInv => UnracedWithinLimits
  BY DEF IInv, UnracedWithinLimits
<1> QED
  BY <1>1, InvariantHolds, PTL

\* A document has its file until its deletion is between object and row.
THEOREM StoredCorrect == Spec => []FilesAreStored
<1>1. IInv => FilesAreStored
  BY DEF IInv
<1> QED
  BY <1>1, InvariantHolds, PTL

\* Without failure, crash and deletion of the workspace no object is left over.
THEOREM OrphansCorrect == Spec => []OrphansAreAbandoned
<1>1. IInv => OrphansAreAbandoned
  BY DEF IInv
<1> QED
  BY <1>1, InvariantHolds, PTL
=============================================================================
