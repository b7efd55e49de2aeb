------------------------- MODULE PublicAccessProofs -------------------------
(***************************************************************************)
(* Proofs about PublicAccess, for any users, workspaces, documents and     *)
(* links, any number of calls, and whether or not the policies bind the    *)
(* server's role.                                                          *)
(*                                                                         *)
(* Two facts carry the properties: the tags a public read filters by are   *)
(* among those its link allows, and stay so while documents, members and   *)
(* links change; and what a call has found still satisfies its conditions  *)
(* but for the documents that were touched since.                          *)
(***************************************************************************)
EXTENDS PublicAccess, FiniteSetTheorems, TLAPS

-----------------------------------------------------------------------------
(* The inductive invariant.                                                *)

\* A call that came by a link filters by tags the link allows.
ByLink(q) ==
  /\ q.link \in Link /\ link[q.link].state # "none"
  /\ ~q.all /\ q.ws = Home[q.link]
  /\ link[q.link].allowed # {} => q.tags # {} /\ q.tags \subseteq link[q.link].allowed

CallOK(q) ==
  /\ q.at = "again" => q.link \in Link
  /\ q.at \notin {"idle", "again"} => q.op \in {"list", "query", "search"}
  /\ q.at \notin {"idle", "again"} /\ q.op # "search" => ByLink(q)

\* What was found is still so, unless touched; a list found everything, or
\* as much as was asked for.
StillFound(q) ==
  /\ q.found \ q.touched \subseteq Readable(q, q.tags)
  /\ Cardinality(q.found) <= Limit
  /\ q.op = "list" /\ q.touched = {} =>
       q.found = Readable(q, q.tags) \/ Cardinality(q.found) = Limit

\* What is shown are tags of what was found.
ShownOK(q) ==
  /\ \A p \in q.shown : p[1] \in q.found
  /\ \A d \in q.found \ q.touched :
       q.tags = {} \/ \E t \in q.tags : <<d, t>> \in q.shown

\* The total covers what is shown.
TotalOK(q) ==
  /\ q.touched = {} /\ q.op # "query" => Cardinality(q.found) <= q.total
  /\ q.touched = {} /\ q.op = "list" =>
       Cardinality(q.found) = IF q.total < Limit THEN q.total ELSE Limit

AnswerOK(q) ==
  /\ q.at \in {"tags", "count"} => StillFound(q)
  /\ q.at \in {"count", "answered"} => ShownOK(q)
  /\ q.at = "answered" => TotalOK(q)

IInv ==
  /\ TypeOK
  /\ \A c \in Call : CallOK(call[c]) /\ AnswerOK(call[c])

-----------------------------------------------------------------------------
(* Types.                                                                  *)

CallRow ==
  [at : {"idle", "again", "embedding", "read", "tags", "count", "answered"},
   op : {"none", "list", "query", "search"},
   link : Link \cup {None}, ws : Workspace \cup {None},
   asked : SUBSET Tag, tags : SUBSET Tag, all : BOOLEAN,
   found : SUBSET Doc, shown : SUBSET (Doc \X Tag), total : Nat, touched : SUBSET Doc]

DocRow == [state : {"none", "busy", "done", "gone"}, verified : BOOLEAN, given : SUBSET Tag]

LinkRow == [state : {"none", "live", "gone"}, allowed : SUBSET Tag,
            expires : {"never", "later", "past"}]

TablesTyped ==
  /\ bound \in BOOLEAN /\ member \in [Workspace -> SUBSET User]
  /\ doc \in [Doc -> DocRow] /\ link \in [Link -> LinkRow]

EditsTyped == edit \in [Edit -> [at : {"idle", "insert", "find", "remove"},
                                by : User \cup {None}, link : Link \cup {None}]]

LEMMA TypeParts ==
  /\ TypeOK <=> TablesTyped /\ call \in [Call -> CallRow] /\ EditsTyped
  /\ TypeOK' <=> TablesTyped' /\ call' \in [Call -> CallRow] /\ EditsTyped'
BY DEF TypeOK, TablesTyped, EditsTyped, CallRow, DocRow, LinkRow

LEMMA Rows ==
  /\ Idle \in CallRow /\ NoDoc \in DocRow /\ GoneDoc \in DocRow /\ NoLink \in LinkRow
  /\ \A row \in LinkRow : Gone(row) \in LinkRow
BY DEF Idle, CallRow, NoDoc, GoneDoc, DocRow, NoLink, LinkRow, Gone

\* The constants.
LEMMA Constants ==
  /\ \A w \in Workspace : Creator[w] \in User
  /\ \A x \in Doc \cup Link : Home[x] \in Workspace
  /\ \A t \in Tag : Normal[t] \in Tag
  /\ \A T \in TagSets : T \subseteq Tag
  /\ None \notin Link /\ None \notin User /\ System \notin User /\ System # None
  /\ None \notin Workspace /\ Limit \in Nat /\ IsFiniteSet(Doc)
BY AccessAssumption

LEMMA InitTyped == Init => TypeOK
<1> SUFFICES ASSUME Init PROVE TypeOK
  OBVIOUS
<1>1. TablesTyped
  BY Rows, Constants DEF Init, TablesTyped
<1>2. call \in [Call -> CallRow]
  BY Rows DEF Init
<1>3. EditsTyped
  BY DEF Init, EditsTyped, NoEdit
<1> QED
  BY <1>1, <1>2, <1>3, TypeParts

-----------------------------------------------------------------------------
(* The shapes of the steps.                                                *)

\* A write: the documents S change, or those who see them, and calls under
\* way are told.
Disturbs(S) ==
  /\ Touch(S) /\ UNCHANGED <<bound, edit>>
  /\ \A d \in Doc \ S : doc'[d] = doc[d] /\ member'[Home[d]] = member[Home[d]]

LEMMA Write ==
  ASSUME TypeOK, Writes
  PROVE  TablesTyped' /\ EditsTyped' /\ \E S \in SUBSET Doc : Disturbs(S)
<1>1. TablesTyped /\ EditsTyped
  BY TypeParts
<1>2. ASSUME NEW w \in Workspace, NEW M \in SUBSET User, member' = [member EXCEPT ![w] = M],
             Touch({d \in Doc : Home[d] = w}), UNCHANGED <<bound, doc, link, edit>>
      PROVE  TablesTyped' /\ EditsTyped' /\ \E S \in SUBSET Doc : Disturbs(S)
  <2>1. TablesTyped' /\ EditsTyped'
    BY <1>1, <1>2 DEF TablesTyped, EditsTyped
  <2>2. \A d \in Doc : Home[d] # w => member'[Home[d]] = member[Home[d]]
    BY <1>1, <1>2, Constants DEF TablesTyped
  <2>3. Disturbs({d \in Doc : Home[d] = w})
    BY <1>2, <2>2 DEF Disturbs
  <2> QED
    BY <2>1, <2>3
<1>3. ASSUME NEW u \in User, NEW w \in Workspace, Join(u, w) \/ Leave(u, w)
      PROVE  TablesTyped' /\ EditsTyped' /\ \E S \in SUBSET Doc : Disturbs(S)
  <2>1. member[w] \in SUBSET User
    BY <1>1 DEF TablesTyped
  <2> QED
    BY <1>2, <1>3, <2>1 DEF Join, Leave
<1>4. ASSUME NEW w \in Workspace, DeleteWorkspace(w)
      PROVE  TablesTyped' /\ EditsTyped' /\ \E S \in SUBSET Doc : Disturbs(S)
  <2>1. member' = [member EXCEPT ![w] = {}] /\ UNCHANGED <<bound, edit>>
    BY <1>4 DEF DeleteWorkspace
  <2>2. doc' \in [Doc -> DocRow] /\ \A d \in Doc : Home[d] # w => doc'[d] = doc[d]
    BY <1>1, <1>4, Rows DEF DeleteWorkspace, TablesTyped
  <2>3. link' \in [Link -> LinkRow]
    BY <1>1, <1>4, Rows DEF DeleteWorkspace, TablesTyped
  <2>4. \A d \in Doc : Home[d] # w => member'[Home[d]] = member[Home[d]]
    BY <1>1, <2>1, Constants DEF TablesTyped
  <2>5. Disturbs({d \in Doc : Home[d] = w})
    BY <1>4, <2>1, <2>2, <2>4 DEF Disturbs, DeleteWorkspace
  <2>6. TablesTyped' /\ EditsTyped'
    BY <1>1, <2>1, <2>2, <2>3 DEF TablesTyped, EditsTyped
  <2> QED
    BY <2>5, <2>6
<1>5. ASSUME NEW d \in Doc, NEW row \in DocRow, Store(d, row)
      PROVE  TablesTyped' /\ EditsTyped' /\ \E S \in SUBSET Doc : Disturbs(S)
  <2>1. TablesTyped' /\ EditsTyped'
    BY <1>1, <1>5 DEF TablesTyped, EditsTyped, Store
  <2>2. Disturbs({d})
    BY <1>1, <1>5 DEF Disturbs, Store, TablesTyped
  <2> QED
    BY <2>1, <2>2
<1>6. ASSUME NEW d \in Doc, Processed(d) \/ Delete(d)
      PROVE  TablesTyped' /\ EditsTyped' /\ \E S \in SUBSET Doc : Disturbs(S)
  <2>1. [doc[d] EXCEPT !.state = "done"] \in DocRow
    BY <1>1 DEF TablesTyped, DocRow
  <2> QED
    BY <1>5, <1>6, <2>1, Rows DEF Processed, Delete
<1>7. ASSUME NEW d \in Doc, NEW T \in TagSets, NEW v \in BOOLEAN, NEW s \in {"busy", "done"},
             Add(d, T, v) \/ Change(d, T, v, s)
      PROVE  TablesTyped' /\ EditsTyped' /\ \E S \in SUBSET Doc : Disturbs(S)
  <2>1. [state |-> s, verified |-> v, given |-> T] \in DocRow
    BY Constants DEF DocRow
  <2>2. [state |-> "busy", verified |-> v, given |-> T] \in DocRow
    BY Constants DEF DocRow
  <2> QED
    BY <1>5, <1>7, <2>1, <2>2 DEF Add, Change
<1> QED
  BY <1>3, <1>4, <1>6, <1>7 DEF Writes

\* The calls that create and delete links, and time, change links only.
LEMMA Manage ==
  ASSUME TypeOK, (\E e \in Edit : Manages(e)) \/ (\E l \in Link : Expire(l))
  PROVE  TablesTyped' /\ EditsTyped' /\ UNCHANGED <<bound, member, doc, call>>
<1>1. TablesTyped /\ EditsTyped
  BY TypeParts
<1>2. ASSUME NEW l, NEW row, l \in Link => row \in LinkRow, link' = [link EXCEPT ![l] = row],
             UNCHANGED <<bound, member, doc>>
      PROVE  TablesTyped'
  BY <1>1, <1>2 DEF TablesTyped
<1>3. ASSUME NEW l \in Link, Expire(l)
      PROVE  TablesTyped' /\ EditsTyped' /\ UNCHANGED <<bound, member, doc, call>>
  <2>1. link' = [link EXCEPT ![l] = [link[l] EXCEPT !.expires = "past"]]
    BY <1>1, <1>3 DEF Expire
  <2>2. [link[l] EXCEPT !.expires = "past"] \in LinkRow
    BY <1>1 DEF TablesTyped, LinkRow
  <2> QED
    BY <1>1, <1>2, <1>3, <2>1, <2>2 DEF Expire, EditsTyped
<1>4. ASSUME NEW e \in Edit, NEW row, Steps(e, row),
             row \in [at : {"idle", "insert", "find", "remove"},
                     by : User \cup {None}, link : Link \cup {None}]
      PROVE  EditsTyped'
  BY <1>1, <1>4 DEF EditsTyped, Steps
<1>5. NoEdit \in [at : {"idle", "insert", "find", "remove"},
                 by : User \cup {None}, link : Link \cup {None}]
  BY DEF NoEdit
<1>6. ASSUME NEW e \in Edit, NEW u \in User, NEW l \in Link, NEW at \in {"insert", "find"},
             Check(e, u, l, at)
      PROVE  TablesTyped' /\ EditsTyped' /\ UNCHANGED <<bound, member, doc, call>>
  BY <1>1, <1>4, <1>6 DEF Check, TablesTyped, tables
<1>7. ASSUME NEW e \in Edit, Insert(e)
      PROVE  TablesTyped' /\ EditsTyped' /\ UNCHANGED <<bound, member, doc, call>>
  <2>1. UNCHANGED <<bound, member, doc, call>> /\ Steps(e, NoEdit)
    BY <1>7 DEF Insert
  <2>2. CASE UNCHANGED link
    BY <1>1, <1>4, <1>5, <2>1, <2>2 DEF TablesTyped
  <2>3. ASSUME NEW A \in TagSets, NEW x \in {"never", "later"},
               link' = [link EXCEPT ![edit[e].link] = [state |-> "live", allowed |-> A, expires |-> x]]
        PROVE  TablesTyped' /\ EditsTyped'
    <3>1. [state |-> "live", allowed |-> A, expires |-> x] \in LinkRow
      BY Constants DEF LinkRow
    <3> QED
      BY <1>2, <1>4, <1>5, <2>1, <2>3, <3>1
  <2> QED
    BY <1>7, <2>1, <2>2, <2>3 DEF Insert
<1>8. ASSUME NEW e \in Edit, Find(e)
      PROVE  TablesTyped' /\ EditsTyped' /\ UNCHANGED <<bound, member, doc, call>>
  <2>1. [edit[e] EXCEPT !.at = "remove"] \in [at : {"idle", "insert", "find", "remove"},
                                             by : User \cup {None}, link : Link \cup {None}]
    BY <1>1 DEF EditsTyped
  <2> QED
    BY <1>1, <1>4, <1>5, <1>8, <2>1 DEF Find, TablesTyped, tables
<1>9. ASSUME NEW e \in Edit, Remove(e)
      PROVE  TablesTyped' /\ EditsTyped' /\ UNCHANGED <<bound, member, doc, call>>
  <2>1. UNCHANGED <<bound, member, doc, call>> /\ Steps(e, NoEdit)
    BY <1>9 DEF Remove
  <2>2. CASE UNCHANGED link
    BY <1>1, <1>4, <1>5, <2>1, <2>2 DEF TablesTyped
  <2>3. CASE link' = [link EXCEPT ![edit[e].link] = Gone(link[edit[e].link])]
    <3>1. edit[e].link \in Link => Gone(link[edit[e].link]) \in LinkRow
      BY <1>1, Rows DEF TablesTyped
    <3> QED
      BY <1>2, <1>4, <1>5, <2>1, <2>3, <3>1
  <2> QED
    BY <1>9, <2>1, <2>2, <2>3 DEF Remove
<1> QED
  BY <1>3, <1>6, <1>7, <1>8, <1>9 DEF Manages

\* What a step does to a link.
LEMMA LinkSteps ==
  ASSUME TypeOK, [Next]_vars, NEW l \in Link
  PROVE  \/ link[l] = NoLink
         \/ link'[l] \in {link[l], Gone(link[l]), [link[l] EXCEPT !.expires = "past"]}
<1>1. link \in [Link -> LinkRow]
  BY TypeParts DEF TablesTyped
<1>2. ASSUME NEW w \in Workspace, DeleteWorkspace(w) PROVE link'[l] \in {link[l], Gone(link[l])}
  BY <1>2 DEF DeleteWorkspace
<1>3. ASSUME NEW e \in Edit, Insert(e) PROVE link[l] = NoLink \/ link'[l] = link[l]
  BY <1>1, <1>3 DEF Insert
<1>4. ASSUME NEW e \in Edit, Remove(e) PROVE link'[l] \in {link[l], Gone(link[l])}
  BY <1>1, <1>4 DEF Remove
<1>5. ASSUME NEW k \in Link, Expire(k)
      PROVE  link'[l] \in {link[l], [link[l] EXCEPT !.expires = "past"]}
  BY <1>1, <1>5 DEF Expire
<1>6. ASSUME Writes, \A w \in Workspace : ~DeleteWorkspace(w) PROVE link' = link
  BY <1>6 DEF Writes, Join, Leave, Processed, Delete, Add, Change, Store
<1>7. ASSUME NEW e \in Edit, Manages(e), ~Insert(e), ~Remove(e) PROVE link' = link
  BY <1>7 DEF Manages, Check, Find, tables
<1>8. ASSUME NEW c \in Call, Asks(c) \/ Proceeds(c) PROVE link' = link
  BY <1>8 DEF Asks, Proceeds, List, Query, QueryNothing, Search, Again, Embedded, Fails, Read,
              ReadTags, Count, Answer, Admit, Return, Continue, tables
<1>9. CASE link' = link
  BY <1>9
<1> QED
  BY <1>2, <1>3, <1>4, <1>5, <1>6, <1>7, <1>8, <1>9 DEF Next, vars, tables

\* A link that has been made keeps what it allows.
LEMMA LinkKept ==
  ASSUME TypeOK, [Next]_vars, NEW l \in Link, link[l].state # "none"
  PROVE  link'[l].state # "none" /\ link'[l].allowed = link[l].allowed
<1>1. link[l] \in LinkRow /\ link[l] # NoLink
  BY TypeParts DEF TablesTyped, NoLink
<1>2. link'[l] \in {link[l], Gone(link[l]), [link[l] EXCEPT !.expires = "past"]}
  BY <1>1, LinkSteps
<1> QED
  BY <1>1, <1>2 DEF Gone, LinkRow

-----------------------------------------------------------------------------
(* The calls.                                                              *)

\* A row that a step of a call may leave behind.
Good(row) == row \in CallRow /\ CallOK(row) /\ AnswerOK(row)

LEMMA IdleGood == Good(Idle)
BY Rows DEF Good, Idle, CallOK, AnswerOK

\* A call that begins, by a link or, for a search, without one.
LEMMA IdleFields ==
  /\ Idle.at = "idle" /\ Idle.link = None /\ Idle.all = FALSE /\ Idle.found = {}
  /\ Idle.shown = {} /\ Idle.touched = {} /\ Idle.tags = {} /\ Idle.total = 0
BY DEF Idle

\* What a link lets in.
LEMMA Admitted ==
  ASSUME TypeOK, NEW c \in Call, NEW l \in Link, NEW op \in {"list", "query"},
         NEW asked \in SUBSET Tag, Admit(c, l, op, asked)
  PROVE  \E row : /\ Good(row) /\ Continue(c, row) /\ row.found = {}
                  /\ row.link = None \/ (row.link = l /\ Valid(l))
<1>1. link[l] \in LinkRow /\ Home[l] \in Workspace
  BY Constants, TypeParts DEF TablesTyped
<1>2. CASE Return(c)
  BY <1>2, IdleGood, IdleFields DEF Return
<1>3. CASE Valid(l) /\ ~Refused(link[l].allowed, asked)
  <2>1. PICK T : T = Effective(link[l].allowed, asked)
    OBVIOUS
  <2>2. PICK at \in {"read", "embedding"} : at = IF op = "list" THEN "read" ELSE "embedding"
    OBVIOUS
  <2>3. PICK row : row = [Idle EXCEPT !.at = at, !.op = op, !.link = l, !.ws = Home[l], !.tags = T]
    OBVIOUS
  <2>4. T \subseteq Tag /\ (link[l].allowed # {} => T # {} /\ T \subseteq link[l].allowed)
    BY <1>1, <1>3, <2>1 DEF LinkRow, Refused, Effective
  <2>5. link[l].state # "none"
    BY <1>3 DEF Valid, FoundByToken
  <2>6. row \in CallRow /\ row.link = l /\ row.found = {}
    BY <1>1, <2>3, <2>4, Rows, IdleFields DEF CallRow
  <2>7. CallOK(row) /\ AnswerOK(row)
    <3>1. /\ row.at = at /\ row.op = op /\ row.link = l /\ row.ws = Home[l] /\ row.tags = T
          /\ row.all = FALSE
      BY <2>3, Rows, IdleFields DEF CallRow
    <3> QED
      BY <2>4, <2>5, <3>1 DEF CallOK, AnswerOK, ByLink
  <2>8. Continue(c, [Idle EXCEPT !.at = IF op = "list" THEN "read" ELSE "embedding", !.op = op,
                               !.link = l, !.ws = Home[l],
                               !.tags = Effective(link[l].allowed, asked)])
    BY <1>3 DEF Admit
  <2>9. Continue(c, row)
    BY <2>1, <2>2, <2>3, <2>8
  <2> QED
    BY <1>3, <2>6, <2>7, <2>9 DEF Good
<1> QED
  BY <1>2, <1>3 DEF Admit

LEMMA Begun ==
  ASSUME TypeOK, NEW c \in Call, Asks(c)
  PROVE  \E row : /\ Good(row) /\ Continue(c, row) /\ row.found = {}
                  /\ row.link = None \/ (row.link \in Link /\ Valid(row.link))
<1>1. ASSUME NEW l \in Link, NEW asked \in TagSets, QueryNothing(c, l, asked)
      PROVE  \E row : Good(row) /\ Continue(c, row) /\ row.found = {} /\ row.link = l
  <2>1. PICK row : row = [Idle EXCEPT !.at = "again", !.op = "list", !.link = l,
                                     !.ws = Home[l], !.asked = asked]
    OBVIOUS
  <2>2. Continue(c, row)
    BY <1>1, <2>1 DEF QueryNothing
  <2>3. row \in CallRow /\ row.at = "again" /\ row.link = l /\ row.found = {}
    BY <2>1, Constants, Rows, IdleFields DEF CallRow
  <2>4. CallOK(row) /\ AnswerOK(row)
    BY <2>3 DEF CallOK, AnswerOK
  <2> QED
    BY <2>2, <2>3, <2>4 DEF Good
<1>2. ASSUME NEW u \in User, NEW w \in Workspace, NEW asked \in TagSets, NEW all \in BOOLEAN,
             Search(c, u, w, asked, all)
      PROVE  \E row : Good(row) /\ Continue(c, row) /\ row.found = {} /\ row.link = None
  <2>1. PICK row : row = [Idle EXCEPT !.at = "embedding", !.op = "search", !.ws = w,
                                     !.tags = asked, !.all = all]
    OBVIOUS
  <2>2. Continue(c, row)
    BY <1>2, <2>1 DEF Search
  <2>3. /\ row \in CallRow /\ row.at = "embedding" /\ row.op = "search" /\ row.link = None
        /\ row.found = {}
    BY <2>1, Constants, Rows, IdleFields DEF CallRow
  <2>4. CallOK(row) /\ AnswerOK(row)
    BY <2>3 DEF CallOK, AnswerOK
  <2> QED
    BY <2>2, <2>3, <2>4 DEF Good
<1>3. ASSUME NEW l \in Link, NEW asked \in TagSets, List(c, l, asked) \/ Query(c, l, asked)
      PROVE  \E row : /\ Good(row) /\ Continue(c, row) /\ row.found = {}
                      /\ row.link = None \/ (row.link = l /\ Valid(l))
  <2>1. asked \in SUBSET Tag
    BY Constants
  <2>2. Admit(c, l, "list", asked) \/ Admit(c, l, "query", asked)
    BY <1>3 DEF List, Query
  <2> QED
    BY <2>1, <2>2, Admitted
<1>4. CASE \E l \in Link, asked \in TagSets : QueryNothing(c, l, asked)
  BY <1>1, <1>4 DEF QueryNothing
<1>5. CASE \E u \in User, w \in Workspace, asked \in TagSets, all \in BOOLEAN :
             Search(c, u, w, asked, all)
  BY <1>2, <1>5
<1>6. CASE \E l \in Link, asked \in TagSets : List(c, l, asked) \/ Query(c, l, asked)
  BY <1>3, <1>6
<1> QED
  BY <1>4, <1>5, <1>6 DEF Asks

\* A statement finds documents.
LEMMA Found == \A q, T : Readable(q, T) \subseteq Doc
BY DEF Readable

\* A part of some documents is no more than they are.
LEMMA Counts ==
  ASSUME NEW S \in SUBSET Doc, NEW R \in SUBSET S
  PROVE  Cardinality(R) \in Nat /\ Cardinality(S) \in Nat /\ Cardinality(R) <= Cardinality(S)
<1>1. IsFiniteSet(S)
  BY Constants, FS_Subset
<1> QED
  BY <1>1, FS_Subset, FS_CardinalityType

\* The rows that the steps after the first leave behind.
LEMMA ReadGood ==
  ASSUME IInv, NEW c \in Call, Read(c)
  PROVE  \E row : Good(row) /\ Continue(c, row) /\ row.link = call[c].link
<1>1. PICK q : q = call[c]
  OBVIOUS
<1>2. q \in CallRow /\ CallOK(q) /\ q.at = "read"
  BY <1>1, TypeParts DEF IInv, Read
<1>3. PICK F \in SUBSET Readable(q, q.tags) :
        /\ Cardinality(F) <= Limit
        /\ q.op = "list" => F = Readable(q, q.tags) \/ Cardinality(F) = Limit
        /\ Continue(c, [q EXCEPT !.at = "tags", !.found = F])
  BY <1>1 DEF Read
<1>4. PICK row : row = [q EXCEPT !.at = "tags", !.found = F]
  OBVIOUS
<1>5. F \subseteq Doc
  BY <1>3, Found
<1>6. row \in CallRow
  BY <1>2, <1>4, <1>5 DEF CallRow
<1>7. /\ row.at = "tags" /\ row.found = F /\ row.op = q.op /\ row.ws = q.ws /\ row.all = q.all
      /\ row.link = q.link /\ row.tags = q.tags
  BY <1>2, <1>4 DEF CallRow
<1>8. CallOK(row)
  BY <1>2, <1>7 DEF CallOK, ByLink
<1>9. Readable(row, row.tags) = Readable(q, q.tags)
  BY <1>7 DEF Readable, Context
<1>10. AnswerOK(row)
  BY <1>3, <1>7, <1>9 DEF AnswerOK, StillFound
<1> QED
  BY <1>1, <1>3, <1>4, <1>6, <1>7, <1>8, <1>10 DEF Good

LEMMA ReadTagsGood ==
  ASSUME IInv, NEW c \in Call, ReadTags(c)
  PROVE  \E row : /\ Good(row) /\ Continue(c, row)
                  /\ row.link = call[c].link /\ row.found = call[c].found
<1>1. PICK q : q = call[c]
  OBVIOUS
<1>2. q \in CallRow /\ CallOK(q) /\ q.at = "tags" /\ StillFound(q)
  BY <1>1, TypeParts DEF IInv, ReadTags, AnswerOK
<1>3. PICK shown : shown = {p \in q.found \X Tag :
                             p[2] \in TagsOf(p[1]) /\ q.ws \in Sees(Context(q))}
  OBVIOUS
<1>4. PICK at \in {"answered", "count"} : at = IF q.op = "query" THEN "answered" ELSE "count"
  OBVIOUS
<1>5. PICK row : row = [q EXCEPT !.at = at, !.shown = shown]
  OBVIOUS
<1>6. Continue(c, row)
  BY <1>1, <1>3, <1>4, <1>5 DEF ReadTags
<1>7. shown \subseteq Doc \X Tag
  BY <1>2, <1>3 DEF CallRow
<1>8. row \in CallRow
  BY <1>2, <1>5, <1>7 DEF CallRow
<1>9. /\ row.at = at /\ row.found = q.found /\ row.op = q.op /\ row.ws = q.ws /\ row.all = q.all
      /\ row.link = q.link /\ row.tags = q.tags /\ row.shown = shown /\ row.touched = q.touched
  BY <1>2, <1>5 DEF CallRow
<1>10. CallOK(row)
  BY <1>2, <1>9 DEF CallOK, ByLink
<1>11. Readable(row, row.tags) = Readable(q, q.tags)
  BY <1>9 DEF Readable, Context
<1>12. StillFound(row)
  BY <1>2, <1>9, <1>11 DEF StillFound
<1>13. ShownOK(row)
  <2>1. \A p \in shown : p[1] \in q.found
    BY <1>3
  <2>2. ASSUME NEW d \in q.found \ q.touched, q.tags # {}
        PROVE  \E t \in q.tags : <<d, t>> \in shown
    <3>1. d \in Readable(q, q.tags)
      BY <1>2, <2>2 DEF StillFound
    <3>2. q.tags \cap TagsOf(d) # {} /\ q.ws \in Sees(Context(q))
      BY <2>2, <3>1 DEF Readable
    <3>3. PICK t \in q.tags : t \in TagsOf(d)
      BY <3>2
    <3>4. t \in Tag
      BY <1>2, <3>3 DEF CallRow
    <3>5. <<d, t>> \in q.found \X Tag /\ <<d, t>>[1] = d /\ <<d, t>>[2] = t
      BY <2>2, <3>4
    <3> QED
      BY <1>3, <3>2, <3>3, <3>5
  <2> QED
    BY <1>9, <2>1, <2>2 DEF ShownOK
<1>14. at = "answered" => TotalOK(row)
  BY <1>4, <1>9 DEF TotalOK
<1>15. AnswerOK(row)
  BY <1>9, <1>12, <1>13, <1>14 DEF AnswerOK
<1> QED
  BY <1>1, <1>6, <1>8, <1>9, <1>10, <1>15 DEF Good

LEMMA CountGood ==
  ASSUME IInv, NEW c \in Call, Count(c)
  PROVE  \E row : /\ Good(row) /\ Continue(c, row)
                  /\ row.link = call[c].link /\ row.found = call[c].found
<1>1. PICK q : q = call[c]
  OBVIOUS
<1>2. q \in CallRow /\ CallOK(q) /\ q.at = "count" /\ StillFound(q) /\ ShownOK(q)
  BY <1>1, TypeParts DEF IInv, Count, AnswerOK
<1>3. PICK n : n = Cardinality(Counted(q))
  OBVIOUS
<1>4. PICK row : row = [q EXCEPT !.at = "answered", !.total = n]
  OBVIOUS
<1>5. Continue(c, row)
  BY <1>1, <1>3, <1>4 DEF Count
<1>6. Readable(q, q.tags) \subseteq Counted(q) /\ Counted(q) \subseteq Doc
  BY DEF Counted, Readable
<1>7. n \in Nat /\ Limit \in Nat /\ q.found \subseteq Doc
  BY <1>2, <1>3, <1>6, Counts, Constants DEF CallRow
<1>8. row \in CallRow
  BY <1>2, <1>4, <1>7 DEF CallRow
<1>9. /\ row.at = "answered" /\ row.found = q.found /\ row.op = q.op /\ row.ws = q.ws
      /\ row.all = q.all /\ row.link = q.link /\ row.tags = q.tags /\ row.shown = q.shown
      /\ row.touched = q.touched /\ row.total = n
  BY <1>2, <1>4 DEF CallRow
<1>10. CallOK(row)
  BY <1>2, <1>9 DEF CallOK, ByLink
<1>11. ShownOK(row)
  BY <1>2, <1>9 DEF ShownOK
<1>12. TotalOK(row)
  <2>1. ASSUME q.touched = {} PROVE Cardinality(q.found) <= n
    <3>1. q.found \subseteq Counted(q)
      BY <1>2, <1>6, <2>1 DEF StillFound
    <3> QED
      BY <1>3, <1>6, <3>1, Counts
  <2>2. ASSUME q.touched = {}, q.op = "list"
        PROVE  Cardinality(q.found) = IF n < Limit THEN n ELSE Limit
    <3>1. Counted(q) = Readable(q, q.tags)
      BY <2>2 DEF Counted
    <3>2. Cardinality(q.found) = n \/ Cardinality(q.found) = Limit
      BY <1>2, <1>3, <2>2, <3>1 DEF StillFound
    <3>3. Cardinality(q.found) <= Limit /\ Cardinality(q.found) <= n
      BY <1>2, <2>1, <2>2 DEF StillFound
    <3>4. Cardinality(q.found) \in Nat
      BY <1>7, Counts
    <3> QED
      BY <1>7, <3>2, <3>3, <3>4
  <2> QED
    BY <1>9, <2>1, <2>2 DEF TotalOK
<1>13. AnswerOK(row)
  BY <1>9, <1>11, <1>12 DEF AnswerOK
<1> QED
  BY <1>1, <1>5, <1>8, <1>9, <1>10, <1>13 DEF Good

\* Every step of a call, with the link it is for afterwards.
LEMMA CallStep ==
  ASSUME IInv, NEW c \in Call, Asks(c) \/ Proceeds(c)
  PROVE  \E row : /\ Good(row) /\ Continue(c, row)
                  /\ Read(c) \/ row.found \in {{}, call[c].found}
                  /\ \/ row.link \in {None, call[c].link}
                     \/ row.link \in Link /\ Valid(row.link)
<1>1. TypeOK /\ call[c] \in CallRow /\ CallOK(call[c])
  BY TypeParts DEF IInv
<1>2. CASE Asks(c)
  BY <1>1, <1>2, Begun
<1>3. CASE Again(c)
  <2>1. call[c].link \in Link /\ call[c].asked \in SUBSET Tag
    BY <1>1, <1>3 DEF Again, CallOK, CallRow
  <2> QED
    BY <1>1, <1>3, <2>1, Admitted DEF Again
<1>4. CASE Embedded(c)
  <2>1. PICK row : row = [call[c] EXCEPT !.at = "read"]
    OBVIOUS
  <2>2. /\ row \in CallRow /\ row.at = "read" /\ row.op = call[c].op /\ row.ws = call[c].ws
        /\ row.all = call[c].all /\ row.link = call[c].link /\ row.tags = call[c].tags
        /\ row.found = call[c].found
    BY <1>1, <2>1 DEF CallRow
  <2>3. CallOK(row) /\ AnswerOK(row)
    BY <1>1, <1>4, <2>2 DEF Embedded, CallOK, ByLink, AnswerOK
  <2> QED
    BY <1>4, <2>1, <2>2, <2>3 DEF Embedded, Good
<1>5. CASE Fails(c) \/ Answer(c)
  BY <1>5, IdleGood, IdleFields DEF Fails, Answer, Return
<1> QED
  BY <1>2, <1>3, <1>4, <1>5, ReadGood, ReadTagsGood, CountGood DEF Proceeds

-----------------------------------------------------------------------------
(* The invariant.                                                          *)

LEMMA InitInvariant == Init => IInv
BY InitTyped, IdleGood DEF Init, IInv, Good

\* What a call knows of its link stays true.
LEMMA CallKept ==
  ASSUME TypeOK, [Next]_vars, NEW c \in Call, CallOK(call[c]),
         /\ call'[c].at = call[c].at /\ call'[c].op = call[c].op /\ call'[c].ws = call[c].ws
         /\ call'[c].all = call[c].all /\ call'[c].link = call[c].link
         /\ call'[c].tags = call[c].tags
  PROVE  CallOK(call[c])'
BY LinkKept DEF CallOK, ByLink

\* A write takes from what was found no more than what it touches.
LEMMA StillFoundAfter ==
  ASSUME TypeOK, NEW c \in Call, NEW S \in SUBSET Doc, Disturbs(S), StillFound(call[c]),
         call[c].at \in {"tags", "count"}
  PROVE  StillFound(call[c])'
<1>1. call[c] \in CallRow
  BY TypeParts
<1>2. call'[c] = [call[c] EXCEPT !.touched = call[c].touched \cup S]
  BY DEF Disturbs, Touch
<1>3. /\ call'[c].touched = call[c].touched \cup S /\ call'[c].found = call[c].found
      /\ call'[c].op = call[c].op /\ call'[c].ws = call[c].ws /\ call'[c].all = call[c].all
      /\ call'[c].tags = call[c].tags
  BY <1>1, <1>2 DEF CallRow
<1>4. ASSUME NEW d \in Doc \ S
      PROVE  d \in Readable(call[c], call[c].tags)' <=> d \in Readable(call[c], call[c].tags)
  <2>1. doc'[d] = doc[d] /\ member'[Home[d]] = member[Home[d]] /\ bound' = bound
    BY DEF Disturbs
  <2>2. Home[d] \in Workspace
    BY Constants
  <2>3. Home[d] = call[c].ws =>
          (call'[c].ws \in Sees(Context(call[c]))' <=> call[c].ws \in Sees(Context(call[c])))
    BY <1>3, <2>1, <2>2 DEF Sees, Context
  <2>4. TagsOf(d)' = TagsOf(d)
    BY <2>1 DEF TagsOf
  <2> QED
    BY <1>3, <2>1, <2>3, <2>4 DEF Readable
<1>5. call[c].found \subseteq Doc
  BY <1>1 DEF CallRow
<1>6. call'[c].found \ call'[c].touched \subseteq Readable(call[c], call[c].tags)'
  BY <1>3, <1>4, <1>5 DEF StillFound
<1>7. ASSUME call'[c].touched = {}
      PROVE  Readable(call[c], call[c].tags)' = Readable(call[c], call[c].tags)
  <2>1. S = {}
    BY <1>3, <1>7
  <2>2. Readable(call[c], call[c].tags)' \subseteq Doc /\ Readable(call[c], call[c].tags) \subseteq Doc
    BY DEF Readable
  <2> QED
    BY <1>4, <2>1, <2>2
<1>8. call'[c].touched = {} => call[c].touched = {}
  BY <1>3
<1> QED
  BY <1>3, <1>6, <1>7, <1>8 DEF StillFound

LEMMA StepInvariant == IInv /\ [Next]_vars => IInv'
<1> SUFFICES ASSUME IInv, [Next]_vars PROVE IInv'
  OBVIOUS
<1>1. TypeOK /\ TablesTyped /\ EditsTyped /\ call \in [Call -> CallRow]
  BY TypeParts DEF IInv
<1>2. CASE Writes
  <2>1. PICK S \in SUBSET Doc : Disturbs(S)
    BY <1>1, <1>2, Write
  <2>2. ASSUME NEW c \in Call
        PROVE  call'[c] \in CallRow /\ CallOK(call[c])' /\ AnswerOK(call[c])'
    <3>1. CASE call[c].at \in {"tags", "count"}
      <4>1. call'[c] = [call[c] EXCEPT !.touched = call[c].touched \cup S]
        BY <2>1, <3>1 DEF Disturbs, Touch
      <4>2. /\ call'[c] \in CallRow /\ call'[c].touched = call[c].touched \cup S
            /\ call'[c].found = call[c].found /\ call'[c].shown = call[c].shown
            /\ call'[c].at = call[c].at /\ call'[c].op = call[c].op /\ call'[c].ws = call[c].ws
            /\ call'[c].all = call[c].all /\ call'[c].tags = call[c].tags
            /\ call'[c].link = call[c].link
        BY <1>1, <4>1 DEF CallRow
      <4>3. CallOK(call[c])'
        BY <1>1, <4>2, CallKept DEF IInv
      <4>4. StillFound(call[c])'
        BY <1>1, <2>1, <3>1, StillFoundAfter DEF IInv, AnswerOK
      <4>5. call[c].at = "count" => ShownOK(call[c])'
        BY <3>1, <4>2 DEF IInv, AnswerOK, ShownOK
      <4>6. AnswerOK(call[c])'
        BY <3>1, <4>2, <4>4, <4>5 DEF AnswerOK
      <4> QED
        BY <4>2, <4>3, <4>6
    <3>2. CASE call[c].at \notin {"tags", "count"}
      <4>1. call'[c] = call[c]
        BY <2>1, <3>2 DEF Disturbs, Touch
      <4>2. CallOK(call[c])'
        BY <1>1, <4>1, CallKept DEF IInv
      <4>3. AnswerOK(call[c])'
        BY <3>2, <4>1 DEF IInv, AnswerOK, ShownOK, TotalOK
      <4> QED
        BY <1>1, <4>1, <4>2, <4>3
    <3> QED
      BY <3>1, <3>2
  <2>3. call' \in [Call -> CallRow]
    BY <2>1, <2>2 DEF Disturbs, Touch
  <2> QED
    BY <1>1, <1>2, <2>2, <2>3, Write, TypeParts DEF IInv
<1>3. ASSUME TablesTyped', EditsTyped', UNCHANGED <<bound, member, doc, call>> PROVE IInv'
  <2>1. ASSUME NEW c \in Call PROVE CallOK(call[c])' /\ AnswerOK(call[c])'
    <3>1. CallOK(call[c])'
      BY <1>1, <1>3, CallKept DEF IInv
    <3>2. AnswerOK(call[c])'
      BY <1>3 DEF IInv, AnswerOK, StillFound, ShownOK, TotalOK, Readable, Sees, Context, TagsOf
    <3> QED
      BY <3>1, <3>2
  <2>2. TypeOK'
    BY <1>1, <1>3, TypeParts
  <2> QED
    BY <2>1, <2>2 DEF IInv
<1>4. CASE (\E e \in Edit : Manages(e)) \/ (\E l \in Link : Expire(l))
  BY <1>1, <1>3, <1>4, Manage
<1>5. CASE UNCHANGED vars
  BY <1>1, <1>3, <1>5 DEF vars, tables, TablesTyped, EditsTyped
<1>6. ASSUME NEW c \in Call, Asks(c) \/ Proceeds(c) PROVE IInv'
  <2>1. PICK row : Good(row) /\ Continue(c, row)
    BY <1>6, CallStep
  <2>2. /\ call' = [call EXCEPT ![c] = row] /\ UNCHANGED <<bound, member, doc, link, edit>>
        /\ row \in CallRow
    BY <2>1 DEF Continue, tables, Good
  <2>3. \A k \in Call : call'[k] = IF k = c THEN row ELSE call[k]
    BY <1>1, <2>2
  <2>4. call' \in [Call -> CallRow] /\ TablesTyped' /\ EditsTyped'
    BY <1>1, <2>2 DEF TablesTyped, EditsTyped
  <2>5. ASSUME NEW k \in Call PROVE CallOK(call[k])' /\ AnswerOK(call[k])'
    <3>1. CallOK(call'[k]) /\ AnswerOK(call'[k])
      BY <2>1, <2>3 DEF IInv, Good
    <3>2. CallOK(call[k])'
      BY <2>2, <3>1 DEF CallOK, ByLink
    <3>3. AnswerOK(call[k])'
      BY <2>2, <3>1 DEF AnswerOK, StillFound, ShownOK, TotalOK, Readable, Sees, Context, TagsOf
    <3> QED
      BY <3>2, <3>3
  <2> QED
    BY <2>4, <2>5, TypeParts DEF IInv
<1> QED
  BY <1>2, <1>4, <1>5, <1>6 DEF Next

LEMMA Invariance == Spec => []IInv
BY InitInvariant, StepInvariant, PTL DEF Spec

-----------------------------------------------------------------------------
(* The theorems.                                                           *)

\* The tables and the calls keep their types.
THEOREM TypeCorrect == Spec => []TypeOK
<1>1. IInv => TypeOK
  BY DEF IInv
<1> QED
  BY <1>1, Invariance, PTL

\* An answer agrees with itself but for what was touched while it was read.
THEOREM AnswersCorrect == Spec => []AnswersConsistent
<1>1. IInv => AnswersConsistent
  BY DEF IInv, AnswerOK, ShownOK, TotalOK, AnswersConsistent
<1> QED
  BY <1>1, Invariance, PTL

\* Who steps: a call that changes does so itself, or is touched.
LEMMA WhoSteps ==
  ASSUME IInv, [Next]_vars, NEW c \in Call
  PROVE  \/ call'[c] = call[c]
         \/ /\ call'[c].found = call[c].found /\ call'[c].link = call[c].link
            /\ call[c].at \in {"tags", "count"}
         \/ Asks(c) \/ Proceeds(c)
<1>1. call \in [Call -> CallRow]
  BY TypeParts DEF IInv
<1>2. CASE Writes
  <2>1. PICK S \in SUBSET Doc : Touch(S)
    BY <1>2, Write DEF IInv, Disturbs
  <2>2. CASE call[c].at \notin {"tags", "count"}
    BY <2>1, <2>2 DEF Touch
  <2>3. CASE call[c].at \in {"tags", "count"}
    <3>1. call'[c] = [call[c] EXCEPT !.touched = call[c].touched \cup S]
      BY <2>1, <2>3 DEF Touch
    <3> QED
      BY <1>1, <2>3, <3>1 DEF CallRow
  <2> QED
    BY <2>2, <2>3
<1>3. CASE (\E e \in Edit : Manages(e)) \/ (\E l \in Link : Expire(l))
  BY <1>3, Manage DEF IInv
<1>4. ASSUME NEW k \in Call, Asks(k) \/ Proceeds(k), k # c PROVE call'[c] = call[c]
  <2>1. PICK row : Continue(k, row)
    BY <1>4, CallStep
  <2> QED
    BY <1>1, <1>4, <2>1 DEF Continue
<1> QED
  BY <1>2, <1>3, <1>4 DEF Next, vars

\* Only a read finds anything, and finds what its conditions say.
LEMMA OnlyReadFinds ==
  ASSUME IInv, [Next]_vars, NEW c \in Call, NEW d \in call'[c].found \ call[c].found
  PROVE  call[c].at = "read" /\ d \in Readable(call[c], call[c].tags)
<1>1. call \in [Call -> CallRow]
  BY TypeParts DEF IInv
<1>2. Asks(c) \/ Proceeds(c)
  BY WhoSteps
<1>3. PICK row : row \in CallRow /\ Continue(c, row) /\ (Read(c) \/ row.found \in {{}, call[c].found})
  BY <1>2, CallStep DEF Good
<1>4. call'[c] = row
  BY <1>1, <1>3 DEF Continue
<1>5. Read(c)
  BY <1>3, <1>4
<1>6. PICK F \in SUBSET Readable(call[c], call[c].tags) :
        call' = [call EXCEPT ![c] = [call[c] EXCEPT !.at = "tags", !.found = F]]
  BY <1>5 DEF Read, Continue
<1>7. call'[c].found = F
  BY <1>1, <1>6 DEF CallRow
<1> QED
  BY <1>5, <1>6, <1>7 DEF Read

\* What is shown to those outside is what their link allows, and what a search
\* shows is the searcher's workspace's; of a workspace the policies hide,
\* nothing.
THEOREM SharesCorrect == Spec => FindsOnlyShared
<1>1. ASSUME IInv, [Next]_vars, NEW c \in Call, NEW d \in Doc,
             d \in call'[c].found \ call[c].found
      PROVE  /\ doc[d].state = "done" /\ Home[d] = call[c].ws
             /\ bound => call[c].op # "search" /\ Creator[Home[d]] \in member[Home[d]]
             /\ call[c].op = "search" => call[c].all \/ doc[d].verified
             /\ call[c].op # "search" =>
                  LET A == link[call[c].link].allowed IN
                  doc[d].verified /\ (A = {} \/ A \cap TagsOf(d) # {})
  <2>1. call[c].at = "read" /\ d \in Readable(call[c], call[c].tags)
    BY <1>1, OnlyReadFinds
  <2>2. /\ doc[d].state = "done" /\ Home[d] = call[c].ws /\ call[c].ws \in Sees(Context(call[c]))
        /\ call[c].all \/ doc[d].verified
        /\ call[c].tags = {} \/ call[c].tags \cap TagsOf(d) # {}
    BY <2>1 DEF Readable
  <2>3. Home[d] \in Workspace /\ Creator[Home[d]] \in User /\ member[Home[d]] \subseteq User
    BY <1>1, Constants, TypeParts DEF IInv, TablesTyped
  <2>4. bound => call[c].op # "search" /\ Creator[Home[d]] \in member[Home[d]]
    BY <2>2, <2>3, Constants DEF Sees, Context
  <2>5. call[c].op # "search" => ByLink(call[c])
    BY <1>1, <2>1 DEF IInv, CallOK
  <2> QED
    BY <2>2, <2>4, <2>5 DEF ByLink
<1>2. IInv /\ [Next]_vars =>
        [\A c \in Call, d \in Doc :
           d \in call'[c].found \ call[c].found =>
             /\ doc[d].state = "done" /\ Home[d] = call[c].ws
             /\ bound => call[c].op # "search" /\ Creator[Home[d]] \in member[Home[d]]
             /\ call[c].op = "search" => call[c].all \/ doc[d].verified
             /\ call[c].op # "search" =>
                  LET A == link[call[c].link].allowed IN
                  doc[d].verified /\ (A = {} \/ A \cap TagsOf(d) # {})]_vars
  BY <1>1
<1> QED
  BY <1>2, Invariance, PTL DEF Spec, FindsOnlyShared

\* A list shows all that its link shares, as far as the limit goes.
THEOREM SharedCorrect == Spec => SharedAreFound
<1>1. ASSUME IInv, [Next]_vars, NEW c \in Call,
             call[c].op = "list", call[c].at = "read", call'[c].at = "tags",
             \A t \in call[c].tags : Normal[t] = t,
             bound => Creator[call[c].ws] \in member[call[c].ws],
             Cardinality(call'[c].found) < Limit
      PROVE  {d \in Doc :
                /\ doc[d].state = "done" /\ doc[d].verified /\ Home[d] = call[c].ws
                /\ call[c].tags = {} \/ \E t \in doc[d].given : Normal[t] \in call[c].tags}
               \subseteq call'[c].found
  <2>1. call \in [Call -> CallRow]
    BY <1>1, TypeParts DEF IInv
  <2>2. Asks(c) \/ Proceeds(c)
    BY <1>1, WhoSteps
  <2>3. call[c] # Idle /\ Idle.at # "tags"
    BY <1>1, IdleFields
  <2>4. Proceeds(c)
    BY <2>2, <2>3 DEF Asks, List, Query, QueryNothing, Search
  <2>5. Read(c)
    BY <1>1, <2>1, <2>3, <2>4
    DEF Proceeds, Again, Embedded, Fails, ReadTags, Count, Answer, Return, Continue
  <2>6. PICK F \in SUBSET Readable(call[c], call[c].tags) :
          /\ F = Readable(call[c], call[c].tags) \/ Cardinality(F) = Limit
          /\ call' = [call EXCEPT ![c] = [call[c] EXCEPT !.at = "tags", !.found = F]]
    BY <1>1, <2>5 DEF Read, Continue
  <2>7. call'[c].found = F /\ Limit \in Nat
    BY <2>1, <2>6, Constants DEF CallRow
  <2>8. F = Readable(call[c], call[c].tags)
    BY <1>1, <2>6, <2>7
  <2>9. ASSUME NEW d \in Doc, doc[d].state = "done", doc[d].verified, Home[d] = call[c].ws,
               call[c].tags = {} \/ \E t \in doc[d].given : Normal[t] \in call[c].tags
        PROVE  d \in Readable(call[c], call[c].tags)
    <3>1. call[c].ws \in Workspace
      BY <2>9, Constants
    <3>2. call[c].ws \in Sees(Context(call[c]))
      BY <1>1, <3>1, Constants DEF Sees, Context
    <3>3. call[c].tags = {} \/ call[c].tags \cap TagsOf(d) # {}
      BY <2>9 DEF TagsOf
    <3> QED
      BY <2>9, <3>2, <3>3 DEF Readable
  <2> QED
    BY <2>7, <2>8, <2>9
<1>2. IInv /\ [Next]_vars =>
        [\A c \in Call :
           LET q == call[c] IN
           /\ q.op = "list" /\ q.at = "read" /\ call'[c].at = "tags"
           /\ \A t \in q.tags : Normal[t] = t
           /\ bound => Creator[q.ws] \in member[q.ws]
           /\ Cardinality(call'[c].found) < Limit
           => {d \in Doc :
                 /\ doc[d].state = "done" /\ doc[d].verified /\ Home[d] = q.ws
                 /\ q.tags = {} \/ \E t \in doc[d].given : Normal[t] \in q.tags}
                \subseteq call'[c].found]_vars
  BY <1>1
<1> QED
  BY <1>2, Invariance, PTL DEF Spec, SharedAreFound

\* A link that was deleted or has expired is never good again, and lets no
\* further call in.
THEOREM RevokedCorrect == Spec => RevokedLetsNobodyIn
<1>1. ASSUME IInv, [Next]_vars, NEW l \in Link,
             link[l].state = "gone" \/ link[l].expires = "past"
      PROVE  link'[l].state = "gone" \/ link'[l].expires = "past"
  <2>1. link[l] \in LinkRow /\ link[l] # NoLink
    BY <1>1, TypeParts DEF IInv, TablesTyped, NoLink
  <2>2. link'[l] \in {link[l], Gone(link[l]), [link[l] EXCEPT !.expires = "past"]}
    BY <1>1, <2>1, LinkSteps DEF IInv
  <2> QED
    BY <1>1, <2>1, <2>2 DEF Gone, LinkRow
<1>2. ASSUME IInv, [Next]_vars, NEW l \in Link,
             link[l].state = "gone" \/ link[l].expires = "past",
             NEW c \in Call, call'[c].link = l
      PROVE  call[c].link = l
  <2>1. ~Valid(l) /\ l # None
    BY <1>2, Constants DEF Valid, FoundByToken
  <2>2. CASE Asks(c) \/ Proceeds(c)
    <3>1. PICK row : /\ Continue(c, row)
                    /\ \/ row.link \in {None, call[c].link}
                       \/ row.link \in Link /\ Valid(row.link)
      BY <1>2, <2>2, CallStep
    <3>2. call'[c] = row
      BY <1>2, <3>1, TypeParts DEF IInv, Continue
    <3> QED
      BY <1>2, <2>1, <3>1, <3>2
  <2> QED
    BY <1>2, <2>2, WhoSteps
<1>3. IInv /\ [Next]_vars =>
        [\A l \in Link :
           link[l].state = "gone" \/ link[l].expires = "past" =>
             /\ link'[l].state = "gone" \/ link'[l].expires = "past"
             /\ \A c \in Call : call'[c].link = l => call[c].link = l]_vars
  BY <1>1, <1>2
<1> QED
  BY <1>3, Invariance, PTL DEF Spec, RevokedLetsNobodyIn
=============================================================================
