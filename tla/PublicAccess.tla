---------------------------- MODULE PublicAccess ----------------------------
(***************************************************************************)
(* Reading a workspace's documents from outside and inside: public links   *)
(* (application/public-link/public-link.service.ts with its repository),   *)
(* the members' search (application/search/search.service.ts with its      *)
(* repository), and the row level security that stands behind them         *)
(* (prisma.service.ts and the policies of prisma/migrations).              *)
(*                                                                         *)
(* A call reads in several statements: the link or the membership, then,   *)
(* after the embedding of the query is awaited, the documents, their tags  *)
(* and their number.  Documents, members and links change in between; a    *)
(* transaction does not prevent it, since PostgreSQL's default gives every *)
(* statement a snapshot of its own.                                        *)
(*                                                                         *)
(* A definition named Faulty... is its neighbour with a bug in it; nothing *)
(* uses it but the checks that a property would notice the bug.            *)
(***************************************************************************)
EXTENDS Naturals, FiniteSets

CONSTANTS
  User, Workspace, Doc, Link,
  System,   \* the user of withoutRls()
  Call,     \* reading calls
  Edit,     \* calls that create and delete links
  None,
  Creator,  \* Workspace.createdById
  Home,     \* the workspace of each document and link
  Normal,   \* ensureTagsWithTx: what becomes of a tag's spelling
  TagSets,  \* the sets of tags people enter
  Limit,    \* the rows a call asks for
  Roster,   \* bound on who may become a member of each workspace
  Deletable \* bound on the workspaces that may be deleted

Tag == DOMAIN Normal

ASSUME AccessAssumption ==
  /\ None \notin User \cup Link \cup Workspace
  /\ System \notin User \cup {None}
  /\ Creator \in [Workspace -> User]
  /\ IsFiniteSet(Doc)
  /\ Home \in [Doc \cup Link -> Workspace]
  /\ Normal \in [Tag -> Tag] /\ \A t \in Tag : Normal[Normal[t]] = Normal[t]
  /\ TagSets \subseteq SUBSET Tag
  /\ Limit \in Nat \ {0}
  /\ Roster \in [Workspace -> SUBSET User]
  /\ Deletable \subseteq Workspace

VARIABLES
  bound,   \* whether the policies bind the role the server connects as
  member,  \* WorkspaceMember: the users of each workspace
  doc,     \* Document with its DocumentTags, as they were entered
  link,    \* PublicLink
  call,    \* the reading calls
  edit     \* the calls that create and delete links

tables == <<member, doc, link>>
vars == <<bound, tables, call, edit>>

-----------------------------------------------------------------------------
(* The tables.                                                             *)

NoDoc == [state |-> "none", verified |-> FALSE, given |-> {}]
GoneDoc == [NoDoc EXCEPT !.state = "gone"]
NoLink == [state |-> "none", allowed |-> {}, expires |-> "never"]

\* A link's row once it is deleted; what it allowed is kept for the properties.
Gone(row) == [row EXCEPT !.state = "gone", !.expires = "never"]

\* A document's tags are stored normalised; a link's are stored as entered.
FaultyTagsOf(d) == doc[d].given
TagsOf(d) == {Normal[t] : t \in doc[d].given}

\* The workspaces whose rows a statement sees: get_user_workspace_ids().
\* None is a statement outside forUser() and withoutRls().
Sees(context) ==
  IF bound /\ context # System THEN {w \in Workspace : context \in member[w]} ELSE Workspace

-----------------------------------------------------------------------------
Idle == [at |-> "idle", op |-> "none", link |-> None, ws |-> None,
         asked |-> {}, tags |-> {}, all |-> FALSE, found |-> {}, shown |-> {}, total |-> 0,
         touched |-> {}]

NoEdit == [at |-> "idle", by |-> None, link |-> None]

Init ==
  /\ bound \in BOOLEAN
  /\ member = [w \in Workspace |-> {Creator[w]}]
  /\ doc = [d \in Doc |-> NoDoc]
  /\ link = [l \in Link |-> NoLink]
  /\ call = [c \in Call |-> Idle]
  /\ edit = [e \in Edit |-> NoEdit]

-----------------------------------------------------------------------------
(* Members and documents change.                                           *)

\* The documents S, or who sees them, change between the reads of a call.
Touch(S) ==
  call' = [c \in Call |->
             IF call[c].at \in {"tags", "count"}
               THEN [call[c] EXCEPT !.touched = @ \cup S] ELSE call[c]]

\* A workspace without members is gone.
Join(u, w) ==
  /\ member[w] # {} /\ u \in Roster[w] \ member[w]
  /\ member' = [member EXCEPT ![w] = @ \cup {u}]
  /\ Touch({d \in Doc : Home[d] = w})
  /\ UNCHANGED <<bound, doc, link, edit>>

Leave(u, w) ==
  /\ u \in member[w] /\ member[w] # {u}
  /\ member' = [member EXCEPT ![w] = @ \ {u}]
  /\ Touch({d \in Doc : Home[d] = w})
  /\ UNCHANGED <<bound, doc, link, edit>>

\* The cascades of the schema.
DeleteWorkspace(w) ==
  /\ w \in Deletable /\ member[w] # {}
  /\ member' = [member EXCEPT ![w] = {}]
  /\ doc' = [d \in Doc |-> IF Home[d] = w THEN GoneDoc ELSE doc[d]]
  /\ link' = [l \in Link |-> IF Home[l] = w THEN Gone(link[l]) ELSE link[l]]
  /\ Touch({d \in Doc : Home[d] = w})
  /\ UNCHANGED <<bound, edit>>

Store(d, row) ==
  doc' = [doc EXCEPT ![d] = row] /\ Touch({d}) /\ UNCHANGED <<bound, member, link, edit>>

\* "busy" is every processing status but COMPLETED.
Add(d, tags, verified) ==
  /\ doc[d] = NoDoc /\ member[Home[d]] # {}
  /\ Store(d, [state |-> "busy", verified |-> verified, given |-> tags])

\* update() of the tags or the verification, with or without a new content.
Change(d, tags, verified, state) ==
  /\ doc[d].state \in {"busy", "done"}
  /\ state \in {doc[d].state, "busy"}
  /\ Store(d, [state |-> state, verified |-> verified, given |-> tags])

Processed(d) == doc[d].state = "busy" /\ Store(d, [doc[d] EXCEPT !.state = "done"])

Delete(d) == doc[d].state \in {"busy", "done"} /\ Store(d, GoneDoc)

-----------------------------------------------------------------------------
(* Links.                                                                  *)

Steps(e, row) == edit' = [edit EXCEPT ![e] = row]

\* create() and delete() begin with ensureMember.
Check(e, u, l, at) ==
  /\ edit[e] = NoEdit
  /\ u \in member[Home[l]]
  /\ Steps(e, [at |-> at, by |-> IF at = "find" THEN u ELSE None, link |-> l])
  /\ UNCHANGED <<bound, tables, call>>

\* The workspace must still be there; the policies let everybody insert.
Insert(e) ==
  LET l == edit[e].link IN
  /\ edit[e].at = "insert"
  /\ IF link[l] = NoLink /\ member[Home[l]] # {}
       THEN \E A \in TagSets, x \in {"never", "later"} :
              link' = [link EXCEPT ![l] =
                         [state |-> "live", allowed |-> A, expires |-> x]]
       ELSE UNCHANGED link
  /\ Steps(e, NoEdit)
  /\ UNCHANGED <<bound, member, doc, call>>

SeesLink(e) == link[edit[e].link].state = "live" /\ Home[edit[e].link] \in Sees(edit[e].by)

\* findOneWithUser, and 404 if there is none.
Find(e) ==
  /\ edit[e].at = "find"
  /\ Steps(e, IF SeesLink(e) THEN [edit[e] EXCEPT !.at = "remove"] ELSE NoEdit)
  /\ UNCHANGED <<bound, tables, call>>

\* deleteWithUser, which throws if it is gone by now.
Remove(e) ==
  /\ edit[e].at = "remove"
  /\ IF SeesLink(e) THEN link' = [link EXCEPT ![edit[e].link] = Gone(@)]
                    ELSE UNCHANGED link
  /\ Steps(e, NoEdit)
  /\ UNCHANGED <<bound, member, doc, call>>

\* Time passes.
Expire(l) ==
  /\ link[l].expires = "later"
  /\ link' = [link EXCEPT ![l].expires = "past"]
  /\ UNCHANGED <<bound, member, doc, call, edit>>

-----------------------------------------------------------------------------
(* Reading.                                                                *)

\* withoutRls().
SystemSees == Sees(System)

\* findByToken.
FoundByToken(l) == link[l].state = "live" /\ Home[l] \in SystemSees

\* validateToken(); nothing ever clears isActive.
FaultyValid(l) == FoundByToken(l)
Valid(l) == FoundByToken(l) /\ link[l].expires # "past"

\* The tags a document must have one of; none of them is no condition, so
\* tags that are all refused must not come to this.
FaultyRefused(allowed, asked) == FALSE
Refused(allowed, asked) == allowed # {} /\ asked # {} /\ allowed \cap asked = {}
Effective(allowed, asked) ==
  IF allowed = {} \/ asked = {} THEN allowed \cup asked ELSE allowed \cap asked

Continue(c, row) == call' = [call EXCEPT ![c] = row] /\ UNCHANGED <<bound, tables, edit>>
Return(c) == Continue(c, Idle)

\* What getPublicDocuments and searchPublic do with a link: an empty answer,
\* or the way to the documents.
Admit(c, l, op, asked) ==
  IF ~Valid(l) \/ Refused(link[l].allowed, asked) THEN Return(c)
  ELSE Continue(c, [Idle EXCEPT
         !.at = IF op = "list" THEN "read" ELSE "embedding", !.op = op,
         !.link = l, !.ws = Home[l], !.tags = Effective(link[l].allowed, asked)])

List(c, l, asked) == call[c] = Idle /\ Admit(c, l, "list", asked)
Query(c, l, asked) == call[c] = Idle /\ Admit(c, l, "query", asked)

\* searchPublic without a query validates, and calls getPublicDocuments.
QueryNothing(c, l, asked) ==
  /\ call[c] = Idle
  /\ Valid(l)
  /\ Continue(c, [Idle EXCEPT !.at = "again", !.op = "list", !.link = l, !.ws = Home[l],
                             !.asked = asked])

Again(c) ==
  call[c].at = "again" /\ Admit(c, call[c].link, "list", call[c].asked)

\* The members' search.
Search(c, u, w, asked, all) ==
  /\ call[c] = Idle
  /\ u \in member[w]
  /\ Continue(c, [Idle EXCEPT !.at = "embedding", !.op = "search", !.ws = w,
                             !.tags = asked, !.all = all])

Embedded(c) == call[c].at = "embedding" /\ Continue(c, [call[c] EXCEPT !.at = "read"])

\* The embeddings service or the database fails.
Fails(c) == call[c].at \notin {"idle", "answered"} /\ Return(c)

\* Public reads run as the creator of the workspace; the search sets no user.
Context(q) == IF q.op = "search" THEN None ELSE Creator[q.ws]

\* The documents that satisfy the conditions of a statement of call q.
Readable(q, tags) ==
  {d \in Doc :
     /\ doc[d].state = "done"
     /\ Home[d] = q.ws /\ q.ws \in Sees(Context(q))
     /\ q.all \/ doc[d].verified
     /\ tags = {} \/ tags \cap TagsOf(d) # {}}

\* Lists give documents, as many as there are up to the limit; searches give
\* chunks, which may all be of a few documents.
Read(c) ==
  LET R == Readable(call[c], call[c].tags) IN
  /\ call[c].at = "read"
  /\ \E F \in SUBSET R :
       /\ Cardinality(F) <= Limit
       /\ call[c].op = "list" => F = R \/ Cardinality(F) = Limit
       /\ Continue(c, [call[c] EXCEPT !.at = "tags", !.found = F])

\* The tags of the documents found, if the statement sees them.
ReadTags(c) ==
  LET q == call[c] IN
  /\ q.at = "tags"
  /\ Continue(c, [q EXCEPT
       !.at = IF q.op = "query" THEN "answered" ELSE "count",
       !.shown = {p \in q.found \X Tag :
                    p[2] \in TagsOf(p[1]) /\ q.ws \in Sees(Context(q))}])

\* getTotalCount() ignores the tags; a list counts what it shows.
FaultyCounted(q) == Readable([q EXCEPT !.all = FALSE], q.tags)
Counted(q) == Readable(q, IF q.op = "search" THEN {} ELSE q.tags)

Count(c) ==
  /\ call[c].at = "count"
  /\ Continue(c, [call[c] EXCEPT !.at = "answered", !.total = Cardinality(Counted(call[c]))])

Answer(c) == call[c].at = "answered" /\ Return(c)

-----------------------------------------------------------------------------
Writes ==
  \/ \E w \in Workspace : DeleteWorkspace(w) \/ \E u \in User : Join(u, w) \/ Leave(u, w)
  \/ \E d \in Doc :
       \/ Processed(d) \/ Delete(d)
       \/ \E T \in TagSets, v \in BOOLEAN :
            Add(d, T, v) \/ \E s \in {"busy", "done"} : Change(d, T, v, s)

Manages(e) ==
  \/ \E u \in User, l \in Link, at \in {"insert", "find"} : Check(e, u, l, at)
  \/ Insert(e) \/ Find(e) \/ Remove(e)

Asks(c) ==
  \E asked \in TagSets :
    \/ \E l \in Link : List(c, l, asked) \/ Query(c, l, asked) \/ QueryNothing(c, l, asked)
    \/ \E u \in User, w \in Workspace, all \in BOOLEAN : Search(c, u, w, asked, all)

Proceeds(c) ==
  Again(c) \/ Embedded(c) \/ Fails(c) \/ Read(c) \/ ReadTags(c) \/ Count(c) \/ Answer(c)

Next ==
  \/ Writes
  \/ \E e \in Edit : Manages(e)
  \/ \E l \in Link : Expire(l)
  \/ \E c \in Call : Asks(c) \/ Proceeds(c)

Spec == Init /\ [][Next]_vars

-----------------------------------------------------------------------------
(* Properties.                                                             *)

TypeOK ==
  /\ bound \in BOOLEAN
  /\ member \in [Workspace -> SUBSET User]
  /\ doc \in [Doc -> [state : {"none", "busy", "done", "gone"}, verified : BOOLEAN,
                      given : SUBSET Tag]]
  /\ link \in [Link -> [state : {"none", "live", "gone"}, allowed : SUBSET Tag,
                        expires : {"never", "later", "past"}]]
  /\ call \in [Call -> [at : {"idle", "again", "embedding", "read", "tags", "count",
                              "answered"},
                        op : {"none", "list", "query", "search"},
                        link : Link \cup {None}, ws : Workspace \cup {None},
                        asked : SUBSET Tag, tags : SUBSET Tag, all : BOOLEAN,
                        found : SUBSET Doc, shown : SUBSET (Doc \X Tag),
                        total : Nat, touched : SUBSET Doc]]
  /\ edit \in [Edit -> [at : {"idle", "insert", "find", "remove"},
                        by : User \cup {None}, link : Link \cup {None}]]

\* What a link shows is verified, processed and of the link's workspace, and
\* has one of the tags the link allows, whatever tags were asked for; what a
\* search shows is of the searcher's workspace, and verified unless unverified
\* documents were asked for; and of a workspace the policies hide from the
\* call, nothing.
FindsOnlyShared ==
  [][\A c \in Call, d \in Doc :
       d \in call'[c].found \ call[c].found =>
         /\ doc[d].state = "done" /\ Home[d] = call[c].ws
         /\ bound => call[c].op # "search" /\ Creator[Home[d]] \in member[Home[d]]
         /\ call[c].op = "search" => call[c].all \/ doc[d].verified
         /\ call[c].op # "search" =>
              LET A == link[call[c].link].allowed IN
              doc[d].verified /\ (A = {} \/ A \cap TagsOf(d) # {})]_vars

\* A list shows every verified, processed document that somebody gave one of
\* the tags of the link, in whatever spelling, as far as the limit goes, if
\* the link's own tags are in the spelling that is stored.
SharedAreFound ==
  [][\A c \in Call :
       LET q == call[c] IN
       /\ q.op = "list" /\ q.at = "read" /\ call'[c].at = "tags"
       /\ \A t \in q.tags : Normal[t] = t
       /\ bound => Creator[q.ws] \in member[q.ws]
       /\ Cardinality(call'[c].found) < Limit
       => {d \in Doc :
             /\ doc[d].state = "done" /\ doc[d].verified /\ Home[d] = q.ws
             /\ q.tags = {} \/ \E t \in doc[d].given : Normal[t] \in q.tags}
            \subseteq call'[c].found]_vars

\* An answer agrees with itself except for what changed while it was read: a
\* document is shown with its tags, among them one that was asked for, and the
\* total covers what is shown.
AnswersConsistent ==
  \A c \in Call :
    LET q == call[c] IN
    q.at = "answered" =>
      /\ \A p \in q.shown : p[1] \in q.found
      /\ \A d \in q.found \ q.touched :
           q.tags = {} \/ \E t \in q.tags : <<d, t>> \in q.shown
      /\ q.touched = {} /\ q.op # "query" => Cardinality(q.found) <= q.total
      /\ q.touched = {} /\ q.op = "list" =>
           Cardinality(q.found) = IF q.total < Limit THEN q.total ELSE Limit

\* A link that was deleted or has expired lets no further call in, though it
\* is still answered for those under way, and is never good again.
RevokedLetsNobodyIn ==
  [][\A l \in Link :
       link[l].state = "gone" \/ link[l].expires = "past" =>
         /\ link'[l].state = "gone" \/ link'[l].expires = "past"
         /\ \A c \in Call : call'[c].link = l => call[c].link = l]_vars
=============================================================================
