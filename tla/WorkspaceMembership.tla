------------------------- MODULE WorkspaceMembership -------------------------
(***************************************************************************)
(* WorkspaceService, AcceptInviteUseCase and the workspace lookup: rows of *)
(* the Workspace, WorkspaceMember, User and Invitation tables, and the     *)
(* UserWorkspaceLookup rows that the listener of `workspace.member.added`  *)
(* and `.removed` derives from them in connections of its own.  (As in the *)
(* other modules, a Faulty... definition is there for the checks only.)    *)
(*                                                                         *)
(* A transaction that reads and then writes is a check and, later, a       *)
(* write.  addMember and removeMember emit their event inside the          *)
(* transaction, so theirs are three steps: check, write and emit, commit.  *)
(* A written row stays locked and unseen until the commit.  A user stands  *)
(* for its id, its e-mail address (unique, never changed) and the hash of  *)
(* it; an invitation is named after the request that created it.           *)
(***************************************************************************)
EXTENDS Naturals

CONSTANTS
  Workspace,   \* workspace ids, never used twice
  User,        \* people, with or without an account
  Request,     \* requests
  Null,        \* no value
  DbFaults,    \* may a statement or a commit fail for no reason of its own?
  MaxCrashes   \* bound on crashes of the server

Role == {"OWNER", "ADMIN", "MEMBER"}

\* A membership, or a lookup row: a workspace and a user.
Key == Workspace \X User

ASSUME ConstantsAssumption ==
  /\ Null \notin Role \cup User \cup Request \cup Workspace \cup Key
  /\ Null \notin {"PENDING", "ACCEPTED", "EXPIRED", "added", "removed"}
  /\ Request \cap Workspace = {}
  /\ DbFaults \in BOOLEAN
  /\ MaxCrashes \in Nat

VARIABLES
  workspace,   \* "absent", "live" or "deleted"
  accounts,    \* users with an account
  origin,      \* history: the invitation, or the registration with a
               \* workspace of its own, that made a user's account
  role,        \* WorkspaceMember.role, Null where there is no row
  lookup,      \* UserWorkspaceLookup rows
  status,      \* Invitation.status, by the request that created it
  lapsed,      \* invitations that are past expiresAt
  pc,          \* where each request is
  key,         \* the membership it creates or removes, the one it invites to
  by,          \* the owner (or admin) who asks for it
  grant,       \* the role it grants
  uses,        \* the invitation it accepts
  event,       \* the event its listener has not finished with
  crashes,
  silent,      \* history: memberships created without an event
  disturbed,   \* history: keys whose events raced, failed or died
  raced        \* history: workspaces where two removals overlapped

tables == <<workspace, accounts, origin, role, lookup, status, lapsed>>
inputs == <<key, by, grant, uses>>
history == <<silent, disturbed, raced>>
vars == <<tables, pc, inputs, event, crashes, history>>

Busy == {"add", "adding", "emit", "remove", "removing", "delete", "invite",
         "expire", "hash"}

Init ==
  /\ workspace = [w \in Workspace |-> "absent"]
  /\ accounts = {}
  /\ origin = [u \in User |-> Null]
  /\ role = [k \in Key |-> Null]
  /\ lookup = {}
  /\ status = [q \in Request |-> Null]
  /\ lapsed = {}
  /\ pc = [q \in Request |-> "free"]
  /\ key = [q \in Request |-> Null]
  /\ by = [q \in Request |-> Null]
  /\ grant = [q \in Request |-> Null]
  /\ uses = [q \in Request |-> Null]
  /\ event = [q \in Request |-> Null]
  /\ crashes = 0
  /\ silent = {}
  /\ disturbed = {}
  /\ raced = {}

Goto(q, label) == pc' = [pc EXCEPT ![q] = label]

Live(k) == workspace[k[1]] = "live"

\* The request has yet to settle the lookup row of k.
BusyOn(q, k) ==
  /\ key[q] = k
  /\ pc[q] \in {"add", "adding", "emit", "remove", "removing"} \/ event[q] # Null

\* Another request is at work on k while a new one begins.
Contend(k) ==
  disturbed' = IF \E q \in Request : BusyOn(q, k)
                 THEN disturbed \cup {k} ELSE disturbed

\* A row of k that another transaction wrote and has not committed.
Locked(k) == \E q \in Request : pc[q] \in {"adding", "removing"} /\ key[q] = k

-----------------------------------------------------------------------------
(* Accounts and workspaces.                                                *)

\* User.email is unique.
FaultyAddressFree(u) == TRUE
AddressFree(u) == u \notin accounts

\* userRepository.createWithWorkspace: the account, its workspace and the
\* membership in one transaction.  No event is emitted.
Register(w, u) ==
  /\ workspace[w] = "absent"
  /\ AddressFree(u)
  /\ workspace' = [workspace EXCEPT ![w] = "live"]
  /\ accounts' = accounts \cup {u}
  /\ origin' = [origin EXCEPT ![u] = w]
  /\ role' = [role EXCEPT ![<<w, u>>] = "OWNER"]
  /\ silent' = silent \cup {<<w, u>>}
  /\ UNCHANGED <<lookup, status, lapsed, pc, inputs, event, crashes, disturbed,
                 raced>>

\* create(): the event follows the commit.
Create(q, w, u) ==
  /\ pc[q] = "free"
  /\ workspace[w] = "absent"
  /\ u \in accounts
  /\ workspace' = [workspace EXCEPT ![w] = "live"]
  /\ role' = [role EXCEPT ![<<w, u>>] = "OWNER"]
  /\ key' = [key EXCEPT ![q] = <<w, u>>]
  /\ Goto(q, "emit")
  /\ UNCHANGED <<accounts, origin, lookup, status, lapsed, by, grant, uses,
                 event, crashes, history>>

FaultyEmitted == Null
Emitted == "added"

Emit(q) ==
  /\ pc[q] = "emit"
  /\ event' = [event EXCEPT ![q] = Emitted]
  /\ Goto(q, "done")
  /\ UNCHANGED <<tables, inputs, crashes, history>>

\* delete(), ensureOwnerTx ...
DeleteCheck(q, w, o) ==
  /\ pc[q] = "free"
  /\ role[<<w, o>>] = "OWNER"
  /\ key' = [key EXCEPT ![q] = <<w, o>>]
  /\ Goto(q, "delete")
  /\ UNCHANGED <<tables, by, grant, uses, event, crashes, history>>

LookupWithout(w) == {k \in lookup : k[1] # w}

\* ... and the row, with its memberships, lookup rows and invitations
\* (onDelete: Cascade).  It waits for memberships that are being written; a
\* workspace that is gone already makes the request fail.
DeleteWorkspace(q) ==
  /\ pc[q] = "delete"
  /\ LET w == key[q][1] IN
     IF Live(key[q])
       THEN /\ ~ \E u \in User : Locked(<<w, u>>)
            /\ workspace' = [workspace EXCEPT ![w] = "deleted"]
            /\ role' = [k \in Key |-> IF k[1] = w THEN Null ELSE role[k]]
            /\ lookup' = LookupWithout(w)
            /\ status' = [i \in Request |->
                 IF status[i] # Null /\ key[i][1] = w THEN Null ELSE status[i]]
       ELSE UNCHANGED <<workspace, role, lookup, status>>
  /\ Goto(q, "done")
  /\ UNCHANGED <<accounts, origin, lapsed, inputs, event, crashes, history>>

-----------------------------------------------------------------------------
(* addMember and removeMember.                                             *)

AddCheck(q, o, k, r) ==
  /\ pc[q] = "free"
  /\ role[<<k[1], o>>] = "OWNER"
  /\ k[2] \in accounts
  /\ key' = [key EXCEPT ![q] = k]
  /\ by' = [by EXCEPT ![q] = o]
  /\ grant' = [grant EXCEPT ![q] = r]
  /\ Contend(k)
  /\ Goto(q, "add")
  /\ UNCHANGED <<tables, uses, event, crashes, silent, raced>>

\* The insert, and the event before its commit.  It waits for a transaction
\* that has written the same row, and fails if the user is a member or the
\* workspace is gone.
AddWrite(q) ==
  /\ pc[q] = "add"
  /\ ~Locked(key[q])
  /\ IF Live(key[q]) /\ role[key[q]] = Null
       THEN /\ Goto(q, "adding")
            /\ event' = [event EXCEPT ![q] = "added"]
       ELSE /\ Goto(q, "done")
            /\ UNCHANGED event
  /\ UNCHANGED <<tables, inputs, crashes, history>>

AddCommit(q) ==
  /\ pc[q] = "adding"
  /\ role' = [role EXCEPT ![key[q]] = grant[q]]
  /\ Goto(q, "done")
  /\ UNCHANGED <<workspace, accounts, origin, lookup, status, lapsed, inputs,
                 event, crashes, history>>

FaultyMayRemove(o, k) == TRUE
MayRemove(o, k) == o # k[2]

\* "Cannot remove yourself as owner".
RemoveCheck(q, o, k) ==
  /\ pc[q] = "free"
  /\ role[<<k[1], o>>] = "OWNER"
  /\ MayRemove(o, k)
  /\ k[2] \in accounts
  /\ key' = [key EXCEPT ![q] = k]
  /\ by' = [by EXCEPT ![q] = o]
  /\ Contend(k)
  /\ raced' = IF \E p \in Request : /\ pc[p] \in {"remove", "removing"}
                                    /\ key[p][1] = k[1]
                THEN raced \cup {k[1]} ELSE raced
  /\ Goto(q, "remove")
  /\ UNCHANGED <<tables, grant, uses, event, crashes, silent>>

\* deleteMany and its event.  It waits for another delete of the row; where it
\* sees no row it deletes nothing, and emits all the same.
RemoveWrite(q) ==
  /\ pc[q] = "remove"
  /\ ~ \E p \in Request : pc[p] = "removing" /\ key[p] = key[q]
  /\ Goto(q, IF role[key[q]] = Null THEN "done" ELSE "removing")
  /\ event' = [event EXCEPT ![q] = "removed"]
  /\ UNCHANGED <<tables, inputs, crashes, history>>

RemoveCommit(q) ==
  /\ pc[q] = "removing"
  /\ role' = [role EXCEPT ![key[q]] = Null]
  /\ silent' = silent \ {key[q]}
  /\ Goto(q, "done")
  /\ UNCHANGED <<workspace, accounts, origin, lookup, status, lapsed, inputs,
                 event, crashes, disturbed, raced>>

\* The transaction fails and leaves no row; its event, if any, is out.
Rollback(q) ==
  /\ DbFaults
  /\ pc[q] \in {"add", "adding", "remove", "removing", "delete", "invite",
                "expire", "hash"}
  /\ disturbed' = IF pc[q] \in {"adding", "removing"}
                    THEN disturbed \cup {key[q]} ELSE disturbed
  /\ Goto(q, "done")
  /\ UNCHANGED <<tables, inputs, event, crashes, silent, raced>>

-----------------------------------------------------------------------------
(* WorkspaceLookupListener: the events of different requests are handled   *)
(* in any order, and a failure is only logged.                             *)

FaultyCanUpsert(k) == TRUE
CanUpsert(k) == Live(k)

HandleAdded(q) ==
  /\ event[q] = "added"
  /\ lookup' = IF CanUpsert(key[q]) THEN lookup \cup {key[q]} ELSE lookup
  /\ event' = [event EXCEPT ![q] = Null]
  /\ UNCHANGED <<workspace, accounts, origin, role, status, lapsed, pc, inputs,
                 crashes, history>>

HandleRemoved(q) ==
  /\ event[q] = "removed"
  /\ lookup' = lookup \ {key[q]}
  /\ event' = [event EXCEPT ![q] = Null]
  /\ UNCHANGED <<workspace, accounts, origin, role, status, lapsed, pc, inputs,
                 crashes, history>>

HandlerFails(q) ==
  /\ DbFaults
  /\ event[q] # Null
  /\ event' = [event EXCEPT ![q] = Null]
  /\ disturbed' = disturbed \cup {key[q]}
  /\ UNCHANGED <<tables, pc, inputs, crashes, silent, raced>>

-----------------------------------------------------------------------------
(* inviteMember and accept-invite.                                         *)

InviteCheck(q, o, k, r) ==
  /\ pc[q] = "free"
  /\ role[<<k[1], o>>] \in {"OWNER", "ADMIN"}
  /\ key' = [key EXCEPT ![q] = k]
  /\ by' = [by EXCEPT ![q] = o]
  /\ grant' = [grant EXCEPT ![q] = r]
  /\ Goto(q, "invite")
  /\ UNCHANGED <<tables, uses, event, crashes, history>>

\* The row; it fails if the workspace is gone.
Invite(q) ==
  /\ pc[q] = "invite"
  /\ status' = IF Live(key[q]) THEN [status EXCEPT ![q] = "PENDING"] ELSE status
  /\ Goto(q, "done")
  /\ UNCHANGED <<workspace, accounts, origin, role, lookup, lapsed, inputs,
                 event, crashes, history>>

\* Seven days go by.
Lapse(i) ==
  /\ status[i] # Null
  /\ lapsed' = lapsed \cup {i}
  /\ UNCHANGED <<workspace, accounts, origin, role, lookup, status, pc, inputs,
                 event, crashes, history>>

\* The row is read; one that is no longer PENDING is refused.
Accept(q, i) ==
  /\ pc[q] = "free"
  /\ status[i] = "PENDING"
  /\ uses' = [uses EXCEPT ![q] = i]
  /\ Goto(q, IF i \in lapsed THEN "expire" ELSE "hash")
  /\ UNCHANGED <<tables, key, by, grant, event, crashes, history>>

\* Whatever the status is by now; a row that is gone makes the update fail.
Expire(q) ==
  /\ pc[q] = "expire"
  /\ status' = IF status[uses[q]] # Null
                 THEN [status EXCEPT ![uses[q]] = "EXPIRED"] ELSE status
  /\ Goto(q, "done")
  /\ UNCHANGED <<workspace, accounts, origin, role, lookup, lapsed, inputs,
                 event, crashes, history>>

\* The account, the membership and ACCEPTED in one transaction, or nothing if
\* the address has an account or the workspace (and the row) is gone.  No
\* event is emitted.
Join(q) ==
  /\ pc[q] = "hash"
  /\ LET i == uses[q]
         k == key[i]
     IN IF AddressFree(k[2]) /\ status[i] # Null
          THEN /\ accounts' = accounts \cup {k[2]}
               /\ origin' = [origin EXCEPT ![k[2]] = i]
               /\ role' = [role EXCEPT ![k] = grant[i]]
               /\ silent' = silent \cup {k}
               /\ status' = [status EXCEPT ![i] = "ACCEPTED"]
          ELSE UNCHANGED <<accounts, origin, role, silent, status>>
  /\ Goto(q, "done")
  /\ UNCHANGED <<workspace, lookup, lapsed, inputs, event, crashes, disturbed,
                 raced>>

-----------------------------------------------------------------------------
\* The server dies with its requests, its transactions and its listeners.
Crash ==
  /\ crashes < MaxCrashes
  /\ crashes' = crashes + 1
  /\ pc' = [q \in Request |-> IF pc[q] \in Busy THEN "done" ELSE pc[q]]
  /\ event' = [q \in Request |-> Null]
  /\ disturbed' = disturbed \cup
       {key[q] : q \in {p \in Request :
                   event[p] # Null \/ pc[p] \in {"adding", "emit", "removing"}}}
  /\ UNCHANGED <<tables, inputs, silent, raced>>

Begin(q) ==
  \/ \E w \in Workspace, u \in User : Create(q, w, u) \/ DeleteCheck(q, w, u)
  \/ \E o \in User, k \in Key, r \in Role : AddCheck(q, o, k, r) \/ InviteCheck(q, o, k, r)
  \/ \E o \in User, k \in Key : RemoveCheck(q, o, k)
  \/ \E i \in Request : Accept(q, i)

Write(q) ==
  \/ Emit(q)
  \/ DeleteWorkspace(q)
  \/ AddWrite(q)
  \/ AddCommit(q)
  \/ RemoveWrite(q)
  \/ RemoveCommit(q)
  \/ Rollback(q)
  \/ Invite(q)
  \/ Expire(q)
  \/ Join(q)

Handle(q) == HandleAdded(q) \/ HandleRemoved(q) \/ HandlerFails(q)

\* Every request that came has been served.
Rest ==
  /\ \A q \in Request : pc[q] \in {"free", "done"} /\ event[q] = Null
  /\ UNCHANGED vars

Next ==
  \/ \E q \in Request : Begin(q) \/ Write(q) \/ Handle(q)
  \/ \E w \in Workspace, u \in User : Register(w, u)
  \/ \E i \in Request : Lapse(i)
  \/ Crash
  \/ Rest

Spec == Init /\ [][Next]_vars

-----------------------------------------------------------------------------
TypeOK ==
  /\ workspace \in [Workspace -> {"absent", "live", "deleted"}]
  /\ accounts \subseteq User
  /\ origin \in [User -> Request \cup Workspace \cup {Null}]
  /\ role \in [Key -> Role \cup {Null}]
  /\ lookup \subseteq Key
  /\ status \in [Request -> {"PENDING", "ACCEPTED", "EXPIRED", Null}]
  /\ lapsed \subseteq Request
  /\ pc \in [Request -> Busy \cup {"free", "done"}]
  /\ key \in [Request -> Key \cup {Null}]
  /\ by \in [Request -> User \cup {Null}]
  /\ grant \in [Request -> Role \cup {Null}]
  /\ uses \in [Request -> Request \cup {Null}]
  /\ event \in [Request -> {"added", "removed", Null}]
  /\ crashes \in 0..MaxCrashes
  /\ silent \subseteq Key
  /\ disturbed \subseteq Key
  /\ raced \subseteq Workspace

\* "Invariant (workspace must have owner)": additions, removals, invitations,
\* crashes and failures in any order leave a live workspace with an owner,
\* unless two removals in it overlapped.
HasOwnerUnlessRaced ==
  \A w \in Workspace \ raced :
    workspace[w] = "live" => \E u \in User : role[<<w, u>>] = "OWNER"

\* The cascade leaves nothing of a workspace, and no listener that is late
\* puts a lookup row of a deleted one back.
NothingOutlivesWorkspace ==
  /\ \A k \in Key : ~Live(k) => role[k] = Null /\ k \notin lookup
  /\ \A i \in Request : status[i] # Null => Live(key[i])

\* resolveWorkspaces: the workspaces of an address, as login lists them.
Resolved(u) == {w \in Workspace : <<w, u>> \in lookup}

\* Once the requests on a membership and their listeners are through, the
\* workspaces listed at login are those the user is a member of, if the member
\* came in by create or addMember and nothing raced, failed or died: events
\* from inside transactions, before their commit, make no difference.
LookupFollows ==
  \A k \in Key \ disturbed :
    Live(k) /\ (\A q \in Request : ~BusyOn(q, k)) =>
      (k[1] \in Resolved(k[2]) <=> role[k] # Null /\ k \notin silent)

\* An ACCEPTED invitation is the one that made its addressee's account: of
\* racing acceptances of invitations, and registrations, only one succeeds.
AcceptedMadeAccount ==
  \A i \in Request : status[i] = "ACCEPTED" => origin[key[i][2]] = i

-----------------------------------------------------------------------------
(* The inductive strengthening of the invariants above.                    *)

Removing(q) == pc[q] \in {"remove", "removing"}

Member(k) == role[k] # Null

\* A request keeps the key it was made for; only one that is on its way, or
\* through, has an event or an invitation.
RequestsOK ==
  \A q \in Request :
    /\ pc[q] = "free" => key[q] = Null
    /\ key[q] # Null => workspace[key[q][1]] # "absent"
    /\ pc[q] \in {"add", "adding", "emit", "remove", "removing", "delete", "invite"}
         => key[q] \in Key
    /\ event[q] # Null => key[q] \in Key /\ pc[q] \in {"adding", "removing", "done"}
    /\ status[q] # Null => key[q] \in Key /\ grant[q] \in Role /\ pc[q] = "done"
    /\ pc[q] \in {"add", "adding", "invite"} => grant[q] \in Role
    /\ pc[q] \in {"expire", "hash"} => uses[q] \in Request
    /\ \A k \in Key : BusyOn(q, k) => k[2] \in accounts

\* A row written and not committed is the only one of its key, and there (or
\* not there) as its writer found it.
LocksOK ==
  /\ \A p, q \in Request :
       {pc[p], pc[q]} \subseteq {"adding", "removing"} /\ key[p] = key[q] => p = q
  /\ \A q \in Request :
       /\ pc[q] = "adding" => Live(key[q]) /\ ~Member(key[q])
       /\ pc[q] = "removing" => Live(key[q]) /\ Member(key[q])

\* Members have accounts, and accounts an origin.
AccountsOK ==
  /\ \A k \in Key : Member(k) => k[2] \in accounts
  /\ \A u \in User : u \in accounts <=> origin[u] # Null
  /\ \A k \in silent : workspace[k[1]] # "absent" /\ (Live(k) => Member(k))

\* The only removal under way in a workspace has an owner behind it, who is
\* not the member it removes.
RemovalsOK ==
  \A q \in Request :
    Removing(q) /\ Live(key[q]) /\ key[q][1] \notin raced =>
      /\ by[q] \in User /\ by[q] # key[q][2]
      /\ role[<<key[q][1], by[q]>>] = "OWNER"
      /\ \A p \in Request : Removing(p) /\ key[p][1] = key[q][1] => p = q

Settled(k) == k \in lookup <=> Member(k) /\ k \notin silent

\* What q has done to the lookup row of k, and what is still to come, while
\* it is the only one at work on it.
Owed(q, k) ==
  /\ pc[q] \in {"add", "remove"} => Settled(k)
  /\ pc[q] = "adding" => event[q] \in {"added", Null} /\ (k \in lookup <=> event[q] = Null)
  /\ pc[q] = "emit" => Member(k) /\ k \notin silent
  /\ pc[q] = "removing" => event[q] \in {"removed", Null} /\ (event[q] = Null => k \notin lookup)
  /\ pc[q] = "done" /\ event[q] = "added" => Member(k) /\ k \notin silent
  /\ pc[q] = "done" /\ event[q] = "removed" => ~Member(k)

EventsOK ==
  \A k \in Key \ disturbed : Live(k) =>
    \A q \in Request : BusyOn(q, k) =>
      /\ Owed(q, k)
      /\ \A p \in Request : BusyOn(p, k) => p = q

IInv ==
  /\ TypeOK
  /\ RequestsOK
  /\ LocksOK
  /\ AccountsOK
  /\ RemovalsOK
  /\ EventsOK
  /\ HasOwnerUnlessRaced
  /\ NothingOutlivesWorkspace
  /\ LookupFollows
  /\ AcceptedMadeAccount

-----------------------------------------------------------------------------
(* What the repository says of the program and the program does not do.    *)

\* 2025-12-25-17-30-test-review.md: "the invariant (workspace must have
\* owner)".
HasOwner ==
  \A w \in Workspace :
    workspace[w] = "live" => \E u \in User : role[<<w, u>>] = "OWNER"
=============================================================================
