---------------------------- MODULE Registration ----------------------------
(***************************************************************************)
(* Accounts and e-mail verification: register-user.use-case.ts,            *)
(* accept-invite.use-case.ts, resend-verification.use-case.ts and          *)
(* verify-email.use-case.ts (under application/auth/use-cases) on the User *)
(* table, with the rules of UserAggregate and both deployment modes; and   *)
(* what the pages Register and VerifyEmail of the web client               *)
(* (features/auth) tell who sent them.                                     *)
(*                                                                         *)
(* A request stops at each `await`.  The turn after a SELECT uses the row  *)
(* it got, and reads the clock; the UPDATE or INSERT it then awaits takes  *)
(* effect in a later step, and the mail is queued in the turn after that.  *)
(* Time passes between any two steps.                                      *)
(*                                                                         *)
(* Ids and tokens are random: the user a request creates and the token it  *)
(* generates are named after the request.                                  *)
(***************************************************************************)
EXTENDS Integers, FiniteSets

CONSTANTS
  Email,         \* addresses
  Request,       \* requests, each of one Kind
  Null,          \* no user, no token, nothing yet
  Environments,  \* the values DEPLOYMENT_MODE may have
  Cooldown,      \* AuthConstants.RESEND_COOLDOWN_MS
  Ttl,           \* TOKEN_TTL_HOURS of verify-email.use-case.ts
  MaxTime,       \* bound on the clock
  MaxCrashes,    \* bound on crashes of the server
  MaxDeletions   \* bound on deletions of workspaces

Time == 0..MaxTime

\* What PasswordValidator makes of a password.
Password == {"strong", "weak"}

Kind == {"register", "accept", "resend", "verify"}

User == [email : Email, verified : BOOLEAN, token : Request \cup {Null}, sentAt : Time]

ASSUME ConstantsAssumption ==
  /\ Null \notin Request \cup User
  /\ {Cooldown, Ttl, MaxTime, MaxCrashes, MaxDeletions} \subseteq Nat

VARIABLES
  users,         \* the User row each request created
  workspaces,    \* how many Workspace rows there are
  mails,         \* verification mails handed to the mail queue
  pc,            \* where each request is
  kind,          \* what it asks for
  email,         \* the address a request is about
  subject,       \* the user a resend or verify request found
  token,         \* the token a verify request presents
  stamp,         \* the clock when a request made its decision
  late,          \* history: self-hosted registrations that began when a
                 \* workspace was there, and while one still is
  now, crashes, deletions,
  selfHosted     \* read from the environment once

requestVars == <<pc, kind, email, subject, token, stamp>>
boundVars == <<crashes, deletions, selfHosted>>
vars == <<users, workspaces, mails, requestVars, late, now, boundVars>>

-----------------------------------------------------------------------------
Accounts == {u \in Request : users[u] # Null}

AccountsOf(e) == {u \in Accounts : users[u].email = e}

Busy == {"count", "hash", "create", "join", "write", "mail", "verify"}

\* DeploymentConfig.getMode: what is not said is self-hosted.
Mode(explicit) == IF explicit = "cloud" THEN "cloud" ELSE "self-hosted"

\* A request has been answered with success or an error, or died.
Over == {"done", "refused", "lost"}

Init ==
  /\ users = [r \in Request |-> Null]
  /\ workspaces = 0
  /\ mails = {}
  /\ pc = [r \in Request |-> "free"]
  /\ kind = [r \in Request |-> Null]
  /\ email = [r \in Request |-> Null]
  /\ subject = [r \in Request |-> Null]
  /\ token = [r \in Request |-> Null]
  /\ stamp = [r \in Request |-> 0]
  /\ late = {}
  /\ now = 0
  /\ crashes = 0
  /\ deletions = 0
  /\ \E explicit \in Environments : selfHosted = (Mode(explicit) = "self-hosted")

Goto(r, label) == pc' = [pc EXCEPT ![r] = label]

\* A request of kind k about the address e begins.
Begin(r, k, e) ==
  /\ pc[r] = "free"
  /\ kind' = [kind EXCEPT ![r] = k]
  /\ email' = [email EXCEPT ![r] = e]

\* UserAggregate.canResendVerification.
CanResend(u) ==
  /\ ~users[u].verified
  /\ now - users[u].sentAt >= Cooldown

\* UserAggregate.resendVerification: the new token is named after the request.
NewToken(r, u) ==
  /\ subject' = [subject EXCEPT ![r] = u]
  /\ stamp' = [stamp EXCEPT ![r] = now]

\* An account is there: it gets a new token, except within the cooldown or when
\* it is verified.
AnswerExisting(r, u, otherwise) ==
  \/ CanResend(u) /\ NewToken(r, u) /\ Goto(r, "write")
  \/ ~CanResend(u) /\ UNCHANGED <<subject, stamp>> /\ Goto(r, otherwise)

\* Where register goes with an address that is new, and a password.
NewcomerTo(password) ==
  IF password = "weak" THEN "refused" ELSE IF selfHosted THEN "count" ELSE "hash"

\* register answers for an address it knows as if it were new.
Register(r, e, password) ==
  /\ Begin(r, "register", e)
  /\ \/ \E u \in AccountsOf(e) : AnswerExisting(r, u, "done")
     \/ /\ AccountsOf(e) = {}
        /\ Goto(r, NewcomerTo(password))
        /\ UNCHANGED <<subject, stamp>>
  /\ late' = IF selfHosted /\ workspaces > 0 THEN late \cup {r} ELSE late
  /\ UNCHANGED <<users, workspaces, mails, token, now, boundVars>>

\* accept-invite: a workspace has invited the address.  A weak password, and an
\* invitation that is unknown, used or too old, are refused.
Accept(r, e) ==
  /\ Begin(r, "accept", e)
  /\ workspaces > 0
  /\ Goto(r, "join") \/ Goto(r, "refused")
  /\ UNCHANGED <<users, workspaces, mails, subject, token, stamp, late, now, boundVars>>

\* resend-verification, whose cooldown is an error to the caller; an unknown
\* address is answered with success, and nothing is done.
Resend(r, e) ==
  /\ Begin(r, "resend", e)
  /\ \/ \E u \in AccountsOf(e) : AnswerExisting(r, u, "refused")
     \/ /\ AccountsOf(e) = {}
        /\ Goto(r, "done")
        /\ UNCHANGED <<subject, stamp>>
  /\ UNCHANGED <<users, workspaces, mails, token, late, now, boundVars>>

FaultyRegistrationOpen == workspaces <= 1
RegistrationOpen == workspaces = 0

\* Self-hosted: countWorkspaces, and RegistrationDisabledException.
Count(r) ==
  /\ pc[r] = "count"
  /\ Goto(r, IF RegistrationOpen THEN "hash" ELSE "refused")
  /\ UNCHANGED <<users, workspaces, mails, kind, email, subject, token, stamp, late, now, boundVars>>

\* bcrypt.hash has ended; emailVerificationSentAt is taken.
Hash(r) ==
  /\ pc[r] = "hash"
  /\ stamp' = [stamp EXCEPT ![r] = now]
  /\ Goto(r, "create")
  /\ UNCHANGED <<users, workspaces, mails, kind, email, subject, token, late, now, boundVars>>

FaultyEmailFree(e) == TRUE
EmailFree(e) == AccountsOf(e) = {}

NewUser(r) ==
  [email |-> email[r], verified |-> selfHosted,
   token |-> IF selfHosted THEN Null ELSE r, sentAt |-> stamp[r]]

\* createWithWorkspace: user, workspace and membership in one transaction,
\* which User.email @unique makes fail when the address is taken by now.
Create(r) ==
  /\ pc[r] = "create"
  /\ \/ /\ EmailFree(email[r])
        /\ users' = [users EXCEPT ![r] = NewUser(r)]
        /\ workspaces' = workspaces + 1
        /\ Goto(r, IF selfHosted THEN "done" ELSE "mail")
     \/ /\ ~EmailFree(email[r])
        /\ Goto(r, "refused")
        /\ UNCHANGED <<users, workspaces>>
  /\ UNCHANGED <<mails, kind, email, subject, token, stamp, late, now, boundVars>>

InvitedUser(r) == [email |-> email[r], verified |-> TRUE, token |-> Null, sentAt |-> 0]

\* The transaction of accept-invite, after bcrypt.hash: "Skip verification for
\* invited users".  It fails when the address is taken by now, or the workspace
\* is gone, and the invitation with it.
Join(r) ==
  /\ pc[r] = "join"
  /\ \/ /\ EmailFree(email[r]) /\ workspaces > 0
        /\ users' = [users EXCEPT ![r] = InvitedUser(r)]
        /\ Goto(r, "done")
     \/ /\ ~EmailFree(email[r]) \/ deletions > 0
        /\ Goto(r, "refused")
        /\ UNCHANGED users
  /\ UNCHANGED <<workspaces, mails, kind, email, subject, token, stamp, late, now, boundVars>>

\* The columns an update of the verification token sets.  The fault saves the
\* whole aggregate as it was read, not verified.
WithToken(row, r) == [row EXCEPT !.token = r, !.sentAt = stamp[r]]

\* userRepository.update with the new token, whatever the row is by now.
Write(r) ==
  /\ pc[r] = "write"
  /\ users' = [users EXCEPT ![subject[r]] = WithToken(@, r)]
  /\ Goto(r, "mail")
  /\ UNCHANGED <<workspaces, mails, kind, email, subject, token, stamp, late, now, boundVars>>

\* The token in the mail is the new one.
FaultyMailed(r) == subject[r]
Mailed(r) == r

\* queueEmailVerification.
Mail(r) ==
  /\ pc[r] = "mail"
  /\ mails' = mails \cup {[to |-> email[r], token |-> Mailed(r)]}
  /\ Goto(r, "done")
  /\ UNCHANGED <<users, workspaces, kind, email, subject, token, stamp, late, now, boundVars>>

\* findByVerificationToken; the fault looks at nobody's token.
FaultyHasToken(u, t) == ~users[u].verified
HasToken(u, t) == users[u].token = t

FaultyInTime(u) == TRUE
InTime(u) == now - users[u].sentAt <= Ttl

\* "Idempotency: If email already verified, return success", however old the
\* link is.  The fault forgets to look.
FaultyAlreadyVerified(u) == TRUE
AlreadyVerified(u) == users[u].verified

\* verify-email: an unknown or expired token is refused.
Verify(r, t) ==
  /\ pc[r] = "free"
  /\ kind' = [kind EXCEPT ![r] = "verify"]
  /\ token' = [token EXCEPT ![r] = t]
  /\ \/ \E u \in Accounts :
          /\ HasToken(u, t) /\ ~AlreadyVerified(u) /\ InTime(u)
          /\ subject' = [subject EXCEPT ![r] = u]
          /\ stamp' = [stamp EXCEPT ![r] = now]
          /\ Goto(r, "verify")
     \/ /\ \E u \in Accounts : HasToken(u, t) /\ AlreadyVerified(u)
        /\ Goto(r, "done")
        /\ UNCHANGED <<subject, stamp>>
     \/ /\ \A u \in Accounts : HasToken(u, t) => ~AlreadyVerified(u) /\ ~InTime(u)
        /\ Goto(r, "refused")
        /\ UNCHANGED <<subject, stamp>>
  /\ UNCHANGED <<users, workspaces, mails, email, late, now, boundVars>>

\* The update keeps the token, and does not look at it again.
SetVerified(r) ==
  /\ pc[r] = "verify"
  /\ users' = [users EXCEPT ![subject[r]].verified = TRUE]
  /\ Goto(r, "done")
  /\ UNCHANGED <<workspaces, mails, kind, email, subject, token, stamp, late, now, boundVars>>

\* WorkspaceService.delete.
DeleteWorkspace ==
  /\ workspaces > 0 /\ deletions < MaxDeletions
  /\ workspaces' = workspaces - 1
  /\ deletions' = deletions + 1
  /\ late' = IF workspaces = 1 THEN {} ELSE late
  /\ UNCHANGED <<users, mails, requestVars, now, crashes, selfHosted>>

Tick ==
  /\ now < MaxTime
  /\ now' = now + 1
  /\ UNCHANGED <<users, workspaces, mails, requestVars, late, boundVars>>

\* The server dies with the requests it was serving.
Crash ==
  /\ crashes < MaxCrashes
  /\ crashes' = crashes + 1
  /\ pc' = [r \in Request |-> IF pc[r] \in Busy THEN "lost" ELSE pc[r]]
  /\ UNCHANGED <<users, workspaces, mails, kind, email, subject, token, stamp, late, now, deletions, selfHosted>>

\* Every request has had its answer.
Rest ==
  /\ \A r \in Request : pc[r] \in Over
  /\ UNCHANGED vars

Step(r) ==
  Count(r) \/ Hash(r) \/ Create(r) \/ Join(r) \/ Write(r) \/ Mail(r) \/ SetVerified(r)

Next ==
  \/ \E r \in Request, e \in Email :
       Accept(r, e) \/ Resend(r, e) \/ \E password \in Password : Register(r, e, password)
  \/ \E r \in Request, m \in mails : Verify(r, m.token)
  \/ \E r \in Request : Step(r)
  \/ DeleteWorkspace
  \/ Tick
  \/ Crash
  \/ Rest

Spec == Init /\ [][Next]_vars

-----------------------------------------------------------------------------
(* The pages.                                                              *)

\* authApi resolves on a success; any other answer, and none, is an error.
Shown(r) ==
  IF pc[r] = "done" THEN "success" ELSE IF pc[r] \in Over THEN "error" ELSE "loading"

\* To Register a success is the way to RegisterSuccess: "We've sent a
\* verification link to" the address.  That is so only where a link was sent:
\* not to an account that is verified, by an invitation for one, and not where
\* the instance is self-hosted.  What a success does mean is SuccessIsBacked.
SaysSent(r) == kind[r] = "register" /\ Shown(r) = "success"

\* "Email verified!"
SaysVerified(r) == kind[r] = "verify" /\ Shown(r) = "success"

-----------------------------------------------------------------------------
TypeOK ==
  /\ users \in [Request -> User \cup {Null}]
  /\ workspaces \in Nat
  /\ mails \subseteq [to : Email, token : Request]
  /\ pc \in [Request -> Busy \cup Over \cup {"free"}]
  /\ kind \in [Request -> Kind \cup {Null}]
  /\ email \in [Request -> Email \cup {Null}]
  /\ subject \in [Request -> Request \cup {Null}]
  /\ token \in [Request -> Request \cup {Null}]
  /\ stamp \in [Request -> Time]
  /\ late \subseteq Request
  /\ now \in Time
  /\ crashes \in 0..MaxCrashes
  /\ deletions \in 0..MaxDeletions
  /\ selfHosted \in BOOLEAN

\* Requests for one address that all found it unknown leave one account.
OneAccountPerEmail ==
  \A u, v \in Accounts : users[u].email = users[v].email => u = v

KeepsVerified == \A u \in Accounts : users[u].verified => users'[u].verified

\* Resends and verifications of one account overwrite different columns of its
\* row, each from an older copy of it: once verified, an account stays so.
VerifiedForGood == [][KeepsVerified]_vars

\* In the cloud only the owner of the address verifies an account that was not
\* invited: some request presented a token that was mailed to that address.
VerifiedByMail ==
  \A u \in Accounts :
    users[u].verified /\ ~selfHosted /\ kind[u] = "register" =>
      \E r \in Request :
        subject[r] = u /\ [to |-> users[u].email, token |-> token[r]] \in mails

\* A link older than the limit does not verify, although sentAt is the stamp of
\* whichever resend wrote last and a link is looked up by token.
VerifiesInTime ==
  \A r \in Request : pc[r] = "verify" => stamp[r] - stamp[token[r]] <= Ttl

\* The link that would verify an account is in the mail, unless the request
\* that generated it is about to queue it or died.
CurrentTokenIsMailed ==
  \A u \in Accounts :
    LET t == users[u].token IN
    t # Null => \/ [to |-> users[u].email, token |-> t] \in mails
                \/ pc[t] \in {"mail", "lost"}

\* What a success means, though requests of either kind for the same address
\* overlap and register keeps from its caller which of its cases it was: "Email
\* verified!" shows only while an account is verified whose address the link
\* was mailed to; and whoever is told to look for mail after registering has an
\* account at that address that is verified, or whose one good link is in the
\* mail, about to be, or lost in a crash.
SuccessIsBacked ==
  \A r \in Request :
    /\ SaysVerified(r) =>
         \E u \in Accounts :
           users[u].verified /\ [to |-> users[u].email, token |-> token[r]] \in mails
    /\ SaysSent(r) =>
         \E u \in AccountsOf(email[r]) :
           LET t == users[u].token IN
           \/ users[u].verified
           \/ t # Null /\ ([to |-> email[r], token |-> t] \in mails \/ pc[t] \in {"mail", "lost"})

\* A self-hosted registration that begins when there is a workspace makes no
\* account as long as there is one, whatever invitations, deletions and
\* registrations that were admitted before do between its count and its insert.
LateMakeNoAccount == late \cap Accounts = {}

-----------------------------------------------------------------------------
(* The inductive strengthening of the invariants above.                    *)

\* What a request relies on between two of its steps.
RequestsOK ==
  \A r \in Request :
    /\ pc[r] \in {"free", "count", "hash", "create", "join"} => users[r] = Null
    /\ pc[r] \in {"count", "hash", "create", "join", "write", "mail"} => email[r] \in Email
    /\ pc[r] = "write" => /\ subject[r] \in Accounts
                          /\ users[subject[r]].email = email[r]
    /\ pc[r] = "verify" =>
         /\ subject[r] \in Accounts
         /\ token[r] \in Request
         /\ [to |-> users[subject[r]].email, token |-> token[r]] \in mails

\* Where a request is tells its kind.
KindsOK ==
  \A r \in Request :
    /\ pc[r] \in {"count", "hash", "create"} => kind[r] = "register"
    /\ pc[r] = "join" => kind[r] = "accept"
    /\ pc[r] \in {"write", "mail"} => kind[r] \in {"register", "resend"}
    /\ pc[r] = "verify" => kind[r] = "verify"

\* The token of a row comes with its own address and stamp, however the
\* updates of that row interleave.
TokensOK ==
  \A u \in Accounts :
    LET t == users[u].token IN
    t # Null => /\ pc[t] \in {"mail", "done", "lost"}
                /\ email[t] = users[u].email
                /\ stamp[t] = users[u].sentAt

\* A mail is sent once, to the address its token is for.
MailsOK ==
  \A m \in mails : pc[m.token] \in {"done", "lost"} /\ email[m.token] = m.to

\* The request that verified an account keeps what it presented.
VerifiersOK ==
  \A u \in Accounts :
    users[u].verified /\ ~selfHosted /\ kind[u] = "register" =>
      \E r \in Request :
        /\ pc[r] \in {"done", "lost"}
        /\ subject[r] = u
        /\ [to |-> users[u].email, token |-> token[r]] \in mails

IInv ==
  /\ TypeOK
  /\ OneAccountPerEmail
  /\ RequestsOK
  /\ KindsOK
  /\ TokensOK
  /\ MailsOK
  /\ VerifiersOK
  /\ VerifiesInTime
  /\ CurrentTokenIsMailed

-----------------------------------------------------------------------------
(* What the repository says of the program and the program does not do.    *)

\* ADR-2025-12-26-persistent-invitation-model.md: "Self-hosted Synjar
\* instances disable public registration after the first user (admin)
\* creates their account."
OneAdmin ==
  selfHosted => Cardinality({u \in Accounts : kind[u] = "register"}) <= 1
=============================================================================
