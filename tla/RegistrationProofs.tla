------------------------- MODULE RegistrationProofs -------------------------
(* Theorems about Registration, for all addresses, requests and clocks: one *)
(* account per address, verification for good and only by a mailed link in  *)
(* time, what a success means, and the closing of self-hosted registration. *)
EXTENDS Registration, TLAPS

-----------------------------------------------------------------------------
(* How each part of the invariant survives a step, stated once.            *)

\* Columns of the rows the tokens depend on.
SameRow(u) ==
  /\ u \in Accounts
  /\ users'[u].email = users[u].email
  /\ users'[u].token = users[u].token
  /\ users'[u].sentAt = users[u].sentAt

LEMMA TokensFrame ==
  ASSUME IInv,
         \A u \in Accounts' :
           \/ SameRow(u)
           \/ LET t == users'[u].token IN
              t # Null => /\ pc'[t] = "mail"
                          /\ email'[t] = users'[u].email
                          /\ stamp'[t] = users'[u].sentAt,
         \A t \in Request :
           pc[t] \in {"mail", "done", "lost"} =>
             /\ pc'[t] \in {"mail", "done", "lost"}
             /\ email'[t] = email[t]
             /\ stamp'[t] = stamp[t]
  PROVE  TokensOK'
<1> SUFFICES ASSUME NEW u \in Accounts', users'[u].token # Null
             PROVE  LET t == users'[u].token IN
                    /\ pc'[t] \in {"mail", "done", "lost"}
                    /\ email'[t] = users'[u].email
                    /\ stamp'[t] = users'[u].sentAt
  BY DEF TokensOK
<1>1. CASE SameRow(u)
  <2>1. users[u].token \in Request
    BY <1>1 DEF IInv, TypeOK, SameRow, Accounts, User
  <2> QED
    BY <1>1, <2>1 DEF IInv, TokensOK, SameRow
<1>2. CASE ~SameRow(u)
  BY <1>2
<1> QED
  BY <1>1, <1>2

LEMMA MailedFrame ==
  ASSUME IInv, mails \subseteq mails',
         \A u \in Accounts' :
           \/ SameRow(u)
           \/ LET t == users'[u].token IN t # Null => pc'[t] = "mail",
         \A t \in Request :
           pc[t] \in {"mail", "lost"} =>
             \/ pc'[t] \in {"mail", "lost"}
             \/ [to |-> email[t], token |-> t] \in mails'
  PROVE  CurrentTokenIsMailed'
<1> SUFFICES ASSUME NEW u \in Accounts', users'[u].token # Null
             PROVE  LET t == users'[u].token IN
                    \/ [to |-> users'[u].email, token |-> t] \in mails'
                    \/ pc'[t] \in {"mail", "lost"}
  BY DEF CurrentTokenIsMailed
<1>1. CASE SameRow(u)
  <2> DEFINE t == users[u].token
  <2>1. t \in Request /\ t # Null
    BY <1>1 DEF IInv, TypeOK, SameRow, Accounts, User
  <2>2. email[t] = users[u].email
    BY <1>1, <2>1 DEF IInv, TokensOK, SameRow
  <2>3. [to |-> users[u].email, token |-> t] \in mails \/ pc[t] \in {"mail", "lost"}
    BY <1>1, <2>1 DEF IInv, CurrentTokenIsMailed, SameRow
  <2>4. users'[u].token = t /\ users'[u].email = users[u].email
    BY <1>1 DEF SameRow
  <2> QED
    BY <2>1, <2>2, <2>3, <2>4
<1>2. CASE ~SameRow(u)
  BY <1>2
<1> QED
  BY <1>1, <1>2

LEMMA VerifiersFrame ==
  ASSUME IInv, mails \subseteq mails', selfHosted' = selfHosted,
         \A u \in Accounts' :
           users'[u].verified /\ ~selfHosted /\ kind'[u] = "register" =>
             \/ /\ u \in Accounts
                /\ users[u].verified
                /\ users'[u].email = users[u].email
                /\ kind[u] = "register"
             \/ \E r \in Request :
                  /\ pc'[r] \in {"done", "lost"}
                  /\ subject'[r] = u
                  /\ [to |-> users'[u].email, token |-> token'[r]] \in mails',
         \A r \in Request :
           pc[r] \in {"done", "lost"} =>
             /\ pc'[r] = pc[r]
             /\ subject'[r] = subject[r]
             /\ token'[r] = token[r]
  PROVE  VerifiersOK'
<1> SUFFICES ASSUME NEW u \in Accounts', users'[u].verified, ~selfHosted, kind'[u] = "register"
             PROVE  \E r \in Request :
                      /\ pc'[r] \in {"done", "lost"}
                      /\ subject'[r] = u
                      /\ [to |-> users'[u].email, token |-> token'[r]] \in mails'
  BY DEF VerifiersOK
<1>1. CASE /\ u \in Accounts /\ users[u].verified /\ users'[u].email = users[u].email
           /\ kind[u] = "register"
  <2>1. PICK r \in Request : /\ pc[r] \in {"done", "lost"}
                             /\ subject[r] = u
                             /\ [to |-> users[u].email, token |-> token[r]] \in mails
    BY <1>1 DEF IInv, VerifiersOK
  <2> QED
    BY <1>1, <2>1
<1> QED
  BY <1>1

LEMMA KindsFrame ==
  ASSUME IInv,
         \A q \in Request :
           \/ pc'[q] = pc[q] /\ kind'[q] = kind[q]
           \/ pc'[q] \in Over
           \/ pc'[q] \in {"count", "hash", "create"} /\ kind'[q] = "register"
           \/ pc'[q] = "join" /\ kind'[q] = "accept"
           \/ pc'[q] \in {"write", "mail"} /\ kind'[q] \in {"register", "resend"}
           \/ pc'[q] = "verify" /\ kind'[q] = "verify"
  PROVE  KindsOK'
  BY DEF IInv, KindsOK, Over

LEMMA InTimeFrame ==
  ASSUME IInv,
         \A r \in Request :
           pc'[r] = "verify" =>
             \/ /\ pc[r] = "verify"
                /\ token'[r] = token[r]
                /\ stamp'[r] = stamp[r]
             \/ /\ token'[r] \in Request
                /\ pc[token'[r]] \in {"done", "lost"}
                /\ stamp'[r] - stamp[token'[r]] <= Ttl,
         \A r \in Request :
           pc[r] \in {"done", "lost"} => stamp'[r] = stamp[r]
  PROVE  VerifiesInTime'
<1> SUFFICES ASSUME NEW r \in Request, pc'[r] = "verify"
             PROVE  stamp'[r] - stamp'[token'[r]] <= Ttl
  BY DEF VerifiesInTime
<1>1. CASE pc[r] = "verify" /\ token'[r] = token[r] /\ stamp'[r] = stamp[r]
  <2>1. token[r] \in Request /\ pc[token[r]] \in {"done", "lost"}
    BY <1>1 DEF IInv, RequestsOK, MailsOK
  <2> QED
    BY <1>1, <2>1 DEF IInv, VerifiesInTime
<1> QED
  BY <1>1

-----------------------------------------------------------------------------
(* One lemma per action.                                                   *)

LEMMA InitInductive == Init => IInv
  BY ConstantsAssumption DEF Init, IInv, TypeOK, OneAccountPerEmail, RequestsOK, KindsOK, TokensOK,
     MailsOK, VerifiersOK, VerifiesInTime, CurrentTokenIsMailed, Accounts, Busy, Time

\* The rows as they were.
LEMMA SameUsers == ASSUME UNCHANGED users PROVE \A u \in Accounts' : SameRow(u)
  BY DEF Accounts, SameRow

\* The request that made an account is not one that begins now.
LEMMA BegunAccounts ==
  ASSUME IInv PROVE \A u \in Accounts : u \in Request /\ pc[u] # "free"
  BY DEF IInv, RequestsOK, Accounts

\* register or resend finds the account.
LEMMA FoundStep ==
  ASSUME IInv, NEW r \in Request, NEW k \in {"register", "resend"}, NEW e \in Email,
         NEW u \in AccountsOf(e), NEW otherwise \in {"done", "refused"},
         Begin(r, k, e), AnswerExisting(r, u, otherwise), late' \subseteq Request,
         UNCHANGED <<users, workspaces, mails, token, now, boundVars>>
  PROVE  IInv'
<1> USE DEF Begin
<1>1. TypeOK'
  BY DEF IInv, TypeOK, AnswerExisting, NewToken, AccountsOf, Accounts, Goto, Busy, Over, Kind,
         boundVars
<1>2. OneAccountPerEmail'
  BY DEF IInv, OneAccountPerEmail, Accounts
<1>3. RequestsOK'
  BY DEF IInv, TypeOK, RequestsOK, AnswerExisting, NewToken, AccountsOf, Accounts, Goto
<1>4. \A q \in Request : pc[q] # "free" =>
        /\ pc'[q] = pc[q] /\ kind'[q] = kind[q] /\ email'[q] = email[q]
        /\ token'[q] = token[q] /\ subject'[q] = subject[q] /\ stamp'[q] = stamp[q]
  BY DEF IInv, TypeOK, AnswerExisting, NewToken, Goto
<1>5. MailsOK'
  BY <1>4 DEF IInv, TypeOK, MailsOK
<1>6. TokensOK' /\ CurrentTokenIsMailed'
  BY <1>4, SameUsers, TokensFrame, MailedFrame
<1>7. VerifiersOK'
  BY <1>4, BegunAccounts, VerifiersFrame DEF Accounts, boundVars
<1>8. \A q \in Request : pc'[q] = "verify" => pc[q] = "verify"
  BY DEF IInv, TypeOK, AnswerExisting, NewToken, Goto
<1>9. VerifiesInTime'
  BY <1>4, <1>8, InTimeFrame
<1>10. KindsOK'
  <2>1. /\ pc'[r] \in {"write", "done", "refused"} /\ kind'[r] = k
        /\ \A q \in Request : q # r => pc'[q] = pc[q] /\ kind'[q] = kind[q]
    BY DEF IInv, TypeOK, AnswerExisting, Goto
  <2> QED
    BY <2>1, KindsFrame DEF Over
<1> QED
  BY <1>1, <1>2, <1>3, <1>5, <1>6, <1>7, <1>9, <1>10 DEF IInv

\* A first turn that writes no token: register and resend find nobody, or an
\* invitation is accepted or refused.
LEMMA NewStep ==
  ASSUME IInv, NEW r \in Request, NEW k \in Kind, NEW e \in Email,
         NEW label \in {"count", "hash", "join", "refused", "done"},
         label \in {"count", "hash"} => k = "register", label = "join" => k = "accept",
         Begin(r, k, e), Goto(r, label), late' \subseteq Request,
         UNCHANGED <<subject, stamp, users, workspaces, mails, token, now, boundVars>>
  PROVE  IInv'
<1> USE DEF Begin
<1>1. TypeOK'
  <2>1. pc' \in [Request -> Busy \cup Over \cup {"free"}]
    BY DEF IInv, TypeOK, Goto, Busy, Over
  <2> QED
    BY <2>1 DEF IInv, TypeOK, boundVars
<1>2. OneAccountPerEmail'
  BY DEF IInv, OneAccountPerEmail, Accounts
<1>3. RequestsOK'
  BY DEF IInv, TypeOK, RequestsOK, Accounts, Goto
<1>4. \A q \in Request : pc[q] # "free" =>
        pc'[q] = pc[q] /\ kind'[q] = kind[q] /\ email'[q] = email[q]
  BY DEF IInv, TypeOK, Goto
<1>5. MailsOK'
  BY <1>4 DEF IInv, TypeOK, MailsOK
<1>6. TokensOK' /\ CurrentTokenIsMailed'
  BY <1>4, SameUsers, TokensFrame, MailedFrame
<1>7. VerifiersOK'
  BY <1>4, BegunAccounts, VerifiersFrame DEF Accounts, boundVars
<1>8. VerifiesInTime'
  BY InTimeFrame DEF IInv, TypeOK, Goto
<1>9. KindsOK'
  <2>1. /\ pc'[r] = label /\ kind'[r] = k
        /\ \A q \in Request : q # r => pc'[q] = pc[q] /\ kind'[q] = kind[q]
    BY DEF IInv, TypeOK, Goto
  <2> QED
    BY <2>1, KindsFrame DEF Over
<1> QED
  BY <1>1, <1>2, <1>3, <1>5, <1>6, <1>7, <1>8, <1>9 DEF IInv

LEMMA RegisterStep ==
  ASSUME IInv, NEW r \in Request, NEW e \in Email, NEW password \in Password,
         Register(r, e, password)
  PROVE  IInv'
<1>1. late' \subseteq Request
  BY DEF Register, IInv, TypeOK
<1>2. CASE \E u \in AccountsOf(e) : AnswerExisting(r, u, "done")
  BY <1>1, <1>2, FoundStep DEF Register
<1>3. CASE Goto(r, NewcomerTo(password)) /\ UNCHANGED <<subject, stamp>>
  <2>1. NewcomerTo(password) \in {"count", "hash", "refused"}
    BY DEF NewcomerTo
  <2> QED
    BY <1>1, <1>3, <2>1, NewStep DEF Register, Kind
<1> QED
  BY <1>2, <1>3 DEF Register

LEMMA AcceptStep == ASSUME IInv, NEW r \in Request, NEW e \in Email, Accept(r, e) PROVE IInv'
<1>1. late' \subseteq Request
  BY DEF Accept, IInv, TypeOK
<1> QED
  BY <1>1, NewStep DEF Accept, Kind

LEMMA ResendStep == ASSUME IInv, NEW r \in Request, NEW e \in Email, Resend(r, e) PROVE IInv'
<1>1. late' \subseteq Request
  BY DEF Resend, IInv, TypeOK
<1> QED
  BY <1>1, FoundStep, NewStep DEF Resend, Kind

\* A request for an account goes on or gives up, and nothing else changes.
LEMMA MoveStep ==
  ASSUME IInv, NEW r \in Request, pc[r] \in {"count", "create", "join"},
         NEW label \in {"hash", "refused"}, label = "hash" => pc[r] = "count", Goto(r, label),
         UNCHANGED <<users, workspaces, mails, kind, email, subject, token, stamp, late, now,
                     boundVars>>
  PROVE  IInv'
<1>1. pc'[r] = label /\ \A q \in Request : q # r => pc'[q] = pc[q]
  BY DEF IInv, TypeOK, Goto
<1>2. TypeOK'
  <2>1. pc' \in [Request -> Busy \cup Over \cup {"free"}]
    BY DEF IInv, TypeOK, Goto, Busy, Over
  <2> QED
    BY <2>1 DEF IInv, TypeOK, boundVars
<1>3. OneAccountPerEmail'
  BY DEF IInv, OneAccountPerEmail, Accounts
<1>4. RequestsOK'
  BY <1>1 DEF IInv, RequestsOK, Accounts
<1>5. MailsOK'
  BY <1>1 DEF IInv, TypeOK, MailsOK
<1>6. TokensOK' /\ CurrentTokenIsMailed'
  BY <1>1, SameUsers, TokensFrame, MailedFrame
<1>7. VerifiersOK'
  BY <1>1, VerifiersFrame DEF Accounts, boundVars
<1>8. VerifiesInTime'
  BY <1>1, InTimeFrame
<1>9. KindsOK'
  BY <1>1, KindsFrame DEF IInv, KindsOK, Over
<1> QED
  BY <1>2, <1>3, <1>4, <1>5, <1>6, <1>7, <1>8, <1>9 DEF IInv

LEMMA CountStep == ASSUME IInv, NEW r \in Request, Count(r) PROVE IInv'
  BY MoveStep DEF Count

LEMMA HashStep == ASSUME IInv, NEW r \in Request, Hash(r) PROVE IInv'
<1>1. TypeOK'
  BY DEF IInv, TypeOK, Hash, Goto, Busy, boundVars
<1>2. OneAccountPerEmail'
  BY DEF IInv, OneAccountPerEmail, Accounts, Hash
<1>3. RequestsOK'
  BY DEF IInv, TypeOK, RequestsOK, Accounts, Goto, Hash
<1>4. \A q \in Request : pc[q] # "hash" => pc'[q] = pc[q] /\ stamp'[q] = stamp[q]
  BY DEF IInv, TypeOK, Goto, Hash
<1>5. MailsOK'
  BY <1>4 DEF IInv, TypeOK, MailsOK, Hash
<1>6. TokensOK' /\ CurrentTokenIsMailed'
  BY <1>4, SameUsers, TokensFrame, MailedFrame DEF Hash
<1>7. VerifiersOK'
  BY <1>4, VerifiersFrame DEF Accounts, boundVars, Hash
<1>8. VerifiesInTime'
  BY <1>4, InTimeFrame DEF IInv, TypeOK, Goto, Hash
<1>9. KindsOK'
  <2>1. /\ pc[r] = "hash" /\ pc'[r] = "create" /\ kind' = kind
        /\ \A q \in Request : q # r => pc'[q] = pc[q]
    BY DEF IInv, TypeOK, Goto, Hash
  <2> QED
    BY <2>1, KindsFrame DEF IInv, KindsOK
<1> QED
  BY <1>1, <1>2, <1>3, <1>5, <1>6, <1>7, <1>8, <1>9 DEF IInv

\* A new row, made by a registration or for an invitation.
LEMMA InsertStep ==
  ASSUME IInv, NEW r \in Request, pc[r] \in {"create", "join"}, EmailFree(email[r]),
         NEW row \in User, row.email = email[r], row.sentAt = stamp[r] \/ row.token = Null,
         NEW label \in {"done", "mail"},
         row.token # Null => row.token = r /\ label = "mail",
         label = "mail" => kind[r] = "register",
         row.verified => selfHosted \/ kind[r] = "accept",
         users' = [users EXCEPT ![r] = row], Goto(r, label), workspaces' \in Nat,
         UNCHANGED <<mails, kind, email, subject, token, stamp, late, now, boundVars>>
  PROVE  IInv'
<1>1. /\ email[r] \in Email /\ users[r] = Null
      /\ \A u \in Accounts : users[u].email # email[r]
  BY DEF IInv, RequestsOK, EmailFree, AccountsOf
<1>2. pc'[r] = label /\ \A q \in Request : q # r => pc'[q] = pc[q]
  BY DEF IInv, TypeOK, Goto
<1>3. UNCHANGED <<mails, kind, email, subject, token, stamp, late, now, crashes, deletions, selfHosted>>
  BY DEF boundVars
<1>4. Accounts' = Accounts \cup {r}
  BY ConstantsAssumption DEF Accounts, IInv, TypeOK
<1>5. users'[r] = row /\ \A u \in Request : u # r => users'[u] = users[u]
  BY DEF IInv, TypeOK
<1>6. TypeOK'
  <2>1. users' \in [Request -> User \cup {Null}]
    BY DEF IInv, TypeOK
  <2>2. pc' \in [Request -> Busy \cup Over \cup {"free"}]
    BY DEF IInv, TypeOK, Goto, Busy, Over
  <2> QED
    BY <1>3, <2>1, <2>2 DEF IInv, TypeOK
<1>7. r \notin Accounts /\ \A u \in Accounts : u \in Request /\ users'[u] = users[u]
  BY <1>1, <1>5 DEF Accounts
<1>8. OneAccountPerEmail'
  BY <1>1, <1>4, <1>5, <1>7 DEF IInv, OneAccountPerEmail
<1>9. RequestsOK'
  <2> SUFFICES ASSUME NEW q \in Request
               PROVE  /\ pc'[q] \in {"free", "count", "hash", "create", "join"} => users'[q] = Null
                      /\ pc'[q] \in {"count", "hash", "create", "join", "write", "mail"} => email'[q] \in Email
                      /\ pc'[q] = "write" => /\ subject'[q] \in Accounts'
                                             /\ users'[subject'[q]].email = email'[q]
                      /\ pc'[q] = "verify" =>
                           /\ subject'[q] \in Accounts'
                           /\ token'[q] \in Request
                           /\ [to |-> users'[subject'[q]].email, token |-> token'[q]] \in mails'
    BY DEF RequestsOK
  <2>1. CASE q = r
    BY <1>1, <1>2, <1>3, <2>1
  <2>2. CASE q # r
    <3>1. pc'[q] = pc[q] /\ users'[q] = users[q]
      BY <1>2, <1>5, <2>2
    <3>2. subject[q] \in Accounts => /\ subject[q] \in Accounts'
                                    /\ users'[subject[q]] = users[subject[q]]
      BY <1>4, <1>7
    <3>3. /\ pc[q] \in {"free", "count", "hash", "create", "join"} => users[q] = Null
          /\ pc[q] \in {"count", "hash", "create", "join", "write", "mail"} => email[q] \in Email
          /\ pc[q] = "write" => /\ subject[q] \in Accounts
                                /\ users[subject[q]].email = email[q]
          /\ pc[q] = "verify" =>
               /\ subject[q] \in Accounts
               /\ token[q] \in Request
               /\ [to |-> users[subject[q]].email, token |-> token[q]] \in mails
      BY DEF IInv, RequestsOK
    <3> QED
      BY <1>3, <3>1, <3>2, <3>3
  <2> QED
    BY <2>1, <2>2
<1>10. \A u \in Accounts : SameRow(u)
  BY <1>7 DEF SameRow
<1>11. users'[r].token # Null => /\ users'[r].token = r /\ pc'[r] = "mail"
                                 /\ users'[r].email = email'[r] /\ users'[r].sentAt = stamp'[r]
  BY <1>2, <1>3, <1>5
<1>12. TokensOK'
  BY <1>2, <1>3, <1>4, <1>10, <1>11, TokensFrame
<1>13. CurrentTokenIsMailed'
  BY <1>2, <1>3, <1>4, <1>10, <1>11, MailedFrame
<1>14. MailsOK'
  BY <1>2, <1>3 DEF IInv, TypeOK, MailsOK
<1>15. ~selfHosted /\ kind'[r] = "register" => ~users'[r].verified
  BY <1>3, <1>5
<1>16. VerifiersOK'
  BY <1>2, <1>3, <1>4, <1>7, <1>15, VerifiersFrame
<1>17. VerifiesInTime'
  BY <1>2, <1>3, InTimeFrame
<1>18. KindsOK'
  BY <1>2, <1>3, KindsFrame DEF Over
<1> QED
  BY <1>6, <1>8, <1>9, <1>12, <1>13, <1>14, <1>16, <1>17, <1>18 DEF IInv

LEMMA CreateStep == ASSUME IInv, NEW r \in Request, Create(r) PROVE IInv'
<1>1. CASE Goto(r, "refused") /\ UNCHANGED <<users, workspaces>>
  BY <1>1, MoveStep DEF Create
<1>2. CASE EmailFree(email[r]) /\ users' = [users EXCEPT ![r] = NewUser(r)]
           /\ workspaces' = workspaces + 1 /\ Goto(r, IF selfHosted THEN "done" ELSE "mail")
  <2>1. pc[r] = "create" /\ kind[r] = "register" /\ email[r] \in Email
    BY DEF Create, IInv, KindsOK, RequestsOK
  <2>2. NewUser(r) \in User
    BY <2>1, ConstantsAssumption DEF NewUser, User, IInv, TypeOK
  <2>3. workspaces' \in Nat
    BY <1>2 DEF IInv, TypeOK
  <2>4. /\ NewUser(r).email = email[r] /\ NewUser(r).sentAt = stamp[r]
        /\ NewUser(r).token = (IF selfHosted THEN Null ELSE r)
        /\ NewUser(r).verified = selfHosted
    BY DEF NewUser
  <2> HIDE DEF NewUser
  <2>5. CASE selfHosted
    BY <1>2, <2>1, <2>2, <2>3, <2>4, <2>5, InsertStep DEF Create
  <2>6. CASE ~selfHosted
    BY <1>2, <2>1, <2>2, <2>3, <2>4, <2>6, InsertStep DEF Create
  <2> QED
    BY <2>5, <2>6
<1> QED
  BY <1>1, <1>2 DEF Create

LEMMA JoinStep == ASSUME IInv, NEW r \in Request, Join(r) PROVE IInv'
<1>1. CASE Goto(r, "refused") /\ UNCHANGED users
  BY <1>1, MoveStep DEF Join
<1>2. CASE EmailFree(email[r]) /\ users' = [users EXCEPT ![r] = InvitedUser(r)] /\ Goto(r, "done")
  <2>1. pc[r] = "join" /\ kind[r] = "accept" /\ email[r] \in Email
    BY DEF Join, IInv, KindsOK, RequestsOK
  <2>2. InvitedUser(r) \in User
    BY <2>1, ConstantsAssumption DEF InvitedUser, User, Time
  <2>3. workspaces' \in Nat
    BY DEF Join, IInv, TypeOK
  <2>4. InvitedUser(r).email = email[r] /\ InvitedUser(r).token = Null
    BY DEF InvitedUser
  <2> HIDE DEF InvitedUser
  <2> QED
    BY <1>2, <2>1, <2>2, <2>3, <2>4, InsertStep DEF Join
<1> QED
  BY <1>1, <1>2 DEF Join

\* A row of s changes columns other than the address.
LEMMA RowStep ==
  ASSUME IInv, NEW s \in Accounts, NEW row \in User,
         users' = [users EXCEPT ![s] = row], row.email = users[s].email
  PROVE  /\ users' \in [Request -> User \cup {Null}]
         /\ Accounts' = Accounts
         /\ OneAccountPerEmail'
         /\ users'[s] = row
         /\ \A u \in Accounts : users'[u].email = users[u].email
         /\ \A u \in Request : u # s => users'[u] = users[u]
<1>1. users' \in [Request -> User \cup {Null}] /\ users'[s] = row
  BY DEF IInv, TypeOK, Accounts
<1>2. \A u \in Request : u # s => users'[u] = users[u]
  BY DEF IInv, TypeOK
<1>3. Accounts' = Accounts
  BY <1>1, <1>2, ConstantsAssumption DEF Accounts
<1>4. \A u \in Accounts : users'[u].email = users[u].email
  BY <1>1, <1>2 DEF Accounts
<1>5. OneAccountPerEmail'
  BY <1>3, <1>4 DEF IInv, OneAccountPerEmail
<1> QED
  BY <1>1, <1>2, <1>3, <1>4, <1>5

LEMMA WriteStep == ASSUME IInv, NEW r \in Request, Write(r) PROVE IInv'
<1> DEFINE s == subject[r]
           row == [users[s] EXCEPT !.token = r, !.sentAt = stamp[r]]
<1>1. pc[r] = "write" /\ s \in Accounts /\ users[s].email = email[r] /\ email[r] \in Email
  BY DEF IInv, RequestsOK, Write
<1>2. users[s] \in User
  BY <1>1 DEF IInv, TypeOK, Accounts
<1>3. /\ row \in User /\ row.email = users[s].email /\ row.verified = users[s].verified
      /\ row.token = r /\ row.sentAt = stamp[r]
  BY <1>2 DEF User, IInv, TypeOK
<1>4. users' = [users EXCEPT ![s] = row]
  BY DEF Write, WithToken
<1> HIDE DEF s, row
<1>5. /\ users' \in [Request -> User \cup {Null}]
      /\ Accounts' = Accounts
      /\ OneAccountPerEmail'
      /\ users'[s] = row
      /\ \A u \in Accounts : users'[u].email = users[u].email
      /\ \A u \in Request : u # s => users'[u] = users[u]
  BY <1>1, <1>3, <1>4, RowStep
<1>6. pc' = [pc EXCEPT ![r] = "mail"]
  BY DEF Write, Goto
<1>7. UNCHANGED <<workspaces, mails, kind, email, subject, token, stamp, late, now, crashes, deletions, selfHosted>>
  BY DEF Write, boundVars
<1>8. TypeOK'
  <2>1. pc' \in [Request -> Busy \cup Over \cup {"free"}]
    BY <1>6 DEF IInv, TypeOK, Busy, Over
  <2> QED
    BY <1>5, <1>7, <2>1 DEF IInv, TypeOK
<1>9. \A q \in Request : q # r => pc'[q] = pc[q]
  BY <1>6 DEF IInv, TypeOK
<1>10. pc'[r] = "mail"
  BY <1>6 DEF IInv, TypeOK
<1>11. \A q \in Request : users'[q] = Null <=> users[q] = Null
  BY <1>5 DEF Accounts
<1>12. RequestsOK'
  <2>1. \A q \in Request : q # r =>
          /\ pc'[q] \in {"free", "count", "hash", "create", "join"} => users'[q] = Null
          /\ pc'[q] \in {"count", "hash", "create", "join", "write", "mail"} => email'[q] \in Email
          /\ pc'[q] = "write" => /\ subject'[q] \in Accounts'
                                 /\ users'[subject'[q]].email = email'[q]
          /\ pc'[q] = "verify" =>
               /\ subject'[q] \in Accounts'
               /\ token'[q] \in Request
               /\ [to |-> users'[subject'[q]].email, token |-> token'[q]] \in mails'
    BY <1>5, <1>7, <1>9, <1>11 DEF IInv, RequestsOK
  <2> QED
    BY <1>1, <1>7, <1>10, <2>1 DEF RequestsOK
<1>13. MailsOK'
  BY <1>1, <1>7, <1>9 DEF IInv, TypeOK, MailsOK
<1>14. \A u \in Accounts : u # s => SameRow(u)
  BY <1>5 DEF SameRow, Accounts
<1>15. /\ users'[s].token = r /\ users'[s].email = email[r] /\ users'[s].sentAt = stamp[r]
       /\ users'[s].verified = users[s].verified
  BY <1>1, <1>3, <1>5
<1>16. TokensOK'
  <2>1. \A u \in Accounts' :
           \/ SameRow(u)
           \/ LET t == users'[u].token IN
              t # Null => /\ pc'[t] = "mail"
                          /\ email'[t] = users'[u].email
                          /\ stamp'[t] = users'[u].sentAt
    BY <1>5, <1>7, <1>10, <1>14, <1>15
  <2> QED
    BY <1>1, <1>7, <1>9, <2>1, TokensFrame
<1>17. CurrentTokenIsMailed'
  <2>1. \A u \in Accounts' :
           \/ SameRow(u)
           \/ LET t == users'[u].token IN t # Null => pc'[t] = "mail"
    BY <1>5, <1>10, <1>14, <1>15
  <2> QED
    BY <1>1, <1>7, <1>9, <2>1, MailedFrame
<1>18. VerifiersOK'
  <2>1. \A u \in Accounts : users'[u].verified = users[u].verified
    BY <1>5, <1>15 DEF Accounts
  <2> QED
    BY <1>1, <1>5, <1>7, <1>9, <2>1, VerifiersFrame
<1>19. VerifiesInTime'
  BY <1>7, <1>9, <1>10, InTimeFrame
<1>20. KindsOK'
  BY <1>1, <1>7, <1>9, <1>10, KindsFrame DEF IInv, KindsOK
<1> QED
  BY <1>5, <1>8, <1>12, <1>13, <1>16, <1>17, <1>18, <1>19, <1>20 DEF IInv

LEMMA MailStep == ASSUME IInv, NEW r \in Request, Mail(r) PROVE IInv'
<1>1. pc[r] = "mail" /\ email[r] \in Email
  BY DEF IInv, RequestsOK, Mail
<1>2. mails' = mails \cup {[to |-> email[r], token |-> r]}
  BY DEF Mail, Mailed
<1>3. pc' = [pc EXCEPT ![r] = "done"]
  BY DEF Mail, Goto
<1>4. UNCHANGED <<users, workspaces, kind, email, subject, token, stamp, late, now, crashes, deletions, selfHosted>>
  BY DEF Mail, boundVars
<1>5. TypeOK'
  <2>1. pc' \in [Request -> Busy \cup Over \cup {"free"}]
    BY <1>3 DEF IInv, TypeOK, Busy, Over
  <2>2. mails' \subseteq [to : Email, token : Request]
    BY <1>1, <1>2 DEF IInv, TypeOK
  <2> QED
    BY <1>4, <2>1, <2>2 DEF IInv, TypeOK
<1>6. pc'[r] = "done" /\ \A q \in Request : q # r => pc'[q] = pc[q]
  BY <1>3 DEF IInv, TypeOK
<1>7. OneAccountPerEmail'
  BY <1>4 DEF IInv, OneAccountPerEmail, Accounts
<1>8. RequestsOK'
  BY <1>2, <1>4, <1>6 DEF IInv, RequestsOK, Accounts
<1>9. MailsOK'
  BY <1>2, <1>4, <1>6 DEF IInv, TypeOK, MailsOK
<1>10. TokensOK'
  BY <1>4, <1>6, SameUsers, TokensFrame
<1>11. CurrentTokenIsMailed'
  BY <1>2, <1>4, <1>6, SameUsers, MailedFrame
<1>12. VerifiersOK'
  BY <1>1, <1>2, <1>4, <1>6, VerifiersFrame DEF Accounts, boundVars
<1>13. VerifiesInTime'
  BY <1>4, <1>6, InTimeFrame
<1>14. KindsOK'
  BY <1>4, <1>6, KindsFrame DEF Over
<1> QED
  BY <1>5, <1>7, <1>8, <1>9, <1>10, <1>11, <1>12, <1>13, <1>14 DEF IInv

LEMMA VerifyStep ==
  ASSUME IInv, NEW r \in Request, NEW m \in mails, Verify(r, m.token) PROVE IInv'
<1> DEFINE t == m.token
<1>1. t \in Request /\ pc[t] \in {"done", "lost"} /\ email[t] = m.to
  BY DEF IInv, TypeOK, MailsOK
<1>2. /\ pc[r] = "free" /\ token' = [token EXCEPT ![r] = t]
      /\ kind' = [kind EXCEPT ![r] = "verify"]
  BY DEF Verify
<1>3. UNCHANGED <<users, workspaces, mails, email, late, now, crashes, deletions, selfHosted>>
  BY DEF Verify, boundVars
<1>4. \/ \E u \in Accounts : /\ users[u].token = t
                             /\ now - users[u].sentAt <= Ttl
                             /\ subject' = [subject EXCEPT ![r] = u]
                             /\ stamp' = [stamp EXCEPT ![r] = now]
                             /\ pc' = [pc EXCEPT ![r] = "verify"]
      \/ UNCHANGED <<subject, stamp>> /\ pc' = [pc EXCEPT ![r] = "done"]
      \/ UNCHANGED <<subject, stamp>> /\ pc' = [pc EXCEPT ![r] = "refused"]
  BY DEF Verify, HasToken, InTime, Goto
<1>5. \A q \in Request : q # r => /\ pc'[q] = pc[q] /\ token'[q] = token[q]
                                  /\ subject'[q] = subject[q] /\ stamp'[q] = stamp[q]
                                  /\ kind'[q] = kind[q]
  BY <1>2, <1>4 DEF IInv, TypeOK
<1>6. TypeOK'
  <2>1. pc' \in [Request -> Busy \cup Over \cup {"free"}]
    BY <1>4 DEF IInv, TypeOK, Busy, Over
  <2>2. token' \in [Request -> Request \cup {Null}]
    BY <1>1, <1>2 DEF IInv, TypeOK
  <2>3. subject' \in [Request -> Request \cup {Null}] /\ stamp' \in [Request -> Time]
    BY <1>4 DEF IInv, TypeOK, Accounts
  <2>4. kind' \in [Request -> Kind \cup {Null}]
    BY <1>2 DEF IInv, TypeOK, Kind
  <2> QED
    BY <1>3, <2>1, <2>2, <2>3, <2>4 DEF IInv, TypeOK
<1>7. OneAccountPerEmail'
  BY <1>3 DEF IInv, OneAccountPerEmail, Accounts
<1>8. pc'[r] = "verify" =>
        /\ subject'[r] \in Accounts /\ token'[r] = t
        /\ m = [to |-> users[subject'[r]].email, token |-> t]
        /\ stamp'[r] - stamp[t] <= Ttl
  <2> SUFFICES ASSUME pc'[r] = "verify"
               PROVE  /\ subject'[r] \in Accounts /\ token'[r] = t
                      /\ m = [to |-> users[subject'[r]].email, token |-> t]
                      /\ stamp'[r] - stamp[t] <= Ttl
    OBVIOUS
  <2>1. PICK u \in Accounts : /\ users[u].token = t
                              /\ now - users[u].sentAt <= Ttl
                              /\ subject' = [subject EXCEPT ![r] = u]
                              /\ stamp' = [stamp EXCEPT ![r] = now]
    BY <1>4 DEF IInv, TypeOK
  <2>2. subject'[r] = u /\ stamp'[r] = now /\ token'[r] = t
    BY <1>2, <2>1 DEF IInv, TypeOK
  <2>3. email[t] = users[u].email /\ stamp[t] = users[u].sentAt
    BY <1>1, <2>1, ConstantsAssumption DEF IInv, TokensOK
  <2>4. m = [to |-> m.to, token |-> m.token]
    BY DEF IInv, TypeOK
  <2> QED
    BY <1>1, <2>1, <2>2, <2>3, <2>4
<1>9. RequestsOK'
  <2>1. Accounts' = Accounts
    BY <1>3 DEF Accounts
  <2>2. pc'[r] \in {"verify", "done", "refused"}
    BY <1>4 DEF IInv, TypeOK
  <2> QED
    BY <1>1, <1>3, <1>5, <1>8, <2>1, <2>2 DEF IInv, RequestsOK
<1>10. MailsOK'
  BY <1>2, <1>3, <1>5 DEF IInv, TypeOK, MailsOK
<1>11. TokensOK' /\ CurrentTokenIsMailed'
  BY <1>2, <1>3, <1>5, SameUsers, TokensFrame, MailedFrame
<1>12. VerifiersOK'
  BY <1>2, <1>3, <1>5, BegunAccounts, VerifiersFrame DEF Accounts, boundVars
<1>13. VerifiesInTime'
  BY <1>1, <1>2, <1>5, <1>8, InTimeFrame
<1>14. KindsOK'
  <2>1. pc'[r] \in {"verify", "done", "refused"} /\ kind'[r] = "verify"
    BY <1>2, <1>4 DEF IInv, TypeOK
  <2> QED
    BY <1>5, <2>1, KindsFrame DEF Over
<1> QED
  BY <1>6, <1>7, <1>9, <1>10, <1>11, <1>12, <1>13, <1>14 DEF IInv

LEMMA SetVerifiedStep == ASSUME IInv, NEW r \in Request, SetVerified(r) PROVE IInv'
<1> DEFINE s == subject[r]
           row == [users[s] EXCEPT !.verified = TRUE]
<1>1. /\ pc[r] = "verify" /\ s \in Accounts
      /\ [to |-> users[s].email, token |-> token[r]] \in mails
  BY DEF IInv, RequestsOK, SetVerified
<1>2. users[s] \in User
  BY <1>1 DEF IInv, TypeOK, Accounts
<1>3. /\ row \in User /\ row.email = users[s].email
      /\ row.token = users[s].token /\ row.sentAt = users[s].sentAt
  BY <1>2 DEF User
<1>4. users' = [users EXCEPT ![s] = row]
  BY DEF SetVerified
<1> HIDE DEF s, row
<1>5. /\ users' \in [Request -> User \cup {Null}]
      /\ Accounts' = Accounts
      /\ OneAccountPerEmail'
      /\ users'[s] = row
      /\ \A u \in Accounts : users'[u].email = users[u].email
      /\ \A u \in Request : u # s => users'[u] = users[u]
  BY <1>1, <1>3, <1>4, RowStep
<1>6. pc' = [pc EXCEPT ![r] = "done"]
  BY DEF SetVerified, Goto
<1>7. UNCHANGED <<workspaces, mails, kind, email, subject, token, stamp, late, now, crashes, deletions, selfHosted>>
  BY DEF SetVerified, boundVars
<1>8. TypeOK'
  <2>1. pc' \in [Request -> Busy \cup Over \cup {"free"}]
    BY <1>6 DEF IInv, TypeOK, Busy, Over
  <2> QED
    BY <1>5, <1>7, <2>1 DEF IInv, TypeOK
<1>9. pc'[r] = "done" /\ \A q \in Request : q # r => pc'[q] = pc[q]
  BY <1>6 DEF IInv, TypeOK
<1>10. \A q \in Request : users'[q] = Null <=> users[q] = Null
  BY <1>5 DEF Accounts
<1>11. RequestsOK'
  BY <1>5, <1>7, <1>9, <1>10 DEF IInv, RequestsOK
<1>12. MailsOK'
  BY <1>7, <1>9 DEF IInv, TypeOK, MailsOK
<1>13. \A u \in Accounts : SameRow(u)
  BY <1>3, <1>5 DEF SameRow, Accounts
<1>14. TokensOK' /\ CurrentTokenIsMailed'
  BY <1>1, <1>5, <1>7, <1>9, <1>13, TokensFrame, MailedFrame
<1>15. VerifiersOK'
  <2>1. \A u \in Accounts : u # s => users'[u] = users[u]
    BY <1>5 DEF Accounts
  <2>2. /\ pc'[r] \in {"done", "lost"} /\ subject'[r] = s
        /\ [to |-> users'[s].email, token |-> token'[r]] \in mails'
    BY <1>1, <1>5, <1>7, <1>9 DEF s
  <2> QED
    BY <1>1, <1>5, <1>7, <1>9, <2>1, <2>2, VerifiersFrame
<1>16. VerifiesInTime'
  BY <1>7, <1>9, InTimeFrame
<1>17. KindsOK'
  BY <1>7, <1>9, KindsFrame DEF Over
<1> QED
  BY <1>5, <1>8, <1>11, <1>12, <1>14, <1>15, <1>16, <1>17 DEF IInv

\* Steps that change neither the accounts nor any request.
LEMMA OutsideStep ==
  ASSUME IInv, UNCHANGED <<users, mails, requestVars, selfHosted>>, TypeOK' PROVE IInv'
  BY DEF IInv, OneAccountPerEmail, RequestsOK, KindsOK, TokensOK, MailsOK, VerifiersOK,
     VerifiesInTime, CurrentTokenIsMailed, Accounts, requestVars

LEMMA DeleteWorkspaceStep == ASSUME IInv, DeleteWorkspace PROVE IInv'
<1>1. TypeOK'
  <2>1. late' \subseteq Request
    BY DEF IInv, TypeOK, DeleteWorkspace
  <2> QED
    BY <2>1, ConstantsAssumption DEF IInv, TypeOK, DeleteWorkspace, requestVars
<1> QED
  BY <1>1, OutsideStep DEF DeleteWorkspace

LEMMA TickStep == ASSUME IInv, Tick PROVE IInv'
<1>1. TypeOK'
  BY ConstantsAssumption DEF IInv, TypeOK, Tick, requestVars, boundVars, Time
<1> QED
  BY <1>1, OutsideStep DEF Tick, boundVars

LEMMA CrashStep == ASSUME IInv, Crash PROVE IInv'
<1>1. \A q \in Request : pc'[q] = IF pc[q] \in Busy THEN "lost" ELSE pc[q]
  BY DEF Crash
<1>2. UNCHANGED <<users, workspaces, mails, kind, email, subject, token, stamp, late, now, deletions, selfHosted>>
  BY DEF Crash
<1>3. TypeOK'
  <2>1. pc' \in [Request -> Busy \cup Over \cup {"free"}]
    BY DEF IInv, TypeOK, Crash, Over
  <2>2. crashes' \in 0..MaxCrashes
    BY ConstantsAssumption DEF IInv, TypeOK, Crash
  <2> QED
    BY <1>2, <2>1, <2>2 DEF IInv, TypeOK
<1>4. \A q \in Request : \/ pc'[q] = pc[q] /\ pc[q] \notin Busy
                         \/ pc'[q] = "lost" /\ pc[q] \in Busy
  BY <1>1
<1>5. OneAccountPerEmail'
  BY <1>2 DEF IInv, OneAccountPerEmail, Accounts
<1>6. RequestsOK'
  BY <1>2, <1>4 DEF IInv, RequestsOK, Accounts, Busy
<1>7. MailsOK'
  BY <1>2, <1>4 DEF IInv, TypeOK, MailsOK, Busy
<1>8. TokensOK' /\ CurrentTokenIsMailed'
  BY <1>2, <1>4, SameUsers, TokensFrame, MailedFrame DEF Busy
<1>9. VerifiersOK'
  BY <1>2, <1>4, VerifiersFrame DEF Accounts, boundVars, Busy
<1>10. VerifiesInTime'
  BY <1>2, <1>4, InTimeFrame DEF Busy
<1>11. KindsOK'
  BY <1>2, <1>4, KindsFrame DEF Over
<1> QED
  BY <1>3, <1>5, <1>6, <1>7, <1>8, <1>9, <1>10, <1>11 DEF IInv

LEMMA Inductive == IInv /\ [Next]_vars => IInv'
<1> SUFFICES ASSUME IInv, [Next]_vars PROVE IInv'
  OBVIOUS
<1>1. CASE \E r \in Request, e \in Email, password \in Password : Register(r, e, password)
  BY <1>1, RegisterStep
<1>2. CASE \E r \in Request, e \in Email : Accept(r, e) \/ Resend(r, e)
  BY <1>2, AcceptStep, ResendStep
<1>3. CASE \E r \in Request, m \in mails : Verify(r, m.token)
  BY <1>3, VerifyStep
<1>4. CASE \E r \in Request : Step(r)
  BY <1>4, CountStep, HashStep, CreateStep, JoinStep, WriteStep, MailStep, SetVerifiedStep DEF Step
<1>5. CASE DeleteWorkspace \/ Tick \/ Crash
  BY <1>5, DeleteWorkspaceStep, TickStep, CrashStep
<1>6. CASE UNCHANGED vars
  <2>1. TypeOK'
    BY <1>6 DEF IInv, TypeOK, vars, requestVars, boundVars
  <2> QED
    BY <1>6, <2>1, OutsideStep DEF vars, boundVars
<1> QED
  BY <1>1, <1>2, <1>3, <1>4, <1>5, <1>6 DEF Next, Rest

THEOREM Invariance == Spec => []IInv
  BY InitInductive, Inductive, PTL DEF Spec

-----------------------------------------------------------------------------
\* Type correctness.
THEOREM TypeCorrect == Spec => []TypeOK
<1>1. IInv => TypeOK
  BY DEF IInv
<1> QED
  BY <1>1, Invariance, PTL

\* No two accounts have one address, however registrations race.
THEOREM OneAccountCorrect == Spec => []OneAccountPerEmail
<1>1. IInv => OneAccountPerEmail
  BY DEF IInv
<1> QED
  BY <1>1, Invariance, PTL

\* In the cloud only a token that was mailed to the address verifies an account
\* that was not invited.
THEOREM VerifiedByMailCorrect == Spec => []VerifiedByMail
<1>1. IInv => VerifiedByMail
  BY DEF IInv, VerifiersOK, VerifiedByMail
<1> QED
  BY <1>1, Invariance, PTL

\* No link verifies after its time.
THEOREM InTimeCorrect == Spec => []VerifiesInTime
<1>1. IInv => VerifiesInTime
  BY DEF IInv
<1> QED
  BY <1>1, Invariance, PTL

\* The current link is mailed unless a crash came between.
THEOREM MailedCorrect == Spec => []CurrentTokenIsMailed
<1>1. IInv => CurrentTokenIsMailed
  BY DEF IInv
<1> QED
  BY <1>1, Invariance, PTL

\* A verified account stays verified.
THEOREM VerifiedForGoodCorrect == Spec => VerifiedForGood
<1>1. IInv /\ [Next]_vars => [KeepsVerified]_vars
  <2> SUFFICES ASSUME IInv, Next PROVE KeepsVerified
    BY DEF vars
  <2> SUFFICES ASSUME NEW u \in Accounts, users[u].verified PROVE users'[u].verified
    BY DEF KeepsVerified
  <2>1. CASE \E r \in Request : Create(r) \/ Join(r)
    BY <2>1 DEF IInv, TypeOK, RequestsOK, Create, Join, Accounts
  <2>2. CASE \E r \in Request : Write(r)
    <3>1. PICK r \in Request : Write(r)
      BY <2>2
    <3>2. users[u] \in User
      BY DEF IInv, TypeOK, Accounts
    <3> QED
      BY <3>1, <3>2 DEF IInv, TypeOK, Accounts, Write, WithToken, User
  <2>3. CASE \E r \in Request : SetVerified(r)
    <3>1. PICK r \in Request : SetVerified(r)
      BY <2>3
    <3>2. users[u] \in User
      BY DEF IInv, TypeOK, Accounts
    <3> QED
      BY <3>1, <3>2 DEF IInv, TypeOK, Accounts, SetVerified, User
  <2>4. CASE UNCHANGED users
    BY <2>4
  <2> QED
    BY <2>1, <2>2, <2>3, <2>4
    DEF Next, Register, Accept, Resend, Verify, Step, Count, Hash, Mail, DeleteWorkspace,
        Tick, Crash, Rest, vars
<1> QED
  BY <1>1, Invariance, PTL DEF Spec, VerifiedForGood

\* Why late registrations end without an account: those that find their
\* address unknown still have the count before them, and it will not be zero.
LateOK ==
  /\ late # {} => workspaces > 0
  /\ \A r \in late : pc[r] \notin {"free", "hash", "create", "join"} /\ users[r] = Null

LEMMA LateStep == IInv /\ LateOK /\ [Next]_vars => LateOK'
<1> SUFFICES ASSUME IInv, LateOK, [Next]_vars PROVE LateOK'
  OBVIOUS
<1> USE DEF IInv, TypeOK
<1>1. CASE UNCHANGED vars
  BY <1>1 DEF LateOK, vars, requestVars
<1>2. ASSUME NEW r \in Request, NEW e \in Email, NEW password \in Password, Register(r, e, password)
      PROVE  LateOK'
  <2>1. /\ r \notin late /\ pc[r] = "free" /\ users[r] = Null /\ UNCHANGED <<users, workspaces>>
        /\ \A q \in Request : q # r => pc'[q] = pc[q]
    BY <1>2 DEF Register, Begin, AnswerExisting, Goto, LateOK, RequestsOK
  <2>2. \/ late' = late
        \/ selfHosted /\ workspaces > 0 /\ late' = late \cup {r}
    BY <1>2 DEF Register
  <2>3. selfHosted => pc'[r] \in {"write", "done", "count", "refused"}
    BY <1>2 DEF Register, AnswerExisting, NewcomerTo, Goto
  <2> QED
    BY <2>1, <2>2, <2>3 DEF LateOK
<1>3. ASSUME NEW r \in Request, NEW e \in Email, Accept(r, e) \/ Resend(r, e) PROVE LateOK'
  <2>1. /\ r \notin late /\ UNCHANGED <<users, workspaces, late>>
        /\ \A q \in Request : q # r => pc'[q] = pc[q]
    BY <1>3 DEF Accept, Resend, Begin, AnswerExisting, Goto, LateOK
  <2> QED
    BY <2>1 DEF LateOK
<1>4. ASSUME NEW r \in Request, NEW m \in mails, Verify(r, m.token) PROVE LateOK'
  <2>1. /\ r \notin late /\ UNCHANGED <<users, workspaces, late>>
        /\ \A q \in Request : q # r => pc'[q] = pc[q]
    BY <1>4 DEF Verify, Goto, LateOK
  <2> QED
    BY <2>1 DEF LateOK
<1>5. ASSUME NEW r \in Request, Count(r) PROVE LateOK'
  <2>1. /\ UNCHANGED <<users, workspaces, late>> /\ \A q \in Request : q # r => pc'[q] = pc[q]
        /\ workspaces > 0 => pc'[r] = "refused"
    BY <1>5 DEF Count, RegistrationOpen, Goto
  <2> QED
    BY <2>1 DEF LateOK
<1>6. ASSUME NEW r \in Request, Hash(r) PROVE LateOK'
  <2>1. /\ r \notin late /\ UNCHANGED <<users, workspaces, late>>
        /\ \A q \in Request : q # r => pc'[q] = pc[q]
    BY <1>6 DEF Hash, Goto, LateOK
  <2> QED
    BY <2>1 DEF LateOK
<1>7. ASSUME NEW r \in Request, Create(r) \/ Join(r) PROVE LateOK'
  <2>1. /\ r \notin late /\ late' = late /\ workspaces' \in {workspaces, workspaces + 1}
        /\ \A q \in Request : q # r => pc'[q] = pc[q] /\ users'[q] = users[q]
    BY <1>7 DEF Create, Join, Goto, LateOK
  <2> QED
    BY <2>1 DEF LateOK
<1>8. ASSUME NEW r \in Request, Write(r) \/ SetVerified(r) PROVE LateOK'
  <2>1. /\ subject[r] \in Accounts /\ UNCHANGED <<workspaces, late>>
        /\ pc'[r] \in {"mail", "done"} /\ \A q \in Request : q # r => pc'[q] = pc[q]
        /\ \A q \in Request : q # subject[r] => users'[q] = users[q]
    BY <1>8 DEF Write, SetVerified, Goto, RequestsOK
  <2> QED
    BY <2>1 DEF LateOK, Accounts
<1>9. ASSUME NEW r \in Request, Mail(r) PROVE LateOK'
  BY <1>9 DEF Mail, Goto, LateOK
<1>10. CASE DeleteWorkspace
  BY <1>10 DEF DeleteWorkspace, LateOK, requestVars
<1>11. CASE Tick \/ Crash
  BY <1>11 DEF Tick, Crash, LateOK, requestVars
<1> QED
  BY <1>1, <1>2, <1>3, <1>4, <1>5, <1>6, <1>7, <1>8, <1>9, <1>10, <1>11 DEF Next, Step, Rest

\* A self-hosted registration that begins when there is a workspace ends without
\* an account, as long as there is one.
THEOREM LateCorrect == Spec => []LateMakeNoAccount
<1>1. Init => LateOK
  BY DEF Init, LateOK
<1>2. LateOK => LateMakeNoAccount
  BY DEF LateOK, LateMakeNoAccount, Accounts
<1> QED
  BY <1>1, <1>2, LateStep, Invariance, PTL DEF Spec

-----------------------------------------------------------------------------
(* What a success means.                                                    *)

\* What a request that ended well has behind it: a verified account whose
\* address the link was mailed to, or an account of the address, verified or
\* with a link.
BackedOK ==
  /\ \A u \in Accounts : users[u].verified \/ users[u].token # Null
  /\ \A r \in Request :
       /\ pc[r] = "done" /\ kind[r] = "verify" =>
            \E u \in Accounts :
              users[u].verified /\ [to |-> users[u].email, token |-> token[r]] \in mails
       /\ pc[r] \in {"write", "mail", "done"} /\ kind[r] = "register" =>
            AccountsOf(email[r]) # {}

\* What every step leaves of the accounts and the mails.
Keeps ==
  /\ mails \subseteq mails'
  /\ \A u \in Accounts :
       /\ u \in Accounts'
       /\ users'[u].email = users[u].email
       /\ users[u].verified => users'[u].verified
       /\ users[u].token # Null => users'[u].token # Null

LEMMA BackedFrame ==
  ASSUME BackedOK, Keeps,
         \A u \in Accounts' : u \in Accounts \/ users'[u].verified \/ users'[u].token # Null,
         \A q \in Request :
           \/ pc'[q] = pc[q] /\ kind'[q] = kind[q] /\ token'[q] = token[q] /\ email'[q] = email[q]
           \/ pc'[q] \notin {"write", "mail", "done"}
           \/ kind'[q] \notin {"register", "verify"}
           \/ /\ kind'[q] = "verify"
              /\ \E u \in Accounts' :
                   users'[u].verified /\ [to |-> users'[u].email, token |-> token'[q]] \in mails'
           \/ kind'[q] = "register" /\ \E u \in Accounts' : users'[u].email = email'[q]
  PROVE  BackedOK'
<1>1. \A u \in Accounts' : users'[u].verified \/ users'[u].token # Null
  BY DEF BackedOK, Keeps
<1>2. ASSUME NEW q \in Request
      PROVE  /\ pc'[q] = "done" /\ kind'[q] = "verify" =>
                  \E u \in Accounts' :
                    users'[u].verified /\ [to |-> users'[u].email, token |-> token'[q]] \in mails'
             /\ pc'[q] \in {"write", "mail", "done"} /\ kind'[q] = "register" =>
                  \E u \in Accounts' : users'[u].email = email'[q]
  <2>1. CASE /\ pc'[q] = pc[q] /\ kind'[q] = kind[q]
             /\ token'[q] = token[q] /\ email'[q] = email[q]
    <3>1. ASSUME pc'[q] = "done", kind'[q] = "verify"
          PROVE  \E u \in Accounts' :
                   users'[u].verified /\ [to |-> users'[u].email, token |-> token'[q]] \in mails'
      <4>1. PICK u \in Accounts :
              users[u].verified /\ [to |-> users[u].email, token |-> token[q]] \in mails
        BY <2>1, <3>1 DEF BackedOK
      <4>2. u \in Accounts' /\ users'[u].verified /\ users'[u].email = users[u].email
        BY <4>1 DEF Keeps
      <4> QED
        BY <2>1, <4>1, <4>2 DEF Keeps
    <3>2. ASSUME pc'[q] \in {"write", "mail", "done"}, kind'[q] = "register"
          PROVE  \E u \in Accounts' : users'[u].email = email'[q]
      <4>1. PICK u \in Accounts : users[u].email = email[q]
        BY <2>1, <3>2 DEF BackedOK, AccountsOf
      <4> QED
        BY <2>1, <4>1 DEF Keeps
    <3> QED
      BY <3>1, <3>2
  <2> QED
    BY <2>1
<1> QED
  BY <1>1, <1>2 DEF BackedOK, AccountsOf

\* A step that leaves the accounts alone keeps them.
LEMMA SameKeeps == ASSUME UNCHANGED users, mails \subseteq mails' PROVE Keeps
  BY DEF Keeps, Accounts

\* A new row is verified or has a token, and keeps the others.
LEMMA InsertKeeps ==
  ASSUME IInv, NEW r \in Request, users[r] = Null, NEW row, row # Null,
         users' = [users EXCEPT ![r] = row], UNCHANGED mails
  PROVE  /\ Keeps /\ Accounts' = Accounts \cup {r} /\ users'[r] = row
<1>1. users'[r] = row /\ \A u \in Request : u # r => users'[u] = users[u]
  BY DEF IInv, TypeOK
<1>2. r \notin Accounts /\ Accounts' = Accounts \cup {r}
  BY <1>1 DEF Accounts
<1> QED
  BY <1>1, <1>2 DEF Keeps, Accounts

LEMMA BackedStep == IInv /\ BackedOK /\ [Next]_vars => BackedOK'
<1> SUFFICES ASSUME IInv, BackedOK, [Next]_vars PROVE BackedOK'
  OBVIOUS
<1>1. ASSUME NEW r \in Request, NEW e \in Email, NEW password \in Password, Register(r, e, password)
      PROVE  BackedOK'
  <2>1. /\ kind'[r] = "register" /\ email'[r] = e /\ UNCHANGED <<users, mails>>
        /\ \A q \in Request : q # r => /\ pc'[q] = pc[q] /\ token'[q] = token[q]
                                       /\ kind'[q] = kind[q] /\ email'[q] = email[q]
    BY <1>1 DEF Register, Begin, AnswerExisting, Goto, IInv, TypeOK
  <2>2. pc'[r] \notin {"write", "mail", "done"} \/ \E u \in Accounts' : users'[u].email = e
    BY <1>1 DEF Register, Begin, NewcomerTo, Goto, IInv, TypeOK, AccountsOf, Accounts
  <2> QED
    BY <2>1, <2>2, SameKeeps, BackedFrame DEF Accounts
<1>2. ASSUME NEW r \in Request, NEW e \in Email, Accept(r, e) \/ Resend(r, e) PROVE BackedOK'
  <2>1. /\ kind'[r] \in {"accept", "resend"} /\ UNCHANGED <<users, mails>>
        /\ \A q \in Request : q # r => /\ pc'[q] = pc[q] /\ token'[q] = token[q]
                                       /\ kind'[q] = kind[q] /\ email'[q] = email[q]
    BY <1>2 DEF Accept, Resend, Begin, AnswerExisting, Goto, IInv, TypeOK
  <2> QED
    BY <2>1, SameKeeps, BackedFrame DEF Accounts
<1>3. ASSUME NEW r \in Request, NEW m \in mails, Verify(r, m.token) PROVE BackedOK'
  <2>1. /\ UNCHANGED <<users, mails, email>> /\ token'[r] = m.token /\ kind'[r] = "verify"
        /\ \A q \in Request : q # r => pc'[q] = pc[q] /\ token'[q] = token[q] /\ kind'[q] = kind[q]
    BY <1>3 DEF Verify, Goto, IInv, TypeOK
  <2>2. /\ m.token \in Request /\ m.token # Null
        /\ m = [to |-> m.to, token |-> m.token] /\ email[m.token] = m.to
    BY ConstantsAssumption DEF IInv, TypeOK, MailsOK
  <2>3. \/ pc'[r] \in {"verify", "refused"}
        \/ /\ pc'[r] = "done"
           /\ \E u \in Accounts : users[u].token = m.token /\ users[u].verified
    BY <1>3 DEF Verify, Goto, HasToken, AlreadyVerified, IInv, TypeOK
  <2>4. \A u \in Accounts : users[u].token = m.token => users[u].email = m.to
    BY <2>2 DEF IInv, TokensOK
  <2>5. \/ pc'[r] \in {"verify", "refused"}
        \/ \E u \in Accounts' :
             users'[u].verified /\ [to |-> users'[u].email, token |-> token'[r]] \in mails'
    BY <2>1, <2>2, <2>3, <2>4 DEF Accounts
  <2> QED
    BY <2>1, <2>5, SameKeeps, BackedFrame DEF Accounts
<1>4. ASSUME NEW r \in Request, Count(r) \/ Hash(r) PROVE BackedOK'
  <2>1. /\ pc'[r] \in {"hash", "create", "refused"} /\ UNCHANGED <<users, mails, kind, token, email>>
        /\ \A q \in Request : q # r => pc'[q] = pc[q]
    BY <1>4 DEF Count, Hash, Goto, IInv, TypeOK
  <2> QED
    BY <2>1, SameKeeps, BackedFrame DEF Accounts
<1>5. ASSUME NEW r \in Request, Create(r) \/ Join(r) PROVE BackedOK'
  <2>1. /\ pc[r] \in {"create", "join"} /\ users[r] = Null
        /\ pc[r] = "join" => kind[r] = "accept"
        /\ UNCHANGED <<mails, kind, token, email>>
        /\ \A q \in Request : q # r => pc'[q] = pc[q]
    BY <1>5 DEF Create, Join, Goto, IInv, TypeOK, RequestsOK, KindsOK
  <2>2. CASE pc'[r] = "refused" /\ UNCHANGED users
    BY <2>1, <2>2, SameKeeps, BackedFrame DEF Accounts
  <2>3. CASE Create(r) /\ users' = [users EXCEPT ![r] = NewUser(r)]
    <3>1. /\ NewUser(r) # Null /\ NewUser(r).email = email[r]
          /\ NewUser(r).verified \/ NewUser(r).token # Null
      <4>1. NewUser(r) \in User
        BY <2>1, ConstantsAssumption DEF NewUser, User, IInv, TypeOK, RequestsOK
      <4> QED
        BY <4>1, ConstantsAssumption DEF NewUser
    <3>2. kind[r] = "register"
      BY <2>3 DEF Create, IInv, KindsOK
    <3> HIDE DEF NewUser
    <3>3. Keeps /\ Accounts' = Accounts \cup {r} /\ users'[r] = NewUser(r)
      BY <2>1, <2>3, <3>1, InsertKeeps
    <3> QED
      BY <2>1, <3>1, <3>2, <3>3, BackedFrame
  <2>4. CASE Join(r) /\ users' = [users EXCEPT ![r] = InvitedUser(r)]
    <3>1. InvitedUser(r) # Null /\ InvitedUser(r).verified /\ kind[r] = "accept"
      <4>1. InvitedUser(r) \in User
        <5>1. pc[r] = "join" /\ email[r] \in Email
          BY <2>4 DEF Join, IInv, RequestsOK
        <5> QED
          BY <5>1, ConstantsAssumption DEF InvitedUser, User, Time
      <4> QED
        BY <2>4, <4>1, ConstantsAssumption DEF InvitedUser, Join, IInv, KindsOK
    <3> HIDE DEF InvitedUser
    <3>2. Keeps /\ Accounts' = Accounts \cup {r} /\ users'[r] = InvitedUser(r)
      BY <2>1, <2>4, <3>1, InsertKeeps
    <3> QED
      BY <2>1, <3>1, <3>2, BackedFrame
  <2> QED
    BY <1>5, <2>2, <2>3, <2>4 DEF Create, Join, Goto, IInv, TypeOK
<1>6. ASSUME NEW r \in Request, Write(r) PROVE BackedOK'
  <2>1. /\ pc[r] = "write" /\ subject[r] \in Accounts /\ pc'[r] = "mail"
        /\ kind[r] = "register" => AccountsOf(email[r]) # {}
        /\ UNCHANGED <<mails, kind, token, email>>
        /\ \A q \in Request : q # r => pc'[q] = pc[q]
    BY <1>6 DEF Write, Goto, IInv, TypeOK, RequestsOK, BackedOK
  <2>2. users[subject[r]] \in User
    BY <2>1 DEF IInv, TypeOK, Accounts
  <2>3. /\ users'[subject[r]] \in User
        /\ users'[subject[r]].email = users[subject[r]].email
        /\ users'[subject[r]].verified = users[subject[r]].verified
        /\ users'[subject[r]].token = r
        /\ \A u \in Request : u # subject[r] => users'[u] = users[u]
    BY <1>6, <2>1, <2>2 DEF Write, WithToken, IInv, TypeOK, User, Accounts
  <2>4. Accounts' = Accounts
    BY <2>1, <2>3, ConstantsAssumption DEF Accounts
  <2>5. Keeps
    BY <2>1, <2>3, <2>4, ConstantsAssumption DEF Keeps, Accounts
  <2>6. kind[r] = "register" => \E u \in Accounts' : users'[u].email = email'[r]
    BY <2>1, <2>4, <2>5 DEF AccountsOf, Keeps
  <2>7. kind[r] \in {"register", "resend"}
    BY <2>1 DEF IInv, KindsOK
  <2> QED
    BY <2>1, <2>4, <2>5, <2>6, <2>7, BackedFrame
<1>7. ASSUME NEW r \in Request, Mail(r) PROVE BackedOK'
  <2>1. /\ pc[r] = "mail" /\ pc'[r] = "done" /\ kind[r] \in {"register", "resend"}
        /\ UNCHANGED <<users, kind, token, email>> /\ mails \subseteq mails'
        /\ \A q \in Request : q # r => pc'[q] = pc[q]
    BY <1>7 DEF Mail, Goto, IInv, TypeOK, KindsOK
  <2>2. kind[r] = "register" => \E u \in Accounts' : users'[u].email = email'[r]
    BY <2>1 DEF BackedOK, AccountsOf, Accounts
  <2> QED
    BY <2>1, <2>2, SameKeeps, BackedFrame DEF Accounts
<1>8. ASSUME NEW r \in Request, SetVerified(r) PROVE BackedOK'
  <2> DEFINE s == subject[r]
  <2>1. /\ pc[r] = "verify" /\ kind[r] = "verify" /\ s \in Accounts /\ pc'[r] = "done"
        /\ [to |-> users[s].email, token |-> token[r]] \in mails
        /\ UNCHANGED <<mails, kind, token, email>>
        /\ \A q \in Request : q # r => pc'[q] = pc[q]
    BY <1>8 DEF SetVerified, Goto, IInv, TypeOK, RequestsOK, KindsOK
  <2>2. users[s] \in User
    BY <2>1 DEF IInv, TypeOK, Accounts
  <2>3. /\ users'[s] \in User /\ users'[s].email = users[s].email
        /\ users'[s].verified /\ users'[s].token = users[s].token
        /\ \A u \in Request : u # s => users'[u] = users[u]
    BY <1>8, <2>1, <2>2 DEF SetVerified, IInv, TypeOK, User, Accounts
  <2>4. Accounts' = Accounts
    BY <2>1, <2>3, ConstantsAssumption DEF Accounts
  <2>5. Keeps
    BY <2>1, <2>3, <2>4 DEF Keeps, Accounts
  <2>6. \E u \in Accounts' :
          users'[u].verified /\ [to |-> users'[u].email, token |-> token'[r]] \in mails'
    BY <2>1, <2>3, <2>4
  <2> QED
    BY <2>1, <2>4, <2>5, <2>6, BackedFrame
<1>9. CASE DeleteWorkspace \/ Tick \/ UNCHANGED vars
  BY <1>9, SameKeeps, BackedFrame DEF DeleteWorkspace, Tick, vars, requestVars, Accounts
<1>10. CASE Crash
  <2>1. \A q \in Request : pc'[q] = pc[q] \/ pc'[q] = "lost"
    BY <1>10 DEF Crash
  <2> QED
    BY <1>10, <2>1, SameKeeps, BackedFrame DEF Crash, Accounts
<1> QED
  BY <1>1, <1>2, <1>3, <1>4, <1>5, <1>6, <1>7, <1>8, <1>9, <1>10 DEF Next, Step, Rest

\* What a success tells who verifies or registers is so of the accounts and of
\* the mail, in both modes, invited accounts among them.
THEOREM SuccessCorrect == Spec => []SuccessIsBacked
<1>1. Init => BackedOK
  BY DEF Init, BackedOK, Accounts
<1>2. IInv /\ BackedOK => SuccessIsBacked
  <2> SUFFICES ASSUME IInv, BackedOK, NEW r \in Request, SaysSent(r)
               PROVE  \E u \in AccountsOf(email[r]) :
                        LET t == users[u].token IN
                        \/ users[u].verified
                        \/ /\ t # Null
                           /\ \/ [to |-> email[r], token |-> t] \in mails
                              \/ pc[t] \in {"mail", "lost"}
    BY DEF SuccessIsBacked, SaysVerified, Shown, BackedOK
  <2>1. PICK u \in AccountsOf(email[r]) : users[u].verified \/ users[u].token # Null
    BY DEF SaysSent, Shown, BackedOK, AccountsOf
  <2>2. users[u].token # Null =>
          \/ [to |-> email[r], token |-> users[u].token] \in mails
          \/ pc[users[u].token] \in {"mail", "lost"}
    BY DEF IInv, CurrentTokenIsMailed, AccountsOf
  <2> QED
    BY <2>1, <2>2
<1> QED
  BY <1>1, <1>2, BackedStep, Invariance, PTL DEF Spec
=============================================================================
