-------------------------- MODULE WebSessionProofs --------------------------
(***************************************************************************)
(* Proofs about WebSession, for any accounts, requests and API clients and *)
(* any bound on the pairs of tokens.                                       *)
(*                                                                         *)
(* The properties are not inductive.  They rest on four facts, each a      *)
(* conjunct of IInv: a mutex that is held is held by a request that        *)
(* refreshes; a pair of tokens that is still on its way has never been     *)
(* used; while the page initializes it does nothing else; and a refresh    *)
(* that is under way and not late is for the user the page shows.          *)
(***************************************************************************)
EXTENDS WebSession, TLAPS

-----------------------------------------------------------------------------
(* The inductive invariant.                                                *)

\* The mutex of a client and the requests that hold it or wait for it.
MutexOK ==
  /\ \A c \in Client :
       mutex[c] # None => client[mutex[c]] = c /\ pc[mutex[c]] = "refreshing"
  /\ \A r \in Request :
       /\ pc[r] # "idle" => client[r] \in Client
       /\ pc[r] = "refreshing" => mutex[client[r]] = r
       /\ pc[r] \in {"waiting", "queued"} => mutex[client[r]] # None

\* Pairs on their way are new, and those who were woken find another token
\* than the one they were refused with, or none.
FreshOK ==
  /\ \A x \in Caller : wire[x] = "ok" =>
       /\ pair[x] # 0 /\ pair[x] # access
       /\ \A r \in Request : pair[x] # token[r]
       /\ \A y \in Caller : wire[y] = "ok" /\ pair[y] = pair[x] => y = x
  /\ \A r \in Request : pc[r] = "woken" => access = 0 \/ access # token[r]

\* The page does one thing at a time, and initializing is the first.
DoingOK ==
  /\ \A p, q \in doing : p = q
  /\ "init" \in doing =>
       /\ access = 0 /\ user = None
       /\ \A r \in Request : pc[r] = "idle"
       /\ wire["init"] = "idle" => refresh = 0
  /\ "init" \notin doing => wire["init"] = "idle"

\* After a logout only late refreshes are under way.
SignedOutOK ==
  signedOut /\ ~crossed =>
    /\ user = None /\ access = 0 /\ refresh = 0 /\ storage = 0
    /\ wire["init"] = "idle"
    /\ \A r \in Request : pc[r] = "refreshing" => r \in late

\* Refreshes that are not late are the user's own.
ConsistentOK ==
  ~crossed /\ ~leaving /\ "init" \notin doing =>
    /\ user = None <=> access = 0
    /\ access # 0 => issued[access] = user
    /\ refresh = access
    /\ \A r \in Request :
         pc[r] = "refreshing" /\ r \notin late /\ wire[r] \in {"sent", "ok"} =>
           pair[r] # 0 /\ issued[pair[r]] = user

\* The call of a request that refreshes is at the server or answered.
AnswerDue == \A r \in Request : pc[r] = "refreshing" => wire[r] # "idle"

IInv == TypeOK /\ MutexOK /\ AnswerDue /\ FreshOK /\ DoingOK /\ SignedOutOK /\ ConsistentOK

-----------------------------------------------------------------------------
(* Callers and pairs.                                                      *)

\* The page's own operations are no requests.
LEMMA Callers ==
  /\ Operation \subseteq Caller /\ Request \subseteq Caller
  /\ None \notin Request /\ None \notin Client /\ None \notin Account
  /\ \A r \in Request : r # "init" /\ r # "login" /\ r # "logout"
BY SessionAssumption DEF Caller, Operation

\* A new pair leaves the older ones as they are.
LEMMA IssueAppends ==
  ASSUME TypeOK, NEW x \in Caller, NEW a \in Account, Issue(x, a)
  PROVE  /\ issued' \in Seq(Account) /\ Len(issued') = Len(issued) + 1
         /\ issued'[Len(issued) + 1] = a
         /\ \A i \in 1 .. Len(issued) : issued'[i] = issued[i] /\ issued[i] \in Account
BY DEF TypeOK, Issue

\* What the server does to a call: refuse it, or answer with a new pair for
\* somebody, who is the owner of the token that came with a refresh.
LEMMA Serves ==
  ASSUME TypeOK, NEW x \in Caller, Serve(x)
  PROVE  \/ Refuse(x)
         \/ \E a \in Account :
              Issue(x, a) /\ (x \in Request =>
                                 pair[x] \in 1 .. Len(issued) /\ a = issued[pair[x]])
<1>1. CASE x = "login" /\ \E a \in Account : Issue(x, a)
  BY <1>1, Callers
<1>2. CASE x \notin {"login", "logout"} /\ Refreshable(pair[x]) /\ Issue(x, issued[pair[x]])
  <2>1. pair[x] \in 1 .. Len(issued)
    BY <1>2 DEF Refreshable, TypeOK
  <2>2. issued[pair[x]] \in Account
    BY <2>1 DEF TypeOK
  <2> QED
    BY <1>2, <2>1, <2>2
<1> QED
  BY <1>1, <1>2 DEF Serve

\* The three ends of initializeSession.
LEMMA InitEndings ==
  ASSUME TypeOK, InitEnds
  PROVE  \/ wire["init"] = "idle" /\ UNCHANGED <<access, refresh, storage, user>>
         \/ wire["init"] = "ok" /\ SetTokens(pair["init"]) /\ user' = issued[pair["init"]]
         \/ wire["init"] = "refused" /\ ClearTokens /\ user' = user
<1>1. wire["init"] \in {"idle", "ok", "refused"}
  BY Callers DEF TypeOK, InitEnds, End, Operation
<1>2. CASE wire["init"] = "idle"
  BY <1>2 DEF InitEnds, storeVars
<1>3. CASE wire["init"] = "ok"
  BY <1>3 DEF InitEnds
<1>4. CASE wire["init"] = "refused"
  BY <1>4 DEF InitEnds
<1> QED
  BY <1>1, <1>2, <1>3, <1>4

\* Who has a token in an answer that has arrived.
LEMMA Owners ==
  ASSUME TypeOK, NEW n \in 0 .. Len(issued), n # 0
  PROVE  n \in 1 .. Len(issued) /\ issued[n] \in Account /\ issued[n] # None
BY Callers DEF TypeOK

-----------------------------------------------------------------------------
(* Types.                                                                  *)

LEMMA InitTyped == Init => TypeOK
<1> SUFFICES ASSUME Init PROVE TypeOK
  OBVIOUS
<1>1. issued \in Seq(Account) /\ Len(issued) = 0
  BY DEF Init
<1>2. /\ accessLapsed \in 0 .. Len(issued) /\ refreshLapsed \in 0 .. accessLapsed
      /\ {access, refresh, storage} \subseteq 0 .. Len(issued)
  BY <1>1 DEF Init
<1>3. user \in Account \cup {None} /\ doing \subseteq Operation /\ leaving \in BOOLEAN
  BY DEF Init, Operation
<1>4. /\ wire \in [Caller -> {"idle", "sent", "ok", "refused"}]
      /\ pair \in [Caller -> 0 .. Len(issued)]
  BY <1>1 DEF Init
<1>5. /\ pc \in [Request -> {"idle", "queued", "ready", "sent", "waiting",
                             "refreshing", "woken", "resent"}]
      /\ token \in [Request -> 0 .. Len(issued)]
  BY <1>1 DEF Init
<1>6. /\ client \in [Request -> Client \cup {None}]
      /\ mutex \in [Client -> Request \cup {None}]
  BY DEF Init
<1>7. late \subseteq Request /\ crossed \in BOOLEAN /\ signedOut \in BOOLEAN
  BY DEF Init
<1> QED
  BY <1>1, <1>2, <1>3, <1>4, <1>5, <1>6, <1>7 DEF TypeOK

\* The parts of TypeOK: the server and the store, the page, the calls, the requests.
TokensTyped ==
  /\ issued \in Seq(Account)
  /\ accessLapsed \in 0 .. Len(issued) /\ refreshLapsed \in 0 .. accessLapsed
  /\ access \in 0 .. Len(issued) /\ refresh \in 0 .. Len(issued) /\ storage \in 0 .. Len(issued)

PageTyped ==
  /\ user \in Account \cup {None} /\ doing \subseteq Operation /\ leaving \in BOOLEAN
  /\ late \subseteq Request /\ crossed \in BOOLEAN /\ signedOut \in BOOLEAN

CallsTyped ==
  /\ wire \in [Caller -> {"idle", "sent", "ok", "refused"}]
  /\ pair \in [Caller -> 0 .. Len(issued)]

RequestsTyped ==
  /\ pc \in [Request -> {"idle", "queued", "ready", "sent", "waiting",
                         "refreshing", "woken", "resent"}]
  /\ token \in [Request -> 0 .. Len(issued)]
  /\ client \in [Request -> Client \cup {None}]
  /\ mutex \in [Client -> Request \cup {None}]

LEMMA TypeParts ==
  /\ TypeOK <=> TokensTyped /\ PageTyped /\ CallsTyped /\ RequestsTyped
  /\ TypeOK' <=> TokensTyped' /\ PageTyped' /\ CallsTyped' /\ RequestsTyped'
BY DEF TypeOK, TokensTyped, PageTyped, CallsTyped, RequestsTyped

LEMMA TypedStep ==
  ASSUME TypeOK, FreshOK, [Next]_vars
  PROVE  TypeOK'
<1>1. TokensTyped /\ PageTyped /\ CallsTyped /\ RequestsTyped
  BY TypeParts
<1>2. SUFFICES TokensTyped' /\ PageTyped' /\ CallsTyped' /\ RequestsTyped'
  BY TypeParts
<1>3. ASSUME NEW x \in Caller, Serve(x)
      PROVE  TokensTyped' /\ PageTyped' /\ CallsTyped' /\ RequestsTyped'
  <2>1. UNCHANGED <<accessLapsed, refreshLapsed, access, refresh, storage, user, doing, leaving,
                    pc, token, client, mutex, late, crossed, signedOut>>
    BY <1>3 DEF Serve, storeVars, pageVars, requestVars, history
  <2>2. issued' \in Seq(Account) /\ Len(issued') >= Len(issued) /\ CallsTyped'
    <3>1. CASE Refuse(x)
      BY <1>1, <3>1 DEF TokensTyped, CallsTyped, Refuse
    <3>2. ASSUME NEW a \in Account, Issue(x, a)
          PROVE  issued' \in Seq(Account) /\ Len(issued') >= Len(issued) /\ CallsTyped'
      <4>1. issued' \in Seq(Account) /\ Len(issued') = Len(issued) + 1 /\ Len(issued) \in Nat
        BY <1>1, <3>2, IssueAppends DEF TokensTyped
      <4>2. 0 .. Len(issued) \subseteq 0 .. Len(issued') /\ Len(issued') \in 0 .. Len(issued')
        BY <4>1
      <4> QED
        BY <1>1, <3>2, <4>1, <4>2 DEF CallsTyped, Issue
    <3> QED
      BY <1>3, <3>1, <3>2, Serves
  <2>3. Len(issued) \in Nat /\ Len(issued') \in Nat
    BY <1>1, <2>2 DEF TokensTyped
  <2>4. 0 .. Len(issued) \subseteq 0 .. Len(issued')
    BY <2>2, <2>3
  <2> QED
    BY <1>1, <2>1, <2>2, <2>4 DEF TokensTyped, PageTyped, RequestsTyped
<1>4. CASE Lapse
  <2>1. TokensTyped'
    <3>1. Len(issued) \in Nat /\ accessLapsed \in Nat /\ refreshLapsed \in Nat
      BY <1>1 DEF TokensTyped
    <3> QED
      BY <1>1, <1>4, <3>1 DEF TokensTyped, Lapse, storeVars
  <2> QED
    BY <1>1, <1>4, <2>1
    DEF PageTyped, CallsTyped, RequestsTyped, Lapse, pageVars, callVars, requestVars, history
<1>5. ASSUME NEW op \in Operation, End(op)
      PROVE  CallsTyped' /\ RequestsTyped' /\ doing' \subseteq Operation /\ leaving' = leaving
  <2>1. UNCHANGED <<issued, leaving, pc, token, client, mutex>> /\ Len(issued) \in Nat
    BY <1>1, <1>5 DEF End, serverVars, requestVars, TokensTyped
  <2>2. wire' = [wire EXCEPT ![op] = "idle"] /\ pair' = [pair EXCEPT ![op] = 0]
    BY <1>5 DEF End
  <2>3. CallsTyped'
    <3>1. wire' \in [Caller -> {"idle", "sent", "ok", "refused"}]
      BY <1>1, <2>2 DEF CallsTyped
    <3>2. 0 \in 0 .. Len(issued)
      BY <2>1
    <3>3. pair' \in [Caller -> 0 .. Len(issued)]
      BY <1>1, <2>2, <3>2 DEF CallsTyped
    <3> QED
      BY <2>1, <3>1, <3>3 DEF CallsTyped
  <2> QED
    BY <1>1, <1>5, <2>1, <2>3 DEF RequestsTyped, PageTyped, End
<1>6. ASSUME NEW op \in Operation, End(op), wire[op] = "ok"
      PROVE  pair[op] \in 0 .. Len(issued) /\ issued[pair[op]] \in Account
  <2>1. op \in Caller /\ pair[op] \in 0 .. Len(issued)
    BY <1>1, Callers DEF CallsTyped
  <2> QED
    BY <1>6, <2>1, Owners DEF FreshOK
<1>7. CASE InitEnds
  <2>1. "init" \in Operation /\ End("init") /\ UNCHANGED <<late, crossed, signedOut>>
    BY <1>7 DEF InitEnds, Operation, history
  <2>2. UNCHANGED <<issued, accessLapsed, refreshLapsed>> /\ Len(issued) \in Nat
    BY <1>1, <2>1 DEF End, serverVars, TokensTyped
  <2>3. TokensTyped' /\ user' \in Account \cup {None}
    BY <1>1, <1>6, <1>7, <2>1, <2>2, InitEndings
    DEF TokensTyped, PageTyped, SetTokens, ClearTokens, SaveToStorage, RemoveFromStorage
  <2> QED
    BY <1>1, <1>5, <2>1, <2>3 DEF PageTyped
<1>8. CASE LoginEnds
  <2>1. "login" \in Operation /\ End("login")
    BY <1>8 DEF LoginEnds, Operation
  <2>2. UNCHANGED <<issued, accessLapsed, refreshLapsed>> /\ Len(issued) \in Nat
    BY <1>1, <2>1 DEF End, serverVars, TokensTyped
  <2>3. TokensTyped' /\ user' \in Account \cup {None}
    BY <1>1, <1>6, <1>8, <2>1, <2>2
    DEF TokensTyped, PageTyped, LoginEnds, SetTokens, SaveToStorage, storeVars
  <2>4. late' \subseteq Request /\ crossed' \in BOOLEAN /\ signedOut' \in BOOLEAN
    BY <1>1, <1>8 DEF PageTyped, LoginEnds, Turn, history
  <2> QED
    BY <1>1, <1>5, <2>1, <2>3, <2>4 DEF PageTyped
<1>9. CASE LogoutEnds
  <2>1. "logout" \in Operation /\ End("logout")
    BY <1>9 DEF LogoutEnds, Operation
  <2>2. UNCHANGED <<issued, accessLapsed, refreshLapsed>> /\ Len(issued) \in Nat
    BY <1>1, <2>1 DEF End, serverVars, TokensTyped
  <2>3. TokensTyped' /\ user' \in Account \cup {None}
    BY <1>1, <1>9, <2>2 DEF TokensTyped, LogoutEnds, ClearTokens, RemoveFromStorage
  <2>4. late' \subseteq Request /\ crossed' \in BOOLEAN /\ signedOut' \in BOOLEAN
    BY <1>9 DEF LogoutEnds, Turn
  <2> QED
    BY <1>1, <1>5, <2>1, <2>3, <2>4 DEF PageTyped
<1>10. CASE Login \/ Logout
  <2>1. PICK op \in Operation : Start(op)
    BY <1>10 DEF Login, Logout, Operation
  <2>2. PageTyped' /\ CallsTyped'
    BY <1>1, <2>1 DEF PageTyped, CallsTyped, Start, serverVars, history
  <2> QED
    BY <1>1, <2>1, <2>2 DEF TokensTyped, RequestsTyped, Start, serverVars, storeVars, requestVars
<1>11. CASE Reload
  <2>1. UNCHANGED <<issued, accessLapsed, refreshLapsed>> /\ Len(issued) \in Nat
    BY <1>1, <1>11 DEF Reload, serverVars, TokensTyped
  <2>2. TokensTyped'
    BY <1>1, <1>11, <2>1 DEF Reload, TokensTyped
  <2>3. PageTyped'
    BY <1>1, <1>11 DEF Reload, PageTyped, Operation
  <2>4. CallsTyped'
    BY <1>1, <1>11, <2>1 DEF Reload, TokensTyped, CallsTyped
  <2>5. RequestsTyped'
    BY <1>1, <1>11, <2>1 DEF Reload, RequestsTyped
  <2> QED
    BY <2>2, <2>3, <2>4, <2>5
<1>12. ASSUME NEW r \in Request, NEW label \in {"sent", "resent"}, Go(r, label) \/ Return(r),
              UNCHANGED <<serverVars, storeVars, pageVars, callVars, mutex, history>>
       PROVE  TokensTyped' /\ PageTyped' /\ CallsTyped' /\ RequestsTyped'
  <2>1. issued' = issued /\ Len(issued) \in Nat /\ access \in 0 .. Len(issued)
    BY <1>1, <1>12 DEF serverVars, TokensTyped
  <2>2. RequestsTyped'
    <3>1. mutex' = mutex
      BY <1>12
    <3>2. CASE Go(r, label)
      BY <1>1, <2>1, <3>1, <3>2 DEF RequestsTyped, Go, Goto
    <3>3. CASE Return(r)
      BY <1>1, <2>1, <3>1, <3>3 DEF RequestsTyped, Return, Goto
    <3> QED
      BY <1>12, <3>2, <3>3
  <2> QED
    BY <1>1, <1>12, <2>2
    DEF TokensTyped, PageTyped, CallsTyped, serverVars, storeVars, pageVars, callVars, history
<1>13. ASSUME NEW r \in Request, Unauthorized(r)
       PROVE  TokensTyped' /\ PageTyped' /\ CallsTyped' /\ RequestsTyped'
  <2>1. \/ Return(r) /\ UNCHANGED <<wire, pair, mutex>>
        \/ /\ Goto(r, "refreshing") /\ mutex' = [mutex EXCEPT ![client[r]] = r]
           /\ wire' = [wire EXCEPT ![r] = "sent"] /\ pair' = [pair EXCEPT ![r] = refresh]
           /\ UNCHANGED <<token, client>>
        \/ Goto(r, "waiting") /\ UNCHANGED <<wire, pair, mutex, token, client>>
    BY <1>13 DEF Unauthorized, callVars, WhileRefreshing
  <2>2. UNCHANGED <<issued, accessLapsed, refreshLapsed, access, refresh, storage>>
    BY <1>13 DEF Unauthorized, serverVars, storeVars
  <2>3. refresh \in 0 .. Len(issued) /\ Len(issued) \in Nat
    BY <1>1 DEF TokensTyped
  <2>4. CallsTyped'
    BY <1>1, <2>1, <2>2, <2>3 DEF CallsTyped
  <2>5. RequestsTyped'
    <3>1. CASE Return(r) /\ UNCHANGED mutex
      BY <1>1, <2>2, <2>3, <3>1 DEF RequestsTyped, Return, Goto
    <3>2. CASE /\ Goto(r, "refreshing") \/ Goto(r, "waiting")
               /\ mutex' \in {mutex, [mutex EXCEPT ![client[r]] = r]}
               /\ UNCHANGED <<token, client>>
      BY <1>1, <2>2, <3>2 DEF RequestsTyped, Goto
    <3> QED
      BY <2>1, <3>1, <3>2
  <2> QED
    BY <1>1, <1>13, <2>2, <2>4, <2>5 DEF TokensTyped, PageTyped, Unauthorized, pageVars, history
<1>14. ASSUME NEW r \in Request, RefreshEnds(r)
       PROVE  TokensTyped' /\ PageTyped' /\ CallsTyped' /\ RequestsTyped'
  <2>1. UNCHANGED <<issued, accessLapsed, refreshLapsed, user, doing, token, client, signedOut>>
    BY <1>14 DEF RefreshEnds, serverVars
  <2>2. r \in Caller /\ pair[r] \in 0 .. Len(issued) /\ Len(issued) \in Nat
    BY <1>1, Callers DEF CallsTyped, TokensTyped
  <2>3. TokensTyped'
    BY <1>1, <1>14, <2>1, <2>2
    DEF TokensTyped, RefreshEnds, SetTokens, ClearTokens, SaveToStorage, RemoveFromStorage
  <2>4. PageTyped'
    BY <1>1, <1>14, <2>1 DEF PageTyped, RefreshEnds
  <2>5. CallsTyped'
    BY <1>1, <1>14, <2>1, <2>2 DEF CallsTyped, RefreshEnds
  <2>6. pc' \in [Request -> {"idle", "queued", "ready", "sent", "waiting",
                            "refreshing", "woken", "resent"}]
    BY <1>1, <1>14 DEF RequestsTyped, RefreshEnds, Wake
  <2>7. RequestsTyped'
    BY <1>1, <1>14, <2>1, <2>6 DEF RequestsTyped, RefreshEnds, Released
  <2> QED
    BY <2>3, <2>4, <2>5, <2>7
<1>15. ASSUME NEW r \in Request, Progress(r)
       PROVE  TokensTyped' /\ PageTyped' /\ CallsTyped' /\ RequestsTyped'
  BY <1>12, <1>13, <1>14, <1>15 DEF Progress, Ready, Answered, Resend
<1>16. ASSUME NEW r \in Request, NEW c \in Client, Send(r, c)
       PROVE  TokensTyped' /\ PageTyped' /\ CallsTyped' /\ RequestsTyped'
  <2>1. issued' = issued /\ mutex' = mutex /\ access \in 0 .. Len(issued)
    BY <1>1, <1>16 DEF Send, serverVars, TokensTyped
  <2>2. RequestsTyped'
    BY <1>1, <1>16, <2>1 DEF RequestsTyped, Send, Goto
  <2> QED
    BY <1>1, <1>16, <2>2
    DEF Send, TokensTyped, PageTyped, CallsTyped, serverVars, storeVars, pageVars, callVars, history
<1>17. CASE UNCHANGED vars
  BY <1>1, <1>17
  DEF TokensTyped, PageTyped, CallsTyped, RequestsTyped, vars, serverVars, storeVars, pageVars,
      callVars, requestVars, history
<1> QED
  BY <1>3, <1>4, <1>7, <1>8, <1>9, <1>10, <1>11, <1>15, <1>16, <1>17 DEF Next, OperationEnds

-----------------------------------------------------------------------------
(* What the parts of a step do to requests.                                *)

\* Where a request goes, everybody else stays.
LEMMA Elsewhere ==
  ASSUME RequestsTyped, NEW r \in Request, NEW label, NEW q \in Request
  PROVE  /\ Goto(r, label) => pc'[q] = IF q = r THEN label ELSE pc[q]
         /\ Go(r, label) => /\ pc'[q] = IF q = r THEN label ELSE pc[q]
                            /\ token'[q] = IF q = r THEN access ELSE token[q]
                            /\ client' = client
         /\ Return(r) => /\ pc'[q] = IF q = r THEN "idle" ELSE pc[q]
                         /\ token'[q] = IF q = r THEN 0 ELSE token[q]
                         /\ client'[q] = IF q = r THEN None ELSE client[q]
BY DEF RequestsTyped, Goto, Go, Return

\* The 401 of a request: its answer, or a refresh, or a wait.
LEMMA Refused401 ==
  ASSUME NEW r \in Request, Unauthorized(r)
  PROVE  \/ refresh = 0 /\ Return(r) /\ UNCHANGED <<wire, pair, mutex>>
         \/ /\ refresh # 0 /\ mutex[client[r]] = None
            /\ Goto(r, "refreshing") /\ mutex' = [mutex EXCEPT ![client[r]] = r]
            /\ wire' = [wire EXCEPT ![r] = "sent"] /\ pair' = [pair EXCEPT ![r] = refresh]
            /\ UNCHANGED <<token, client>>
         \/ /\ refresh # 0 /\ mutex[client[r]] # None
            /\ Goto(r, "waiting") /\ UNCHANGED <<wire, pair, mutex, token, client>>
BY DEF Unauthorized, callVars, WhileRefreshing, MayRefresh

\* The end of a refresh wakes those of its client who wait, and nobody else.
LEMMA Wakes ==
  ASSUME RequestsTyped, NEW r \in Request, pc[r] = "refreshing", NEW q \in Request, Wake(r)
  PROVE  /\ client[q] # client[r] => pc'[q] = pc[q]
         /\ client[q] = client[r] =>
              pc'[q] = IF pc[q] = "queued" THEN "ready"
                       ELSE IF pc[q] = "waiting" \/ q = r THEN "woken" ELSE pc[q]
<1>1. pc'[q] = IF client[q] # client[r] THEN pc[q]
               ELSE CASE pc[q] = "queued" -> "ready"
                      [] pc[q] = "waiting" \/ q = r -> "woken"
                      [] OTHER -> pc[q]
  BY DEF Wake
<1>2. CASE client[q] # client[r]
  BY <1>1, <1>2
<1>3. CASE client[q] = client[r]
  <2>1. pc'[q] = CASE pc[q] = "queued" -> "ready"
                   [] pc[q] = "waiting" \/ q = r -> "woken"
                   [] OTHER -> pc[q]
    BY <1>1, <1>3
  <2>2. pc[q] = "queued" => q # r
    OBVIOUS
  <2>3. CASE pc[q] # "queued"
    BY <1>3, <2>1, <2>3
  <2>4. CASE pc[q] = "queued"
    BY <1>3, <2>1, <2>2, <2>4
  <2> QED
    BY <2>3, <2>4
<1> QED
  BY <1>2, <1>3

-----------------------------------------------------------------------------
(* The mutex.                                                              *)

\* Steps that leave the requests and the mutexes alone.
LEMMA MutexKept ==
  ASSUME MutexOK, UNCHANGED <<pc, client, mutex>>
  PROVE  MutexOK'
BY DEF MutexOK

LEMMA MutexStep ==
  ASSUME TypeOK, TypeOK', MutexOK, [Next]_vars
  PROVE  MutexOK'
<1>1. RequestsTyped /\ RequestsTyped'
  BY TypeParts
<1>2. ASSUME NEW r \in Request, pc[r] \in {"ready", "sent", "resent", "woken"},
             mutex' = mutex,
             \/ \E label \in {"sent", "resent"} : Go(r, label)
             \/ Return(r)
             \/ /\ Goto(r, "waiting") /\ client' = client
                /\ mutex[client[r]] # None
      PROVE  MutexOK'
  <2>1. ASSUME NEW q \in Request
        PROVE  /\ q # r => pc'[q] = pc[q] /\ client'[q] = client[q]
               /\ pc'[q] # "idle" => client'[q] = client[q]
               /\ q = r => pc'[q] \in {"sent", "resent", "idle", "waiting"}
               /\ q = r /\ pc'[q] = "waiting" => mutex[client[q]] # None
    BY <1>1, <1>2, Elsewhere
  <2>2. ASSUME NEW c \in Client, mutex'[c] # None
        PROVE  client'[mutex'[c]] = c /\ pc'[mutex'[c]] = "refreshing"
    <3>1. mutex[c] \in Request /\ client[mutex[c]] = c /\ pc[mutex[c]] = "refreshing"
      BY <1>1, <1>2, <2>2 DEF MutexOK, RequestsTyped
    <3> QED
      BY <1>2, <2>1, <3>1
  <2>3. ASSUME NEW q \in Request
        PROVE  /\ pc'[q] # "idle" => client'[q] \in Client
               /\ pc'[q] = "refreshing" => mutex'[client'[q]] = q
               /\ pc'[q] \in {"waiting", "queued"} => mutex'[client'[q]] # None
    <3>1. mutex' = mutex /\ pc[r] # "idle"
      BY <1>2
    <3>2. CASE q = r
      BY <2>1, <3>1, <3>2 DEF MutexOK
    <3>3. CASE q # r
      BY <2>1, <3>1, <3>3 DEF MutexOK
    <3> QED
      BY <3>2, <3>3
  <2> QED
    BY <2>2, <2>3 DEF MutexOK
<1>3. ASSUME NEW r \in Request, Unauthorized(r) PROVE MutexOK'
  <2>1. pc[r] = "sent" /\ client[r] \in Client
    BY <1>3 DEF Unauthorized, MutexOK
  <2>2. CASE Return(r) /\ mutex' = mutex
    BY <1>2, <2>1, <2>2
  <2>3. CASE mutex[client[r]] # None /\ Goto(r, "waiting") /\ UNCHANGED <<mutex, client>>
    BY <1>2, <2>1, <2>3
  <2>4. CASE /\ mutex[client[r]] = None /\ Goto(r, "refreshing") /\ client' = client
             /\ mutex' = [mutex EXCEPT ![client[r]] = r]
    <3>1. \A q \in Request : pc'[q] = IF q = r THEN "refreshing" ELSE pc[q]
      BY <1>1, <2>4, Elsewhere
    <3>2. \A c \in Client : mutex'[c] = IF c = client[r] THEN r ELSE mutex[c]
      BY <1>1, <2>4 DEF RequestsTyped
    <3>3. \A c \in Client : mutex[c] \in Request \cup {None}
      BY <1>1 DEF RequestsTyped
    <3>4. \A c \in Client :
            mutex'[c] # None => client'[mutex'[c]] = c /\ pc'[mutex'[c]] = "refreshing"
      BY <2>4, <3>1, <3>2, <3>3 DEF MutexOK
    <3>5. ASSUME NEW q \in Request
          PROVE  /\ pc'[q] # "idle" => client'[q] \in Client
                 /\ pc'[q] = "refreshing" => mutex'[client'[q]] = q
                 /\ pc'[q] \in {"waiting", "queued"} => mutex'[client'[q]] # None
      <4>1. q # r /\ pc[q] # "idle" => client[q] \in Client
        BY DEF MutexOK
      <4>2. q # r /\ pc[q] = "refreshing" => mutex[client[q]] = q /\ client[q] # client[r]
        BY <2>4, Callers DEF MutexOK
      <4>3. q # r /\ pc[q] \in {"waiting", "queued"} =>
              mutex[client[q]] # None /\ client[q] # client[r]
        BY <2>4 DEF MutexOK
      <4> QED
        BY <2>1, <2>4, <3>1, <3>2, <4>1, <4>2, <4>3
    <3> QED
      BY <3>4, <3>5 DEF MutexOK
  <2> QED
    BY <1>3, <2>2, <2>3, <2>4, Refused401
<1>4. ASSUME NEW r \in Request, RefreshEnds(r) PROVE MutexOK'
  <2>1. /\ pc[r] = "refreshing" /\ client[r] \in Client /\ mutex[client[r]] = r
        /\ Wake(r) /\ client' = client
        /\ mutex' = [mutex EXCEPT ![client[r]] = None]
    BY <1>4 DEF RefreshEnds, MutexOK, Released
  <2>2. \A c \in Client : mutex'[c] = IF c = client[r] THEN None ELSE mutex[c]
    BY <1>1, <2>1 DEF RequestsTyped
  <2>3. \A c \in Client : mutex[c] \in Request \cup {None}
    BY <1>1 DEF RequestsTyped
  <2>4. ASSUME NEW c \in Client, mutex'[c] # None
        PROVE  client'[mutex'[c]] = c /\ pc'[mutex'[c]] = "refreshing"
    <3>1. c # client[r] /\ mutex'[c] = mutex[c] /\ mutex[c] \in Request
      BY <2>2, <2>3, <2>4
    <3>2. client[mutex[c]] = c /\ pc[mutex[c]] = "refreshing"
      BY <2>4, <3>1 DEF MutexOK
    <3> QED
      BY <1>1, <2>1, <3>1, <3>2, Wakes
  <2>5. ASSUME NEW q \in Request
        PROVE  /\ pc'[q] # "idle" => client'[q] \in Client
               /\ pc'[q] = "refreshing" => mutex'[client'[q]] = q
               /\ pc'[q] \in {"waiting", "queued"} => mutex'[client'[q]] # None
    <3>1. CASE client[q] = client[r]
      <4>1. pc[q] = "refreshing" => q = r
        BY <2>1, <3>1 DEF MutexOK
      <4>2. pc'[q] \notin {"refreshing", "waiting", "queued"}
        BY <1>1, <2>1, <3>1, <4>1, Wakes
      <4> QED
        BY <2>1, <3>1, <4>2
    <3>2. CASE client[q] # client[r]
      BY <1>1, <2>1, <2>2, <3>2, Wakes DEF MutexOK
    <3> QED
      BY <3>1, <3>2
  <2> QED
    BY <2>4, <2>5 DEF MutexOK
<1>5. ASSUME NEW r \in Request, Progress(r) PROVE MutexOK'
  BY <1>2, <1>3, <1>4, <1>5 DEF Progress, Ready, Answered, Resend
<1>6. ASSUME NEW r \in Request, NEW c \in Client, Send(r, c) PROVE MutexOK'
  <2>1. /\ pc[r] = "idle" /\ mutex' = mutex
        /\ \A q \in Request : client'[q] = IF q = r THEN c ELSE client[q]
        /\ \A q \in Request :
             pc'[q] = IF q # r THEN pc[q] ELSE IF mutex[c] = None THEN "sent" ELSE "queued"
    BY <1>1, <1>6 DEF Send, Goto, RequestsTyped
  <2>2. \A d \in Client : mutex[d] \in Request \cup {None}
    BY <1>1 DEF RequestsTyped
  <2>3. \A d \in Client :
          mutex'[d] # None => client'[mutex'[d]] = d /\ pc'[mutex'[d]] = "refreshing"
    BY <2>1, <2>2 DEF MutexOK
  <2>4. ASSUME NEW q \in Request
        PROVE  /\ pc'[q] # "idle" => client'[q] \in Client
               /\ pc'[q] = "refreshing" => mutex'[client'[q]] = q
               /\ pc'[q] \in {"waiting", "queued"} => mutex'[client'[q]] # None
    BY <2>1 DEF MutexOK
  <2> QED
    BY <2>3, <2>4 DEF MutexOK
<1>7. CASE Reload
  <2>1. /\ \A q \in Request : pc'[q] = "idle"
        /\ \A c \in Client : mutex'[c] = None
    BY <1>7 DEF Reload
  <2> QED
    BY <2>1 DEF MutexOK
<1> QED
  BY <1>5, <1>6, <1>7, MutexKept
  DEF Next, Serve, Lapse, OperationEnds, InitEnds, LoginEnds, LogoutEnds, End, Login, Logout, Start,
      vars, requestVars

LEMMA AnswerStep ==
  ASSUME TypeOK, TypeOK', MutexOK, AnswerDue, [Next]_vars
  PROVE  AnswerDue'
<1>1. RequestsTyped /\ RequestsTyped' /\ CallsTyped /\ CallsTyped'
  BY TypeParts
<1> SUFFICES ASSUME NEW q \in Request, pc'[q] = "refreshing" PROVE wire'[q] # "idle"
  BY DEF AnswerDue
<1>2. pc[q] = "refreshing" => wire[q] # "idle"
  BY DEF AnswerDue
<1>3. q \in Caller /\ q # "init" /\ q # "login" /\ q # "logout"
  BY Callers
<1>4. ASSUME NEW x \in Caller, Serve(x) PROVE wire'[q] # "idle"
  <2>1. pc' = pc /\ \E a \in {"ok", "refused"} : wire' = [wire EXCEPT ![x] = a]
    BY <1>4 DEF Serve, Refuse, Issue, requestVars
  <2> QED
    BY <1>1, <1>2, <1>3, <2>1 DEF CallsTyped
<1>5. ASSUME NEW op \in Operation, End(op) \/ Start(op) PROVE wire'[q] # "idle"
  <2>1. op # q /\ pc' = pc /\ \E a \in {"idle", "sent"} : wire' = [wire EXCEPT ![op] = a]
    BY <1>3, <1>5 DEF End, Start, Operation, requestVars
  <2> QED
    BY <1>1, <1>2, <1>3, <2>1 DEF CallsTyped
<1>6. ASSUME NEW r \in Request, Unauthorized(r) PROVE wire'[q] # "idle"
  <2>1. CASE q = r
    BY <1>1, <1>3, <1>6, <2>1, Refused401, Elsewhere DEF CallsTyped
  <2>2. CASE q # r
    <3>1. pc'[q] = pc[q]
      BY <1>1, <1>6, <2>2, Refused401, Elsewhere
    <3>2. wire'[q] = wire[q]
      BY <1>1, <1>3, <1>6, <2>2, Refused401 DEF CallsTyped
    <3> QED
      BY <1>2, <3>1, <3>2
  <2> QED
    BY <2>1, <2>2
<1>7. ASSUME NEW r \in Request, RefreshEnds(r) PROVE wire'[q] # "idle"
  <2>1. q # r /\ pc[q] = "refreshing"
    BY <1>1, <1>7, Wakes DEF RefreshEnds
  <2> QED
    BY <1>1, <1>2, <1>3, <1>7, <2>1 DEF RefreshEnds, CallsTyped
<1>8. ASSUME NEW r \in Request, Ready(r) \/ Answered(r) \/ Resend(r)
      PROVE  wire'[q] # "idle"
  BY <1>1, <1>2, <1>8, Elsewhere DEF Ready, Answered, Resend, callVars
<1>9. ASSUME NEW r \in Request, NEW c \in Client, Send(r, c) PROVE wire'[q] # "idle"
  BY <1>1, <1>2, <1>9, Elsewhere DEF Send, callVars
<1>10. CASE Reload
  BY <1>10 DEF Reload
<1>11. CASE Lapse \/ UNCHANGED vars
  BY <1>2, <1>11 DEF Lapse, callVars, requestVars, vars
<1> QED
  BY <1>4, <1>5, <1>6, <1>7, <1>8, <1>9, <1>10, <1>11
     DEF Next, OperationEnds, InitEnds, LoginEnds, LogoutEnds, Login, Logout, Progress, Operation

-----------------------------------------------------------------------------
(* The page's operations.                                                  *)

\* What starts begins alone, and what ends leaves nothing.
LEMMA DoingStep ==
  ASSUME TypeOK, DoingOK, [Next]_vars
  PROVE  DoingOK'
<1>1. RequestsTyped /\ CallsTyped /\ "init" \in Caller
  BY TypeParts, Callers DEF Operation
<1>2. ASSUME NEW x \in Caller, Serve(x) PROVE DoingOK'
  <2>1. wire'["init"] = "idle" <=> wire["init"] = "idle"
    BY <1>1, <1>2 DEF Serve, Refuse, Issue, CallsTyped
  <2> QED
    BY <1>2, <2>1 DEF DoingOK, Serve, storeVars, pageVars, requestVars
<1>3. CASE Lapse
  BY <1>3 DEF DoingOK, Lapse, storeVars, pageVars, callVars, requestVars
<1>4. ASSUME NEW op \in Operation, End(op) PROVE DoingOK'
  <2>1. op \in doing /\ doing' = doing \ {op}
    BY <1>4 DEF End
  <2>2. \A p \in doing : p = op
    BY <2>1 DEF DoingOK
  <2>3. wire'["init"] = "idle"
    BY <1>1, <1>4, <2>1, <2>2 DEF End, CallsTyped, DoingOK
  <2> QED
    BY <2>1, <2>2, <2>3 DEF DoingOK
<1>5. CASE OperationEnds
  BY <1>4, <1>5 DEF OperationEnds, InitEnds, LoginEnds, LogoutEnds, Operation
<1>6. CASE Login \/ Logout
  <2>1. PICK op \in {"login", "logout"} : Start(op)
    BY <1>6 DEF Login, Logout
  <2>2. doing = {} /\ doing' = {op} /\ wire'["init"] = wire["init"]
    BY <1>1, <2>1 DEF Start, IsLoading, CallsTyped
  <2> QED
    BY <2>1, <2>2 DEF DoingOK
<1>7. CASE Reload
  <2>1. refresh' = storage /\ access' = 0 /\ user' = None /\ doing' = {"init"}
    BY <1>7 DEF Reload
  <2>2. wire'["init"] = IF storage # 0 THEN "sent" ELSE "idle"
    BY <1>1, <1>7 DEF Reload
  <2>3. \A r \in Request : pc'[r] = "idle"
    BY <1>7 DEF Reload
  <2> QED
    BY <2>1, <2>2, <2>3 DEF DoingOK
<1>8. ASSUME NEW r \in Request, Progress(r) PROVE DoingOK'
  <2>1. "init" \notin doing /\ doing' = doing
    BY <1>8 DEF DoingOK, Progress, Ready, Answered, Unauthorized, RefreshEnds, Resend, pageVars
  <2>2. wire'["init"] = wire["init"]
    <3>1. CASE Ready(r) \/ Answered(r) \/ Resend(r)
      BY <3>1 DEF Ready, Answered, Resend, callVars
    <3>2. CASE Unauthorized(r)
      BY <1>1, <3>2, Refused401, Callers DEF CallsTyped
    <3>3. CASE RefreshEnds(r)
      BY <1>1, <3>3, Callers DEF RefreshEnds, CallsTyped
    <3> QED
      BY <1>8, <3>1, <3>2, <3>3 DEF Progress
  <2> QED
    BY <2>1, <2>2 DEF DoingOK
<1>9. ASSUME NEW r \in Request, NEW c \in Client, Send(r, c) PROVE DoingOK'
  BY <1>9 DEF Send, IsLoading, DoingOK, storeVars, pageVars, callVars
<1>10. CASE UNCHANGED vars
  BY <1>10 DEF DoingOK, vars, storeVars, pageVars, callVars, requestVars
<1> QED
  BY <1>2, <1>3, <1>5, <1>6, <1>7, <1>8, <1>9, <1>10 DEF Next

-----------------------------------------------------------------------------
(* Pairs on their way are new.                                             *)

LEMMA FreshStep ==
  ASSUME TypeOK, FreshOK, DoingOK, MutexOK, [Next]_vars
  PROVE  FreshOK'
<1>1. TokensTyped /\ PageTyped /\ CallsTyped /\ RequestsTyped
  BY TypeParts
<1>2. ASSUME NEW x \in Caller, Serve(x) PROVE FreshOK'
  <2>1. UNCHANGED <<access, pc, token>>
    BY <1>2 DEF Serve, storeVars, requestVars
  <2>2. CASE Refuse(x)
    <3>1. pair' = pair /\ \A y \in Caller : wire'[y] = "ok" => wire[y] = "ok"
      BY <1>1, <2>2 DEF Refuse, CallsTyped
    <3> QED
      BY <2>1, <3>1 DEF FreshOK
  <2>3. ASSUME NEW a \in Account, Issue(x, a) PROVE FreshOK'
    <3>1. \A y \in Caller : /\ wire'[y] = IF y = x THEN "ok" ELSE wire[y]
                            /\ pair'[y] = IF y = x THEN Len(issued) + 1 ELSE pair[y]
      BY <1>1, <2>3 DEF Issue, CallsTyped
    <3>2. Len(issued) \in Nat /\ access \in 0 .. Len(issued)
      BY <1>1 DEF TokensTyped
    <3>3. /\ \A y \in Caller : pair[y] \in 0 .. Len(issued)
          /\ \A r \in Request : token[r] \in 0 .. Len(issued)
      BY <1>1 DEF CallsTyped, RequestsTyped
    <3>4. ASSUME NEW y \in Caller, wire'[y] = "ok"
          PROVE  /\ pair'[y] # 0 /\ pair'[y] # access'
                 /\ \A r \in Request : pair'[y] # token'[r]
                 /\ \A z \in Caller : wire'[z] = "ok" /\ pair'[z] = pair'[y] => z = y
      <4>1. CASE y = x
        BY <2>1, <3>1, <3>2, <3>3, <4>1
      <4>2. CASE y # x
        BY <2>1, <3>1, <3>2, <3>3, <3>4, <4>2 DEF FreshOK
      <4> QED
        BY <4>1, <4>2
    <3> QED
      BY <2>1, <3>4 DEF FreshOK
  <2> QED
    BY <1>2, <2>2, <2>3, Serves
<1>3. ASSUME NEW x \in Caller,
             \/ access' \in {0, access}
             \/ wire[x] = "ok" /\ access' = pair[x],
             \A y \in Caller :
               wire'[y] = "ok" => wire[y] = "ok" /\ pair'[y] = pair[y] /\ y # x,
             UNCHANGED <<pc, token>>
      PROVE  FreshOK'
  BY <1>3 DEF FreshOK
<1>4. ASSUME NEW op \in Operation, End(op)
      PROVE  /\ op \in Caller /\ UNCHANGED <<pc, token>>
             /\ \A y \in Caller :
                  wire'[y] = "ok" => wire[y] = "ok" /\ pair'[y] = pair[y] /\ y # op
  BY <1>1, <1>4, Callers DEF End, CallsTyped, requestVars
<1>5. CASE OperationEnds
  <2>1. CASE InitEnds
    <3>1. "init" \in Operation /\ End("init")
      BY <2>1 DEF InitEnds, Operation
    <3>2. \/ access' \in {0, access}
          \/ wire["init"] = "ok" /\ access' = pair["init"]
      BY <2>1, InitEndings DEF InitEnds, SetTokens, ClearTokens
    <3>3. /\ "init" \in Caller /\ UNCHANGED <<pc, token>>
          /\ \A y \in Caller :
               wire'[y] = "ok" => wire[y] = "ok" /\ pair'[y] = pair[y] /\ y # "init"
      BY <1>4, <3>1
    <3> QED
      BY <1>3, <3>2, <3>3
  <2>2. CASE LoginEnds
    <3>1. "login" \in Operation /\ End("login")
      BY <2>2 DEF LoginEnds, Operation
    <3>2. \/ access' \in {0, access}
          \/ wire["login"] = "ok" /\ access' = pair["login"]
      BY <2>2 DEF LoginEnds, SetTokens, storeVars
    <3>3. /\ "login" \in Caller /\ UNCHANGED <<pc, token>>
          /\ \A y \in Caller :
               wire'[y] = "ok" => wire[y] = "ok" /\ pair'[y] = pair[y] /\ y # "login"
      BY <1>4, <3>1
    <3> QED
      BY <1>3, <3>2, <3>3
  <2>3. CASE LogoutEnds
    <3>1. "logout" \in Operation /\ End("logout")
      BY <2>3 DEF LogoutEnds, Operation
    <3>2. \/ access' \in {0, access}
          \/ wire["logout"] = "ok" /\ access' = pair["logout"]
      BY <2>3 DEF LogoutEnds, ClearTokens
    <3>3. /\ "logout" \in Caller /\ UNCHANGED <<pc, token>>
          /\ \A y \in Caller :
               wire'[y] = "ok" => wire[y] = "ok" /\ pair'[y] = pair[y] /\ y # "logout"
      BY <1>4, <3>1
    <3> QED
      BY <1>3, <3>2, <3>3
  <2> QED
    BY <1>5, <2>1, <2>2, <2>3 DEF OperationEnds
<1>6. CASE Login \/ Logout
  <2>1. PICK op \in Operation : Start(op)
    BY <1>6 DEF Login, Logout, Operation
  <2>2. /\ UNCHANGED <<access, pair, pc, token>>
        /\ \A y \in Caller : wire'[y] = "ok" => wire[y] = "ok"
    BY <1>1, <2>1 DEF Start, storeVars, requestVars, CallsTyped
  <2> QED
    BY <2>2 DEF FreshOK
<1>7. CASE Reload
  <2>1. /\ \A y \in Caller : wire'[y] # "ok"
        /\ \A r \in Request : pc'[r] # "woken"
    BY <1>7 DEF Reload
  <2> QED
    BY <2>1 DEF FreshOK
<1>8. ASSUME NEW r \in Request, NEW label \in {"sent", "resent"},
             Go(r, label) \/ Return(r), UNCHANGED <<access, wire, pair>>
      PROVE  FreshOK'
  <2>1. /\ \A q \in Request : token'[q] \in {0, access, token[q]}
        /\ \A q \in Request : pc'[q] = "woken" => pc[q] = "woken" /\ token'[q] = token[q]
    BY <1>1, <1>8, Elsewhere
  <2> QED
    BY <1>8, <2>1 DEF FreshOK
<1>9. ASSUME NEW r \in Request, Unauthorized(r) PROVE FreshOK'
  <2>1. access' = access
    BY <1>9 DEF Unauthorized, storeVars
  <2>2. CASE Return(r) /\ UNCHANGED <<wire, pair>>
    BY <1>8, <2>1, <2>2
  <2>3. CASE Goto(r, "waiting") /\ UNCHANGED <<wire, pair, token>>
    <3>1. \A q \in Request : pc'[q] = "woken" => pc[q] = "woken"
      BY <1>1, <2>3, Elsewhere
    <3> QED
      BY <2>1, <2>3, <3>1 DEF FreshOK
  <2>4. CASE /\ Goto(r, "refreshing") /\ token' = token
             /\ wire' = [wire EXCEPT ![r] = "sent"] /\ pair' = [pair EXCEPT ![r] = refresh]
    <3>1. \A q \in Request : pc'[q] = "woken" => pc[q] = "woken"
      BY <1>1, <2>4, Elsewhere
    <3>2. \A y \in Caller : wire'[y] = "ok" => wire[y] = "ok" /\ pair'[y] = pair[y]
      BY <1>1, <2>4 DEF CallsTyped
    <3> QED
      BY <2>1, <2>4, <3>1, <3>2 DEF FreshOK
  <2> QED
    BY <1>9, <2>2, <2>3, <2>4, Refused401
<1>10. ASSUME NEW r \in Request, RefreshEnds(r) PROVE FreshOK'
  <2>1. /\ pc[r] = "refreshing" /\ Wake(r) /\ token' = token /\ r \in Caller
        /\ access' = 0 \/ (wire[r] = "ok" /\ access' = pair[r])
    <3>1. r \in Caller
      BY Callers
    <3>2. access' = 0 \/ (wire[r] = "ok" /\ access' = pair[r])
      BY <1>10 DEF RefreshEnds, SetTokens, ClearTokens
    <3>3. pc[r] = "refreshing" /\ Wake(r) /\ token' = token
      BY <1>10 DEF RefreshEnds
    <3> QED
      BY <3>1, <3>2, <3>3
  <2>2. \A y \in Caller : wire'[y] = "ok" => wire[y] = "ok" /\ pair'[y] = pair[y] /\ y # r
    BY <1>1, <1>10 DEF RefreshEnds, CallsTyped
  <2>3. access' = 0 \/ \A q \in Request : access' # token[q]
    BY <2>1 DEF FreshOK
  <2> QED
    BY <2>1, <2>2, <2>3 DEF FreshOK
<1>11. ASSUME NEW r \in Request, Progress(r) PROVE FreshOK'
  <2>1. CASE Unauthorized(r) \/ RefreshEnds(r)
    BY <1>9, <1>10, <2>1
  <2>2. CASE Ready(r) \/ Answered(r) \/ Resend(r)
    BY <1>8, <2>2 DEF Ready, Answered, Resend, storeVars, callVars
  <2> QED
    BY <1>11, <2>1, <2>2 DEF Progress
<1>12. ASSUME NEW r \in Request, NEW c \in Client, Send(r, c) PROVE FreshOK'
  <2>1. /\ \A q \in Request : token'[q] \in {access, token[q]}
        /\ \A q \in Request : pc'[q] = "woken" => pc[q] = "woken" /\ token'[q] = token[q]
    BY <1>1, <1>12 DEF Send, Goto, RequestsTyped
  <2>2. UNCHANGED <<access, wire, pair>>
    BY <1>12 DEF Send, storeVars, callVars
  <2> QED
    BY <2>1, <2>2 DEF FreshOK
<1>13. CASE Lapse \/ UNCHANGED vars
  BY <1>13 DEF FreshOK, Lapse, vars, storeVars, callVars, requestVars
<1> QED
  BY <1>2, <1>5, <1>6, <1>7, <1>11, <1>12, <1>13 DEF Next

-----------------------------------------------------------------------------
(* After a logout.                                                         *)

\* A history that goes on, with the store and the page as they are or empty.
LEMMA SignedOutStep ==
  ASSUME TypeOK, SignedOutOK, DoingOK, [Next]_vars
  PROVE  SignedOutOK'
<1>1. TokensTyped /\ PageTyped /\ CallsTyped /\ RequestsTyped
  BY TypeParts
<1>2. "init" \in Caller
  BY Callers DEF Operation
<1> SUFFICES ASSUME signedOut', ~crossed'
             PROVE  /\ user' = None /\ access' = 0 /\ refresh' = 0 /\ storage' = 0
                    /\ wire'["init"] = "idle"
                    /\ \A r \in Request : pc'[r] = "refreshing" => r \in late'
  BY DEF SignedOutOK
<1> DEFINE Out == /\ user' = None /\ access' = 0 /\ refresh' = 0 /\ storage' = 0
                  /\ wire'["init"] = "idle"
                  /\ \A r \in Request : pc'[r] = "refreshing" => r \in late'
<1>3. ASSUME NEW x \in Caller, Serve(x) PROVE Out
  <2>1. /\ UNCHANGED <<user, access, refresh, storage, pc, late, signedOut, crossed>>
        /\ wire[x] = "sent"
    BY <1>3 DEF Serve, storeVars, pageVars, requestVars, history
  <2>2. wire["init"] = "idle" => wire'["init"] = "idle"
    BY <1>1, <1>2, <1>3, <2>1 DEF Serve, Refuse, Issue, CallsTyped
  <2> QED
    BY <2>1, <2>2 DEF SignedOutOK
<1>4. CASE Lapse \/ UNCHANGED vars
  BY <1>4 DEF SignedOutOK, Lapse, vars, storeVars, pageVars, callVars, requestVars, history
<1>5. ASSUME NEW op \in Operation, End(op)
      PROVE  wire'["init"] = IF op = "init" THEN "idle" ELSE wire["init"]
  BY <1>1, <1>2, <1>5 DEF End, CallsTyped
<1>6. CASE InitEnds
  <2>1. "init" \in Operation /\ End("init") /\ UNCHANGED <<late, crossed, signedOut>>
    BY <1>6 DEF InitEnds, Operation, history
  <2>2. pc' = pc /\ wire["init"] = "idle"
    BY <2>1 DEF End, requestVars, SignedOutOK
  <2>3. UNCHANGED <<user, access, refresh, storage>>
    BY <1>6, <2>2, InitEndings
  <2> QED
    BY <1>5, <2>1, <2>2, <2>3 DEF SignedOutOK
<1>7. CASE LoginEnds
  <2>1. UNCHANGED <<user, access, refresh, storage, late, crossed, signedOut>>
    BY <1>7 DEF LoginEnds, Turn, storeVars, history
  <2>2. "login" \in Operation /\ End("login") /\ pc' = pc
    BY <1>7 DEF LoginEnds, Operation, End, requestVars
  <2> QED
    BY <1>5, <2>1, <2>2 DEF SignedOutOK
<1>8. CASE LogoutEnds
  <2>1. /\ user' = None /\ access' = 0 /\ refresh' = 0 /\ storage' = 0
        /\ late' = {r \in Request : pc[r] = "refreshing"} /\ pc' = pc
    BY <1>8 DEF LogoutEnds, ClearTokens, RemoveFromStorage, Turn, End, requestVars
  <2>2. "logout" \in Operation /\ End("logout") /\ "logout" \in doing
    BY <1>8 DEF LogoutEnds, Operation, End
  <2>3. wire["init"] = "idle"
    BY <2>2 DEF DoingOK
  <2> QED
    BY <1>5, <2>1, <2>2, <2>3
<1>9. CASE Login \/ Logout
  <2>1. PICK op \in {"login", "logout"} : Start(op)
    BY <1>9 DEF Login, Logout
  <2>2. /\ UNCHANGED <<user, access, refresh, storage, pc, late, crossed, signedOut>>
        /\ wire'["init"] = wire["init"]
    BY <1>1, <1>2, <2>1 DEF Start, storeVars, requestVars, history, CallsTyped
  <2> QED
    BY <2>2 DEF SignedOutOK
<1>10. CASE Reload
  <2>1. UNCHANGED <<storage, crossed, signedOut>> /\ storage = 0
    BY <1>10 DEF Reload, SignedOutOK
  <2> QED
    BY <1>2, <1>10, <2>1 DEF Reload
<1>11. ASSUME NEW r \in Request, Progress(r) PROVE Out
  <2>1. CASE Ready(r) \/ Answered(r) \/ Resend(r)
    <3>1. UNCHANGED <<user, access, refresh, storage, wire, late, crossed, signedOut>>
      BY <2>1 DEF Ready, Answered, Resend, storeVars, pageVars, callVars, history
    <3>2. \A q \in Request : pc'[q] = "refreshing" => pc[q] = "refreshing"
      BY <1>1, <2>1, Elsewhere DEF Ready, Answered, Resend
    <3> QED
      BY <3>1, <3>2 DEF SignedOutOK
  <2>2. CASE Unauthorized(r)
    <3>1. UNCHANGED <<user, access, refresh, storage, late, crossed, signedOut>>
      BY <2>2 DEF Unauthorized, storeVars, pageVars, history
    <3>2. Return(r) /\ wire' = wire
      BY <2>2, <3>1, Refused401 DEF SignedOutOK
    <3>3. \A q \in Request : pc'[q] = "refreshing" => pc[q] = "refreshing"
      BY <1>1, <3>2, Elsewhere
    <3> QED
      BY <3>1, <3>2, <3>3 DEF SignedOutOK
  <2>3. CASE RefreshEnds(r)
    <3>1. ~crossed /\ r \notin late /\ signedOut /\ pc[r] = "refreshing"
      BY <2>3 DEF RefreshEnds
    <3> QED
      BY <3>1 DEF SignedOutOK
  <2> QED
    BY <1>11, <2>1, <2>2, <2>3 DEF Progress
<1>12. ASSUME NEW r \in Request, NEW c \in Client, Send(r, c) PROVE Out
  <2>1. user # None /\ UNCHANGED <<signedOut, crossed>>
    BY <1>12 DEF Send, IsAuthenticated, history
  <2> QED
    BY <2>1 DEF SignedOutOK
<1> QED
  BY <1>3, <1>4, <1>6, <1>7, <1>8, <1>9, <1>10, <1>11, <1>12 DEF Next, OperationEnds

-----------------------------------------------------------------------------
(* The user the page shows and the tokens it holds.                        *)

\* Steps that leave the session and every refresh under way alone.
LEMMA ConsistentKept ==
  ASSUME ConsistentOK, UNCHANGED <<access, refresh, user, leaving, crossed, late, issued, pair>>,
         "init" \in doing => "init" \in doing',
         \A r \in Request : pc'[r] = "refreshing" => pc[r] = "refreshing",
         \A r \in Request : wire'[r] \in {"sent", "ok"} => wire[r] \in {"sent", "ok"}
  PROVE  ConsistentOK'
BY DEF ConsistentOK

LEMMA ConsistentStep ==
  ASSUME TypeOK, ConsistentOK, FreshOK, DoingOK, [Next]_vars
  PROVE  ConsistentOK'
<1>1. TokensTyped /\ PageTyped /\ CallsTyped /\ RequestsTyped
  BY TypeParts
<1>2. \A r \in Request : r \in Caller
  BY Callers
<1>3. ASSUME NEW x \in Caller, Serve(x) PROVE ConsistentOK'
  <2>1. UNCHANGED <<access, refresh, user, doing, leaving, crossed, late, pc>> /\ wire[x] = "sent"
    BY <1>3 DEF Serve, storeVars, pageVars, requestVars, history
  <2>2. CASE Refuse(x)
    <3>1. UNCHANGED <<issued, pair>> /\ \A r \in Request :
            wire'[r] \in {"sent", "ok"} => wire[r] \in {"sent", "ok"}
      BY <1>1, <1>2, <2>2 DEF Refuse, CallsTyped
    <3> QED
      BY <2>1, <3>1, ConsistentKept
  <2>3. ASSUME NEW a \in Account, Issue(x, a),
               x \in Request => pair[x] \in 1 .. Len(issued) /\ a = issued[pair[x]]
        PROVE  ConsistentOK'
    <3>1. /\ \A i \in 1 .. Len(issued) : issued'[i] = issued[i]
          /\ issued'[Len(issued) + 1] = a
          /\ Len(issued) \in Nat /\ access \in 0 .. Len(issued)
      BY <1>1, <2>3, IssueAppends DEF TokensTyped
    <3>2. \A y \in Caller : /\ wire'[y] = IF y = x THEN "ok" ELSE wire[y]
                            /\ pair'[y] = IF y = x THEN Len(issued) + 1 ELSE pair[y]
                            /\ pair[y] \in 0 .. Len(issued)
      BY <1>1, <2>3 DEF Issue, CallsTyped
    <3> SUFFICES ASSUME ~crossed, ~leaving, "init" \notin doing
                 PROVE  /\ access # 0 => issued'[access] = user
                        /\ \A r \in Request :
                             pc[r] = "refreshing" /\ r \notin late /\ wire'[r] \in {"sent", "ok"} =>
                               pair'[r] # 0 /\ issued'[pair'[r]] = user
      BY <2>1 DEF ConsistentOK
    <3>3. access # 0 => issued'[access] = user
      BY <3>1 DEF ConsistentOK
    <3>4. ASSUME NEW r \in Request, pc[r] = "refreshing", r \notin late,
                 wire'[r] \in {"sent", "ok"}
          PROVE  pair'[r] # 0 /\ issued'[pair'[r]] = user
      <4>1. wire[r] \in {"sent", "ok"}
        BY <1>2, <2>1, <3>2, <3>4
      <4>2. pair[r] # 0 /\ issued[pair[r]] = user
        BY <3>4, <4>1 DEF ConsistentOK
      <4>3. CASE r = x
        BY <2>3, <3>1, <3>2, <4>2, <4>3
      <4>4. CASE r # x
        BY <1>2, <3>1, <3>2, <4>2, <4>4
      <4> QED
        BY <4>3, <4>4
    <3> QED
      BY <3>3, <3>4
  <2> QED
    BY <1>3, <2>2, <2>3, Serves
<1>4. CASE Lapse \/ UNCHANGED vars
  BY <1>4, ConsistentKept
  DEF Lapse, vars, serverVars, storeVars, pageVars, callVars, requestVars, history
<1>5. ASSUME NEW op \in Operation, End(op)
      PROVE  /\ UNCHANGED <<issued, leaving, pc>> /\ doing' = doing \ {op}
             /\ \A r \in Request : wire'[r] = wire[r] /\ pair'[r] = pair[r]
             /\ op \in doing
  BY <1>1, <1>2, <1>5, Callers DEF End, serverVars, requestVars, CallsTyped, Operation
<1>6. ASSUME NEW op \in Operation, End(op), wire[op] = "ok"
      PROVE  pair[op] # 0 /\ issued[pair[op]] # None
  <2>1. op \in Caller /\ pair[op] \in 0 .. Len(issued)
    BY <1>1, Callers DEF CallsTyped
  <2> QED
    BY <1>6, <2>1, Owners DEF FreshOK
<1>7. CASE InitEnds
  <2>1. "init" \in Operation /\ End("init")
    BY <1>7 DEF InitEnds, Operation
  <2>2. access = 0 /\ user = None /\ \A r \in Request : pc'[r] = "idle"
    BY <1>5, <2>1 DEF DoingOK
  <2>3. wire["init"] = "idle" => refresh = 0
    BY <1>5, <2>1 DEF DoingOK
  <2>4. /\ user' = None <=> access' = 0
        /\ access' # 0 => issued'[access'] = user'
        /\ refresh' = access'
    BY <1>5, <1>6, <1>7, <2>1, <2>2, <2>3, InitEndings DEF SetTokens, ClearTokens
  <2> QED
    BY <2>2, <2>4 DEF ConsistentOK
<1>8. CASE LoginEnds
  <2>1. "login" \in Operation /\ End("login")
    BY <1>8 DEF LoginEnds, Operation
  <2>2. CASE wire["login"] = "ok"
    <3>1. /\ access' = pair["login"] /\ refresh' = pair["login"] /\ user' = issued[pair["login"]]
          /\ late' = {r \in Request : pc[r] = "refreshing"}
      BY <1>8, <2>2 DEF LoginEnds, SetTokens, Turn
    <3> QED
      BY <1>5, <1>6, <2>1, <2>2, <3>1 DEF ConsistentOK
  <2>3. CASE wire["login"] # "ok"
    <3>1. UNCHANGED <<access, refresh, user, crossed, late>>
      BY <1>8, <2>3 DEF LoginEnds, storeVars, history
    <3> QED
      BY <1>5, <2>1, <3>1 DEF ConsistentOK
  <2> QED
    BY <2>2, <2>3
<1>9. CASE LogoutEnds
  <2>1. "logout" \in Operation /\ End("logout")
    BY <1>9 DEF LogoutEnds, Operation
  <2>2. /\ access' = 0 /\ refresh' = 0 /\ user' = None
        /\ late' = {r \in Request : pc[r] = "refreshing"}
    BY <1>9 DEF LogoutEnds, ClearTokens, Turn
  <2> QED
    BY <1>5, <2>1, <2>2 DEF ConsistentOK
<1>10. CASE Login \/ Logout
  <2>1. PICK op \in {"login", "logout"} : Start(op)
    BY <1>10 DEF Login, Logout
  <2>2. /\ UNCHANGED <<access, refresh, user, leaving, crossed, late, issued, pair, pc>>
        /\ doing' = doing \cup {op}
    BY <2>1 DEF Start, serverVars, storeVars, requestVars, history
  <2>3. \A r \in Request : wire'[r] = wire[r]
    BY <1>1, <1>2, <2>1, Callers DEF Start, CallsTyped
  <2> QED
    BY <2>2, <2>3, ConsistentKept
<1>11. CASE Reload
  BY <1>11 DEF ConsistentOK, Reload
<1>12. ASSUME NEW r \in Request, Progress(r) PROVE ConsistentOK'
  <2>1. CASE Ready(r) \/ Answered(r) \/ Resend(r)
    <3>1. UNCHANGED <<access, refresh, user, doing, leaving, crossed, late, issued, pair, wire>>
      BY <2>1 DEF Ready, Answered, Resend, serverVars, storeVars, pageVars, callVars, history
    <3>2. \A q \in Request : pc'[q] = "refreshing" => pc[q] = "refreshing"
      BY <1>1, <2>1, Elsewhere DEF Ready, Answered, Resend
    <3> QED
      BY <3>1, <3>2, ConsistentKept
  <2>2. CASE Unauthorized(r)
    <3>1. UNCHANGED <<access, refresh, user, doing, leaving, crossed, late, issued>>
      BY <2>2 DEF Unauthorized, serverVars, storeVars, pageVars, history
    <3>2. CASE (Return(r) \/ Goto(r, "waiting")) /\ UNCHANGED <<wire, pair>>
      <4>1. \A q \in Request : pc'[q] = "refreshing" => pc[q] = "refreshing"
        BY <1>1, <3>2, Elsewhere
      <4> QED
        BY <3>1, <3>2, <4>1, ConsistentKept
    <3>3. CASE /\ refresh # 0 /\ Goto(r, "refreshing")
               /\ wire' = [wire EXCEPT ![r] = "sent"] /\ pair' = [pair EXCEPT ![r] = refresh]
      <4>1. \A q \in Request : /\ pc'[q] = IF q = r THEN "refreshing" ELSE pc[q]
                               /\ wire'[q] = IF q = r THEN "sent" ELSE wire[q]
                               /\ pair'[q] = IF q = r THEN refresh ELSE pair[q]
        BY <1>1, <1>2, <3>3, Elsewhere DEF CallsTyped
      <4> QED
        BY <3>1, <3>3, <4>1 DEF ConsistentOK
    <3> QED
      BY <2>2, <3>2, <3>3, Refused401
  <2>3. CASE RefreshEnds(r)
    <3> SUFFICES ASSUME ~crossed', ~leaving', "init" \notin doing'
                 PROVE  ConsistentOK'
      BY DEF ConsistentOK
    <3>1. /\ ~crossed /\ r \notin late /\ late' = late \ {r} /\ "init" \notin doing
          /\ UNCHANGED <<issued, user>> /\ pc[r] = "refreshing" /\ Wake(r)
      BY <2>3 DEF RefreshEnds, serverVars
    <3>2. wire[r] = "ok" /\ access' = pair[r] /\ refresh' = pair[r] /\ ~leaving
      BY <2>3 DEF RefreshEnds, SetTokens
    <3>3. pair[r] # 0 /\ issued[pair[r]] = user /\ user # None
      <4>1. pair[r] # 0 /\ issued[pair[r]] = user
        BY <3>1, <3>2 DEF ConsistentOK
      <4>2. pair[r] \in 0 .. Len(issued)
        BY <1>1, <1>2 DEF CallsTyped
      <4> QED
        BY <4>1, <4>2, Owners
    <3>4. \A q \in Request : /\ q # r => wire'[q] = wire[q] /\ pair'[q] = pair[q]
                             /\ wire'[r] = "idle"
      BY <1>1, <1>2, <2>3 DEF RefreshEnds, CallsTyped
    <3>5. \A q \in Request : pc'[q] = "refreshing" => pc[q] = "refreshing"
      BY <1>1, <3>1, Wakes
    <3>6. ASSUME NEW q \in Request, pc'[q] = "refreshing", q \notin late',
                 wire'[q] \in {"sent", "ok"}
          PROVE  pair'[q] # 0 /\ issued'[pair'[q]] = user'
      <4>1. q # r /\ q \notin late /\ pc[q] = "refreshing"
        BY <3>1, <3>4, <3>5, <3>6
      <4> QED
        BY <3>1, <3>2, <3>4, <3>6, <4>1 DEF ConsistentOK
    <3> QED
      BY <3>1, <3>2, <3>3, <3>6 DEF ConsistentOK
  <2> QED
    BY <1>12, <2>1, <2>2, <2>3 DEF Progress
<1>13. ASSUME NEW r \in Request, NEW c \in Client, Send(r, c) PROVE ConsistentOK'
  <2>1. UNCHANGED <<access, refresh, user, doing, leaving, crossed, late, issued, pair, wire>>
    BY <1>13 DEF Send, serverVars, storeVars, pageVars, callVars, history
  <2>2. \A q \in Request : pc'[q] = "refreshing" => pc[q] = "refreshing"
    BY <1>1, <1>13 DEF Send, Goto, RequestsTyped
  <2> QED
    BY <2>1, <2>2, ConsistentKept
<1> QED
  BY <1>3, <1>4, <1>7, <1>8, <1>9, <1>10, <1>11, <1>12, <1>13 DEF Next, OperationEnds

-----------------------------------------------------------------------------
(* The theorems.                                                           *)

LEMMA InitInvariant == Init => IInv
<1> SUFFICES ASSUME Init PROVE IInv
  OBVIOUS
<1>1. TypeOK
  BY InitTyped
<1>2. MutexOK /\ AnswerDue /\ DoingOK /\ SignedOutOK /\ ConsistentOK
  BY Callers DEF Init, MutexOK, AnswerDue, DoingOK, SignedOutOK, ConsistentOK, Operation
<1>3. FreshOK
  BY DEF Init, FreshOK
<1> QED
  BY <1>1, <1>2, <1>3 DEF IInv

LEMMA StepInvariant == IInv /\ [Next]_vars => IInv'
<1> SUFFICES ASSUME IInv, [Next]_vars PROVE IInv'
  OBVIOUS
<1>1. TypeOK'
  BY TypedStep DEF IInv
<1> QED
  BY <1>1, MutexStep, AnswerStep, FreshStep, DoingStep, SignedOutStep, ConsistentStep DEF IInv

LEMMA Invariance == Spec => []IInv
BY InitInvariant, StepInvariant, PTL DEF Spec

\* The variables keep their types: no pair is used that the server has not
\* issued.
THEOREM TypeCorrect == Spec => []TypeOK
<1>1. IInv => TypeOK
  BY DEF IInv
<1> QED
  BY <1>1, Invariance, PTL

\* However many requests of a client fail with 401 together, one of them
\* refreshes, with an answer to come, and the others wait for it.
THEOREM OneRefresh == Spec => []OneRefreshPerClient
<1>1. IInv => OneRefreshPerClient
  <2> SUFFICES ASSUME IInv, NEW r \in Request
               PROVE  /\ pc[r] = "refreshing" => mutex[client[r]] = r /\ wire[r] # "idle"
                      /\ pc[r] \in {"waiting", "queued"} =>
                           \E q \in Request : client[q] = client[r] /\ pc[q] = "refreshing"
    BY DEF OneRefreshPerClient
  <2>1. pc[r] = "refreshing" => mutex[client[r]] = r /\ wire[r] # "idle"
    BY DEF IInv, MutexOK, AnswerDue
  <2>2. ASSUME pc[r] \in {"waiting", "queued"}
        PROVE  \E q \in Request : client[q] = client[r] /\ pc[q] = "refreshing"
    <3>1. client[r] \in Client /\ mutex[client[r]] # None
      BY <2>2 DEF IInv, MutexOK
    <3>2. mutex[client[r]] \in Request
      BY <3>1 DEF IInv, TypeOK
    <3> QED
      BY <3>1, <3>2 DEF IInv, MutexOK
  <2> QED
    BY <2>1, <2>2
<1> QED
  BY <1>1, Invariance, PTL

\* Whom the page shows as signed in and whose tokens it holds are the same
\* person, but for a refresh answered across a login or logout.
THEOREM SessionCorrect == Spec => []SessionConsistent
<1>1. IInv => SessionConsistent
  BY DEF IInv, ConsistentOK, SessionConsistent
<1> QED
  BY <1>1, Invariance, PTL

\* After a logout nothing of the session is left, but for a refresh answered
\* after it.
THEOREM SignedOutCorrect == Spec => []StaysSignedOut
<1>1. IInv => StaysSignedOut
  BY DEF IInv, SignedOutOK, StaysSignedOut
<1> QED
  BY <1>1, Invariance, PTL

\* A request that was refused is sent again with another token.
THEOREM ResentCorrect == Spec => ResentWithOther
<1>1. ASSUME IInv, [Next]_vars, NEW r \in Request, pc[r] # "resent", pc'[r] = "resent"
      PROVE  token'[r] # token[r]
  <2>1. RequestsTyped
    BY <1>1, TypeParts DEF IInv
  <2>2. PICK q \in Request : Progress(q) \/ \E c \in Client : Send(q, c)
    BY <1>1 DEF Next, Serve, Lapse, OperationEnds, InitEnds, LoginEnds, LogoutEnds, End, Login,
                Logout, Start, Reload, vars, requestVars
  <2>3. CASE Ready(q) \/ Answered(q)
    BY <1>1, <2>1, <2>3, Elsewhere DEF Ready, Answered
  <2>4. CASE Unauthorized(q)
    BY <1>1, <2>1, <2>4, Elsewhere, Refused401
  <2>5. CASE RefreshEnds(q)
    BY <1>1, <2>1, <2>5, Wakes DEF RefreshEnds
  <2>6. ASSUME NEW c \in Client, Send(q, c) PROVE FALSE
    BY <1>1, <2>1, <2>6 DEF Send, Goto, RequestsTyped
  <2>7. CASE Resend(q)
    <3>1. access # 0 /\ q = r /\ token'[r] = access /\ pc[r] = "woken"
      BY <1>1, <2>1, <2>7, Elsewhere DEF Resend
    <3> QED
      BY <1>1, <3>1 DEF IInv, FreshOK
  <2> QED
    BY <2>2, <2>3, <2>4, <2>5, <2>6, <2>7 DEF Progress
<1>2. IInv /\ [Next]_vars =>
        [\A r \in Request : pc[r] # "resent" /\ pc'[r] = "resent" => token'[r] # token[r]]_vars
  BY <1>1
<1> QED
  BY <1>2, Invariance, PTL DEF Spec, ResentWithOther
=============================================================================
