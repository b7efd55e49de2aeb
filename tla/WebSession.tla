----------------------------- MODULE WebSession -----------------------------
(***************************************************************************)
(* The session of one browser tab (apps/web/src) and the server's part of  *)
(* it: the zustand store and its copy in localStorage (authStore.ts), the  *)
(* session that AuthProvider.tsx restores, opens and closes, the API       *)
(* clients with their refresh mutex (client.ts), and login and refresh on  *)
(* the server (login-user.use-case.ts, auth.service.ts).                   *)
(*                                                                         *)
(* The server keeps no sessions: the n-th login or refresh answers with    *)
(* the n-th pair of tokens, and a token is good until it expires.  Pair 0  *)
(* stands for null.  Calls travel: the server's answer is one step, its    *)
(* arrival another, and the page changes in between.                       *)
(*                                                                         *)
(* A definition named Faulty... is its neighbour with a bug in it; nothing *)
(* uses it but the checks that a property would notice the bug.            *)
(***************************************************************************)
EXTENDS Naturals, Sequences

CONSTANTS
  Account,   \* people who log in
  Request,   \* API requests of the page
  Client,    \* API clients; the dashboard makes one each time it is shown
  None,      \* nobody
  MaxPairs   \* bound on the pairs of tokens the server issues

ASSUME SessionAssumption ==
  /\ None \notin Account \cup Request \cup Client
  /\ {"init", "login", "logout"} \cap Request = {}
  /\ MaxPairs \in Nat

VARIABLES
  issued,         \* the server's pairs so far: whose each one is
  accessLapsed,   \* the access tokens (15 minutes) up to this pair have expired
  refreshLapsed,  \* the refresh tokens (7 days) up to this pair have expired
  access,         \* authStore.accessToken
  refresh,        \* authStore.refreshToken
  storage,        \* localStorage.auth_refresh_token
  user,           \* AuthProvider's user: who the page says is signed in
  doing,          \* isInitializing, isLoggingIn, isLoggingOut
  leaving,        \* window.location has been set to /login
  wire,           \* the state of each call to /auth
  pair,           \* the refresh token a call sent, then the pair it brings
  pc,             \* where each API request is
  token,          \* the access token it carries
  client,         \* the client it was sent with
  mutex,          \* refreshMutex of each client: the request that refreshes
  late,           \* history: refreshes under way across a login or logout
  crossed,        \* history: such a refresh has been applied since
  signedOut       \* history: the last of login and logout was a logout

serverVars == <<issued, accessLapsed, refreshLapsed>>
storeVars == <<access, refresh, storage>>
pageVars == <<user, doing, leaving>>
callVars == <<wire, pair>>
requestVars == <<pc, token, client, mutex>>
history == <<late, crossed, signedOut>>
vars == <<serverVars, storeVars, pageVars, callVars, requestVars, history>>

Operation == {"init", "login", "logout"}
Caller == Request \cup Operation

-----------------------------------------------------------------------------
(* The store.                                                              *)

\* saveToStorage: localStorage may be full, which nobody hears of.
SaveToStorage(n) == storage' \in {storage, n}

RemoveFromStorage == storage' = 0

SetTokens(n) == access' = n /\ refresh' = n /\ SaveToStorage(n)

FaultyClearTokens == access' = 0 /\ refresh' = 0 /\ UNCHANGED storage
ClearTokens == access' = 0 /\ refresh' = 0 /\ RemoveFromStorage

-----------------------------------------------------------------------------
(* The server.                                                             *)

\* login's answer to a, refreshTokens' answer to the owner of a token.
Issue(x, a) ==
  /\ Len(issued) < MaxPairs
  /\ issued' = Append(issued, a)
  /\ pair' = [pair EXCEPT ![x] = Len(issued) + 1]
  /\ wire' = [wire EXCEPT ![x] = "ok"]

\* A refusal, a failure of the server or of the network: to the page the
\* same.
Refuse(x) == wire' = [wire EXCEPT ![x] = "refused"] /\ UNCHANGED <<issued, pair>>

\* /auth/refresh wants a refresh token that has not expired.
Refreshable(n) == n \in refreshLapsed + 1 .. Len(issued)

Serve(x) ==
  /\ wire[x] = "sent"
  /\ \/ Refuse(x)
     \/ x = "login" /\ \E a \in Account : Issue(x, a)
     \/ x \notin {"login", "logout"} /\ Refreshable(pair[x]) /\ Issue(x, issued[pair[x]])
  /\ UNCHANGED <<accessLapsed, refreshLapsed, storeVars, pageVars, requestVars, history>>

\* Time passes.  Tokens of a kind live equally long, so the oldest goes first.
Lapse ==
  /\ \/ /\ accessLapsed < Len(issued)
        /\ accessLapsed' = accessLapsed + 1
        /\ UNCHANGED refreshLapsed
     \/ /\ refreshLapsed < accessLapsed
        /\ refreshLapsed' = refreshLapsed + 1
        /\ UNCHANGED accessLapsed
  /\ UNCHANGED <<issued, storeVars, pageVars, callVars, requestVars, history>>

\* JwtStrategy accepts the access token of a request.
Accepted(r) == token[r] > accessLapsed

-----------------------------------------------------------------------------
(* The page: loading, AuthProvider.                                        *)

Init ==
  /\ issued = <<>> /\ accessLapsed = 0 /\ refreshLapsed = 0
  /\ access = 0 /\ refresh = 0 /\ storage = 0
  /\ user = None /\ doing = {"init"} /\ leaving = FALSE
  /\ wire = [x \in Caller |-> "idle"]
  /\ pair = [x \in Caller |-> 0]
  /\ pc = [r \in Request |-> "idle"]
  /\ token = [r \in Request |-> 0]
  /\ client = [r \in Request |-> None]
  /\ mutex = [c \in Client |-> None]
  /\ late = {} /\ crossed = FALSE /\ signedOut = TRUE

\* The page is loaded again, by the user or because of window.location: what
\* was in memory and under way is gone, the store begins with the stored
\* refresh token, and initializeSession sends it if there is one.
Reload ==
  /\ access' = 0
  /\ refresh' = storage
  /\ user' = None /\ doing' = {"init"} /\ leaving' = FALSE
  /\ wire' = [x \in Caller |-> IF x = "init" /\ storage # 0 THEN "sent" ELSE "idle"]
  /\ pair' = [x \in Caller |-> IF x = "init" THEN storage ELSE 0]
  /\ pc' = [r \in Request |-> "idle"]
  /\ token' = [r \in Request |-> 0]
  /\ client' = [r \in Request |-> None]
  /\ mutex' = [c \in Client |-> None]
  /\ late' = {}
  /\ UNCHANGED <<serverVars, storage, crossed, signedOut>>

\* While isLoading the buttons are disabled and the dashboard is not shown.
FaultyIsLoading == doing \ {"init"} # {}
IsLoading == doing # {}

Start(op) ==
  /\ ~IsLoading
  /\ doing' = doing \cup {op}
  /\ wire' = [wire EXCEPT ![op] = "sent"]
  /\ UNCHANGED <<serverVars, storeVars, user, leaving, pair, requestVars, history>>

\* isAuthenticated, to the layout and the routes.
IsAuthenticated == user # None

\* The login page can be reached while somebody is signed in.
Login == Start("login")
Logout == IsAuthenticated /\ Start("logout")

FaultyEnd(op) ==
  /\ op \in doing
  /\ wire[op] # "sent"
  /\ doing' = IF wire[op] = "ok" THEN doing \ {op} ELSE doing
  /\ wire' = [wire EXCEPT ![op] = "idle"]
  /\ pair' = [pair EXCEPT ![op] = 0]
  /\ UNCHANGED <<serverVars, leaving, requestVars>>
End(op) ==
  /\ op \in doing
  /\ wire[op] # "sent"
  /\ doing' = doing \ {op}
  /\ wire' = [wire EXCEPT ![op] = "idle"]
  /\ pair' = [pair EXCEPT ![op] = 0]
  /\ UNCHANGED <<serverVars, leaving, requestVars>>

\* The end of initializeSession: without a stored token nothing happens, and
\* an answer other than tokens ends the session.
InitEnds ==
  /\ End("init")
  /\ CASE wire["init"] = "idle" -> UNCHANGED <<storeVars, user>>
       [] wire["init"] = "ok" -> SetTokens(pair["init"]) /\ user' = issued[pair["init"]]
       [] wire["init"] = "refused" -> ClearTokens /\ UNCHANGED user
  /\ UNCHANGED history

\* A new session: refreshes still under way are those of an older one.
Turn(out) ==
  /\ late' = {r \in Request : pc[r] = "refreshing"}
  /\ crossed' = FALSE
  /\ signedOut' = out

LoginEnds ==
  /\ End("login")
  /\ IF wire["login"] = "ok"
       THEN /\ SetTokens(pair["login"])
            /\ user' = issued[pair["login"]]
            /\ Turn(FALSE)
       ELSE UNCHANGED <<storeVars, user, history>>

\* Whatever /auth/logout answers.
LogoutEnds ==
  /\ End("logout")
  /\ ClearTokens
  /\ user' = None
  /\ Turn(TRUE)

-----------------------------------------------------------------------------
(* The API clients.                                                        *)

Goto(r, label) == pc' = [pc EXCEPT ![r] = label]

\* The request goes out with the token the store has now.
Go(r, label) ==
  token' = [token EXCEPT ![r] = access] /\ Goto(r, label) /\ UNCHANGED client

\* The caller has its answer.
Return(r) ==
  /\ Goto(r, "idle")
  /\ token' = [token EXCEPT ![r] = 0]
  /\ client' = [client EXCEPT ![r] = None]

\* The dashboard is shown and fetches; beforeRequest waits for a refresh.
Send(r, c) ==
  /\ pc[r] = "idle"
  /\ IsAuthenticated /\ ~IsLoading
  /\ client' = [client EXCEPT ![r] = c]
  /\ IF mutex[c] = None
       THEN token' = [token EXCEPT ![r] = access] /\ Goto(r, "sent")
       ELSE UNCHANGED token /\ Goto(r, "queued")
  /\ UNCHANGED <<serverVars, storeVars, pageVars, callVars, mutex, history>>

\* The refresh it waited for is over.
Ready(r) ==
  /\ pc[r] = "ready"
  /\ Go(r, "sent")
  /\ UNCHANGED <<serverVars, storeVars, pageVars, callVars, mutex, history>>

\* An answer other than 401: data, 429, a failure.
Answered(r) ==
  /\ pc[r] \in {"sent", "resent"}
  /\ Return(r)
  /\ UNCHANGED <<serverVars, storeVars, pageVars, callVars, mutex, history>>

MayRefresh(r) == mutex[client[r]] = None

FaultyWhileRefreshing(r) == "woken"
WhileRefreshing(r) == "waiting"

\* 401: without a refresh token it is the answer; otherwise this request
\* refreshes, or waits for the one that does.
Unauthorized(r) ==
  /\ pc[r] = "sent"
  /\ ~Accepted(r)
  /\ IF refresh = 0
       THEN Return(r) /\ UNCHANGED <<callVars, mutex>>
       ELSE /\ IF MayRefresh(r)
                 THEN /\ Goto(r, "refreshing")
                      /\ mutex' = [mutex EXCEPT ![client[r]] = r]
                      /\ wire' = [wire EXCEPT ![r] = "sent"]
                      /\ pair' = [pair EXCEPT ![r] = refresh]
                 ELSE Goto(r, WhileRefreshing(r)) /\ UNCHANGED <<callVars, mutex>>
            /\ UNCHANGED <<token, client>>
  /\ UNCHANGED <<serverVars, storeVars, pageVars, history>>

FaultyReleased(c) == mutex[c]
Released(c) == None

\* The refresh's promise resolves: everyone who awaits it goes on.
Wake(r) ==
  pc' = [q \in Request |->
           IF client[q] # client[r] THEN pc[q]
           ELSE CASE pc[q] = "queued" -> "ready"
                  [] pc[q] = "waiting" \/ q = r -> "woken"
                  [] OTHER -> pc[q]]

\* The answer of the refresh arrives, and is applied without another look at
\* the store.
RefreshEnds(r) ==
  /\ pc[r] = "refreshing"
  /\ wire[r] \in {"ok", "refused"}
  /\ \/ wire[r] = "ok" /\ SetTokens(pair[r]) /\ UNCHANGED leaving
     \/ wire[r] = "refused" /\ ClearTokens /\ leaving' = TRUE
  /\ wire' = [wire EXCEPT ![r] = "idle"]
  /\ pair' = [pair EXCEPT ![r] = 0]
  /\ mutex' = [mutex EXCEPT ![client[r]] = Released(client[r])]
  /\ Wake(r)
  /\ crossed' = (crossed \/ r \in late)
  /\ late' = late \ {r}
  /\ UNCHANGED <<serverVars, user, doing, token, client, signedOut>>

\* The request goes out again, once, if the refresh brought a token; by a
\* client without these hooks, so that whatever is answered is the answer.
Resend(r) ==
  /\ pc[r] = "woken"
  /\ IF access # 0 THEN Go(r, "resent") ELSE Return(r)
  /\ UNCHANGED <<serverVars, storeVars, pageVars, callVars, mutex, history>>

-----------------------------------------------------------------------------
Progress(r) ==
  Ready(r) \/ Answered(r) \/ Unauthorized(r) \/ RefreshEnds(r) \/ Resend(r)

OperationEnds == InitEnds \/ LoginEnds \/ LogoutEnds

Next ==
  \/ \E x \in Caller : Serve(x)
  \/ Lapse
  \/ OperationEnds
  \/ Login \/ Logout \/ Reload
  \/ \E r \in Request : Progress(r) \/ \E c \in Client : Send(r, c)

Spec == Init /\ [][Next]_vars

\* The network answers or fails every call, and the event loop delivers the
\* answers; a page told to go to /login gets there.  No user has to act.
Fairness ==
  /\ \A x \in Caller : WF_vars(Serve(x))
  /\ \A r \in Request : WF_vars(Progress(r))
  /\ WF_vars(OperationEnds)
  /\ WF_vars(leaving /\ Reload)

FairSpec == Spec /\ Fairness

-----------------------------------------------------------------------------
(* Properties.                                                             *)

TypeOK ==
  /\ issued \in Seq(Account)
  /\ accessLapsed \in 0 .. Len(issued)
  /\ refreshLapsed \in 0 .. accessLapsed
  /\ {access, refresh, storage} \subseteq 0 .. Len(issued)
  /\ user \in Account \cup {None}
  /\ doing \subseteq Operation
  /\ leaving \in BOOLEAN
  /\ wire \in [Caller -> {"idle", "sent", "ok", "refused"}]
  /\ pair \in [Caller -> 0 .. Len(issued)]
  /\ pc \in [Request -> {"idle", "queued", "ready", "sent", "waiting",
                         "refreshing", "woken", "resent"}]
  /\ token \in [Request -> 0 .. Len(issued)]
  /\ client \in [Request -> Client \cup {None}]
  /\ mutex \in [Client -> Request \cup {None}]
  /\ late \subseteq Request
  /\ crossed \in BOOLEAN /\ signedOut \in BOOLEAN

\* However many requests of a client fail with 401 together, at most one of
\* them refreshes, the client's mutex is that request's, its call is at the
\* server or answered, and nobody waits for a refresh that is not under way.
OneRefreshPerClient ==
  \A r \in Request :
    /\ pc[r] = "refreshing" => mutex[client[r]] = r /\ wire[r] # "idle"
    /\ pc[r] \in {"waiting", "queued"} =>
         \E q \in Request : client[q] = client[r] /\ pc[q] = "refreshing"

\* Whom the page shows as signed in and whose tokens it holds are the same
\* person, through logins over another session, restored sessions, refreshes
\* of several clients and their failures, unless the answer of a refresh came
\* across a login or logout, or the page is about to be left.
SessionConsistent ==
  ~crossed /\ ~leaving /\ "init" \notin doing =>
    /\ user = None <=> access = 0
    /\ access # 0 => issued[access] = user
    /\ refresh = access

\* After a logout the page shows nobody and no token is left, in memory or
\* in localStorage, and no reload brings the session back, unless a refresh
\* that was under way at the logout was answered after it.
StaysSignedOut ==
  signedOut /\ ~crossed => user = None /\ access = 0 /\ refresh = 0 /\ storage = 0

\* A request is never sent again with the token it was refused with.
ResentWithOther ==
  [][\A r \in Request :
       pc[r] # "resent" /\ pc'[r] = "resent" => token'[r] # token[r]]_vars

\* Every request gets an answer, whatever waits for whatever.
RequestsEnd == \A r \in Request : []<>(pc[r] = "idle")

\* The page does not stay in its loading state, however its calls fail, unless
\* it is loaded again and again.
LoadingEnds == []<>~IsLoading \/ []<><<Reload>>_vars
=============================================================================
