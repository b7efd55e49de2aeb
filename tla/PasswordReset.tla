---------------------------- MODULE PasswordReset ---------------------------
(***************************************************************************)
(* forgot-password.use-case.ts and reset-password.use-case.ts (under       *)
(* application/auth/use-cases) on the row of one user: passwordHash,       *)
(* passwordResetToken and passwordResetSentAt.  As in Registration, the    *)
(* turn after a SELECT decides with the row it got, and the UPDATE takes   *)
(* effect later; between them reset hashes the password.  Tokens and       *)
(* passwords are named after the request that generates or sets them.      *)
(***************************************************************************)
EXTENDS Integers

CONSTANTS
  Request,     \* requests: forgot or reset
  Null,        \* SQL null; the password the account began with
  Cooldown,    \* AuthConstants.PASSWORD_RESET_COOLDOWN_MS
  Ttl,         \* AuthConstants.PASSWORD_RESET_TOKEN_TTL_MS
  MaxTime,     \* bound on the clock
  MaxCrashes   \* bound on crashes of the server

ASSUME ConstantsAssumption ==
  /\ Null \notin Request
  /\ {Cooldown, Ttl, MaxTime, MaxCrashes} \subseteq Nat

VARIABLES
  password,    \* the request that set passwordHash
  resetToken,  \* passwordResetToken
  sentAt,      \* passwordResetSentAt; meaningless while resetToken is null
  mails,       \* tokens of the mails handed to the mail queue
  pc,          \* where each request is
  token,       \* the token a reset presents
  stamp,       \* the clock when a request made its decision
  now, crashes

rowVars == <<password, resetToken, sentAt>>
requestVars == <<pc, token, stamp>>
vars == <<rowVars, mails, requestVars, now, crashes>>

Time == 0..MaxTime

Busy == {"write", "mail", "hash"}

\* "sent" and "reset" are successes of forgot and reset, "refused" is reset's
\* NotFoundException, "late" and "weak" its answers to an expired token and to a
\* password that is refused.
Answer == {"sent", "tooSoon", "reset", "refused", "late", "weak"}

Init ==
  /\ password = Null
  /\ resetToken = Null
  /\ sentAt = 0
  /\ mails = {}
  /\ pc = [r \in Request |-> "free"]
  /\ token = [r \in Request |-> Null]
  /\ stamp = [r \in Request |-> 0]
  /\ now = 0
  /\ crashes = 0

Goto(r, label) == pc' = [pc EXCEPT ![r] = label]

\* UserAggregate.canRequestPasswordReset.
CanRequest == resetToken = Null \/ now - sentAt >= Cooldown

Forgot(r) ==
  /\ pc[r] = "free"
  /\ stamp' = [stamp EXCEPT ![r] = now]
  /\ Goto(r, IF CanRequest THEN "write" ELSE "tooSoon")
  /\ UNCHANGED <<rowVars, mails, token, now, crashes>>

FaultyAfterWrite == "sent"
AfterWrite == "mail"

\* UserAggregate.requestPasswordReset: the token is named after the request.
NewToken(r) == resetToken' = r /\ sentAt' = stamp[r]

\* userRepository.update with the new token.
Write(r) ==
  /\ pc[r] = "write"
  /\ NewToken(r)
  /\ Goto(r, AfterWrite)
  /\ UNCHANGED <<password, mails, token, stamp, now, crashes>>

\* The fault mails the token of the row as it was read.
Mailed(r) == r

\* queuePasswordReset.
Mail(r) ==
  /\ pc[r] = "mail"
  /\ mails' = mails \cup {Mailed(r)}
  /\ Goto(r, "sent")
  /\ UNCHANGED <<rowVars, token, stamp, now, crashes>>

FaultyFound(t) == resetToken # Null
Found(t) == resetToken = t

FaultyInTime == TRUE
InTime == now - sentAt <= Ttl

\* findByPasswordResetToken and the checks before the password is hashed: a
\* weak one leaves the row, and its link, as they were.
Reset(r, t) ==
  /\ pc[r] = "free"
  /\ token' = [token EXCEPT ![r] = t]
  /\ stamp' = [stamp EXCEPT ![r] = now]
  /\ \/ Found(t) /\ InTime /\ \E next \in {"hash", "weak"} : Goto(r, next)
     \/ Found(t) /\ ~InTime /\ Goto(r, "late")
     \/ ~Found(t) /\ Goto(r, "refused")
  /\ UNCHANGED <<rowVars, mails, now, crashes>>

\* userAggregate.resetPassword clears the token in memory only; it is this
\* update that must clear the columns.
FaultyTokenAfterReset == resetToken
TokenAfterReset == Null

\* The update writes what it writes whatever the row is by now.
SetPassword(r) ==
  /\ pc[r] = "hash"
  /\ password' = r
  /\ resetToken' = TokenAfterReset
  /\ sentAt' = 0
  /\ Goto(r, "reset")
  /\ UNCHANGED <<mails, token, stamp, now, crashes>>

Tick ==
  /\ now < MaxTime
  /\ now' = now + 1
  /\ UNCHANGED <<rowVars, mails, requestVars, crashes>>

\* The server dies with the requests it was serving.
Crash ==
  /\ crashes < MaxCrashes
  /\ crashes' = crashes + 1
  /\ pc' = [r \in Request |-> IF pc[r] \in Busy THEN "lost" ELSE pc[r]]
  /\ UNCHANGED <<rowVars, mails, token, stamp, now>>

\* Every request has had its answer.
Rest ==
  /\ \A r \in Request : pc[r] \in Answer \cup {"lost"}
  /\ UNCHANGED vars

Next ==
  \/ \E r \in Request : Forgot(r) \/ Write(r) \/ Mail(r) \/ SetPassword(r)
  \/ \E r \in Request, t \in mails : Reset(r, t)
  \/ Tick
  \/ Crash
  \/ Rest

Spec == Init /\ [][Next]_vars

-----------------------------------------------------------------------------
TypeOK ==
  /\ password \in Request \cup {Null}
  /\ resetToken \in Request \cup {Null}
  /\ sentAt \in Time
  /\ mails \subseteq Request
  /\ pc \in [Request -> Busy \cup Answer \cup {"free", "lost"}]
  /\ token \in [Request -> Request \cup {Null}]
  /\ stamp \in [Request -> Time]
  /\ now \in Time
  /\ crashes \in 0..MaxCrashes

\* The password is the first one, or one set with a link that was mailed and
\* was presented in time, however requests and resets overlap.
PasswordSetInTime ==
  password # Null =>
    LET t == token[password] IN t \in mails /\ stamp[password] - stamp[t] <= Ttl

\* "Token cleared after successful reset": a link that has set a password is
\* not the row's any more, and no delayed write brings it back.
UsedTokenIsCleared ==
  \A r \in Request : pc[r] = "reset" => resetToken # token[r]

\* The link that works is in the mail, unless the request that generated it is
\* about to queue it or died.
CurrentTokenIsMailed ==
  resetToken # Null => resetToken \in mails \/ pc[resetToken] \in {"mail", "lost"}

\* Resets that have found the token they present.
Holders(t) == {r \in Request : pc[r] = "hash" /\ token[r] = t}

NoRevival ==
  \A t \in mails :
    resetToken # t => resetToken' # t /\ Holders(t)' \subseteq Holders(t)

\* A used or replaced link stays dead: it never becomes the row's token again
\* and only resets that had found it before can still set a password with it.
DeadLinksStayDead == [][NoRevival]_vars

-----------------------------------------------------------------------------
(* The inductive strengthening of the invariants above.                    *)

\* The token of the row, and any other, was written once, with its stamp.
TokensOK ==
  /\ resetToken # Null =>
       pc[resetToken] \in {"mail", "sent", "lost"} /\ sentAt = stamp[resetToken]
  /\ \A t \in mails : pc[t] = "sent"

\* What a reset relies on, from the check to the end.
ResetsOK ==
  /\ \A r \in Request :
       pc[r] \in {"hash", "reset"} =>
         token[r] \in mails /\ stamp[r] - stamp[token[r]] <= Ttl
  /\ password # Null => pc[password] = "reset"

IInv ==
  /\ TypeOK
  /\ TokensOK
  /\ ResetsOK
  /\ UsedTokenIsCleared
  /\ CurrentTokenIsMailed

=============================================================================
