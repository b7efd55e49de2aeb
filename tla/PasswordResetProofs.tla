------------------------ MODULE PasswordResetProofs -------------------------
(* Theorems about PasswordReset, for all requests and any clock: passwords  *)
(* are set in time with mailed links, used links are cleared, and a link    *)
(* that is not the row's any more stays dead.                               *)
EXTENDS PasswordReset, TLAPS

USE DEF AfterWrite, NewToken, Mailed, Found, InTime, TokenAfterReset

LEMMA InitInductive == Init => IInv
  BY ConstantsAssumption DEF Init, IInv, TypeOK, TokensOK, ResetsOK, UsedTokenIsCleared,
     CurrentTokenIsMailed, Busy, Answer, Time

LEMMA ForgotStep == ASSUME IInv, NEW r \in Request, Forgot(r) PROVE IInv'
<1>1. pc[r] = "free" /\ pc'[r] \in {"write", "tooSoon"}
  BY DEF IInv, TypeOK, Forgot, Goto
<1>2. \A q \in Request : q # r => pc'[q] = pc[q] /\ stamp'[q] = stamp[q]
  BY DEF IInv, TypeOK, Forgot, Goto
<1>3. UNCHANGED <<password, resetToken, sentAt, mails, token, now, crashes>>
  BY DEF Forgot, rowVars
<1>4. TypeOK'
  <2>1. pc' \in [Request -> Busy \cup Answer \cup {"free", "lost"}]
    BY DEF IInv, TypeOK, Forgot, Goto, Busy, Answer
  <2>2. stamp' \in [Request -> Time]
    BY DEF IInv, TypeOK, Forgot
  <2> QED
    BY <1>3, <2>1, <2>2 DEF IInv, TypeOK
<1>5. TokensOK'
  BY <1>1, <1>2, <1>3 DEF IInv, TypeOK, TokensOK
<1>6. ResetsOK'
  BY <1>1, <1>2, <1>3 DEF IInv, TypeOK, TokensOK, ResetsOK
<1>7. UsedTokenIsCleared' /\ CurrentTokenIsMailed'
  BY <1>1, <1>2, <1>3 DEF IInv, TypeOK, UsedTokenIsCleared, CurrentTokenIsMailed
<1> QED
  BY <1>4, <1>5, <1>6, <1>7 DEF IInv

LEMMA WriteStep == ASSUME IInv, NEW r \in Request, Write(r) PROVE IInv'
<1>1. pc[r] = "write" /\ pc'[r] = "mail" /\ resetToken' = r /\ sentAt' = stamp[r]
  BY DEF IInv, TypeOK, Write, Goto
<1>2. \A q \in Request : q # r => pc'[q] = pc[q]
  BY DEF IInv, TypeOK, Write, Goto
<1>3. UNCHANGED <<password, mails, token, stamp, now, crashes>>
  BY DEF Write
<1>4. TypeOK'
  <2>1. pc' \in [Request -> Busy \cup Answer \cup {"free", "lost"}]
    BY DEF IInv, TypeOK, Write, Goto, Busy
  <2> QED
    BY <1>1, <1>3, <2>1 DEF IInv, TypeOK
<1>5. TokensOK'
  BY <1>1, <1>2, <1>3 DEF IInv, TypeOK, TokensOK
<1>6. ResetsOK'
  BY <1>1, <1>2, <1>3 DEF IInv, TypeOK, ResetsOK
<1>7. UsedTokenIsCleared'
  BY <1>1, <1>2, <1>3 DEF IInv, TokensOK, ResetsOK, UsedTokenIsCleared
<1>8. CurrentTokenIsMailed'
  BY <1>1 DEF CurrentTokenIsMailed
<1> QED
  BY <1>4, <1>5, <1>6, <1>7, <1>8 DEF IInv

LEMMA MailStep == ASSUME IInv, NEW r \in Request, Mail(r) PROVE IInv'
<1>1. pc[r] = "mail" /\ pc'[r] = "sent" /\ mails' = mails \cup {r}
  BY DEF IInv, TypeOK, Mail, Goto
<1>2. \A q \in Request : q # r => pc'[q] = pc[q]
  BY DEF IInv, TypeOK, Mail, Goto
<1>3. UNCHANGED <<password, resetToken, sentAt, token, stamp, now, crashes>>
  BY DEF Mail, rowVars
<1>4. TypeOK'
  <2>1. pc' \in [Request -> Busy \cup Answer \cup {"free", "lost"}]
    BY DEF IInv, TypeOK, Mail, Goto, Answer
  <2> QED
    BY <1>1, <1>3, <2>1 DEF IInv, TypeOK
<1>5. TokensOK'
  BY <1>1, <1>2, <1>3 DEF IInv, TypeOK, TokensOK
<1>6. ResetsOK'
  BY <1>1, <1>2, <1>3 DEF IInv, TypeOK, ResetsOK
<1>7. UsedTokenIsCleared'
  BY <1>1, <1>2, <1>3 DEF IInv, UsedTokenIsCleared
<1>8. CurrentTokenIsMailed'
  BY <1>1, <1>2, <1>3 DEF IInv, TypeOK, CurrentTokenIsMailed
<1> QED
  BY <1>4, <1>5, <1>6, <1>7, <1>8 DEF IInv

LEMMA ResetStep ==
  ASSUME IInv, NEW r \in Request, NEW t \in mails, Reset(r, t) PROVE IInv'
<1>1. t \in Request /\ pc[t] = "sent" /\ pc[r] = "free" /\ r # t
  BY DEF IInv, TypeOK, TokensOK, Reset
<1>2. pc'[r] \in {"hash", "weak", "late", "refused"} /\ token'[r] = t /\ stamp'[r] = now
  BY DEF IInv, TypeOK, Reset, Goto
<1>3. \A q \in Request : q # r =>
        pc'[q] = pc[q] /\ token'[q] = token[q] /\ stamp'[q] = stamp[q]
  BY DEF IInv, TypeOK, Reset, Goto
<1>4. UNCHANGED <<password, resetToken, sentAt, mails, now, crashes>>
  BY DEF Reset, rowVars
<1>5. pc'[r] = "hash" => now - stamp[t] <= Ttl
  <2> SUFFICES ASSUME pc'[r] = "hash" PROVE now - stamp[t] <= Ttl
    OBVIOUS
  <2>1. resetToken = t /\ now - sentAt <= Ttl
    BY DEF IInv, TypeOK, Reset, Goto
  <2> QED
    BY <1>1, <2>1, ConstantsAssumption DEF IInv, TokensOK
<1>6. TypeOK'
  <2>1. pc' \in [Request -> Busy \cup Answer \cup {"free", "lost"}]
    BY DEF IInv, TypeOK, Reset, Goto, Busy, Answer
  <2>2. token' \in [Request -> Request \cup {Null}] /\ stamp' \in [Request -> Time]
    BY <1>1 DEF IInv, TypeOK, Reset
  <2> QED
    BY <1>4, <2>1, <2>2 DEF IInv, TypeOK
<1>7. TokensOK'
  BY <1>1, <1>2, <1>3, <1>4 DEF IInv, TypeOK, TokensOK
<1>8. ResetsOK'
  <2>1. \A q \in Request : q # r /\ pc'[q] \in {"hash", "reset"} =>
          token'[q] \in mails' /\ stamp'[q] - stamp'[token'[q]] <= Ttl
    <3> SUFFICES ASSUME NEW q \in Request, q # r, pc[q] \in {"hash", "reset"}
                 PROVE  token[q] \in mails /\ stamp[q] - stamp'[token[q]] <= Ttl
      BY <1>3, <1>4
    <3>1. token[q] \in mails /\ stamp[q] - stamp[token[q]] <= Ttl
      BY DEF IInv, ResetsOK
    <3>2. token[q] # r /\ token[q] \in Request
      BY <1>1, <3>1 DEF IInv, TypeOK, TokensOK
    <3> QED
      BY <1>3, <3>1, <3>2
  <2>2. pc'[r] \in {"hash", "reset"} =>
          token'[r] \in mails' /\ stamp'[r] - stamp'[token'[r]] <= Ttl
    BY <1>1, <1>2, <1>3, <1>4, <1>5
  <2>3. password' # Null => pc'[password'] = "reset"
    BY <1>1, <1>3, <1>4 DEF IInv, TypeOK, ResetsOK
  <2> QED
    BY <2>1, <2>2, <2>3 DEF ResetsOK
<1>9. UsedTokenIsCleared'
  BY <1>2, <1>3, <1>4 DEF IInv, UsedTokenIsCleared
<1>10. CurrentTokenIsMailed'
  BY <1>1, <1>3, <1>4 DEF IInv, TypeOK, CurrentTokenIsMailed
<1> QED
  BY <1>6, <1>7, <1>8, <1>9, <1>10 DEF IInv

LEMMA SetPasswordStep == ASSUME IInv, NEW r \in Request, SetPassword(r) PROVE IInv'
<1>1. pc[r] = "hash" /\ pc'[r] = "reset" /\ password' = r /\ resetToken' = Null /\ sentAt' = 0
  BY DEF IInv, TypeOK, SetPassword, Goto
<1>2. \A q \in Request : q # r => pc'[q] = pc[q]
  BY DEF IInv, TypeOK, SetPassword, Goto
<1>3. UNCHANGED <<mails, token, stamp, now, crashes>>
  BY DEF SetPassword
<1>4. TypeOK'
  <2>1. pc' \in [Request -> Busy \cup Answer \cup {"free", "lost"}]
    BY DEF IInv, TypeOK, SetPassword, Goto, Answer
  <2>2. 0 \in Time
    BY ConstantsAssumption DEF Time
  <2> QED
    BY <1>1, <1>3, <2>1, <2>2 DEF IInv, TypeOK
<1>5. TokensOK'
  BY <1>1, <1>2, <1>3 DEF IInv, TypeOK, TokensOK
<1>6. ResetsOK'
  BY <1>1, <1>2, <1>3 DEF IInv, ResetsOK
<1>7. UsedTokenIsCleared'
  <2>1. \A q \in Request : pc'[q] = "reset" => token[q] # Null
    BY <1>1, <1>2, ConstantsAssumption DEF IInv, TypeOK, ResetsOK
  <2> QED
    BY <1>1, <1>3, <2>1 DEF UsedTokenIsCleared
<1>8. CurrentTokenIsMailed'
  BY <1>1 DEF CurrentTokenIsMailed
<1> QED
  BY <1>4, <1>5, <1>6, <1>7, <1>8 DEF IInv

LEMMA TickStep == ASSUME IInv, Tick PROVE IInv'
<1>1. TypeOK'
  BY ConstantsAssumption DEF IInv, TypeOK, Tick, rowVars, requestVars, Time
<1> QED
  BY <1>1 DEF IInv, Tick, TokensOK, ResetsOK, UsedTokenIsCleared, CurrentTokenIsMailed,
              rowVars, requestVars

LEMMA CrashStep == ASSUME IInv, Crash PROVE IInv'
<1>1. \A q \in Request : \/ pc'[q] = pc[q] /\ pc[q] \notin Busy
                         \/ pc'[q] = "lost" /\ pc[q] \in Busy
  BY DEF Crash
<1>2. UNCHANGED <<password, resetToken, sentAt, mails, token, stamp, now>>
  BY DEF Crash, rowVars
<1>3. TypeOK'
  <2>1. pc' \in [Request -> Busy \cup Answer \cup {"free", "lost"}]
    BY DEF IInv, TypeOK, Crash
  <2>2. crashes' \in 0..MaxCrashes
    BY ConstantsAssumption DEF IInv, TypeOK, Crash
  <2> QED
    BY <1>2, <2>1, <2>2 DEF IInv, TypeOK
<1>4. TokensOK' /\ ResetsOK'
  BY <1>1, <1>2 DEF IInv, TypeOK, TokensOK, ResetsOK, Busy
<1>5. UsedTokenIsCleared' /\ CurrentTokenIsMailed'
  BY <1>1, <1>2 DEF IInv, TypeOK, UsedTokenIsCleared, CurrentTokenIsMailed, Busy
<1> QED
  BY <1>3, <1>4, <1>5 DEF IInv

LEMMA Inductive == IInv /\ [Next]_vars => IInv'
<1> SUFFICES ASSUME IInv, [Next]_vars PROVE IInv'
  OBVIOUS
<1>1. CASE \E r \in Request : Forgot(r) \/ Write(r) \/ Mail(r) \/ SetPassword(r)
  BY <1>1, ForgotStep, WriteStep, MailStep, SetPasswordStep
<1>2. CASE \E r \in Request, t \in mails : Reset(r, t)
  BY <1>2, ResetStep
<1>3. CASE Tick \/ Crash
  BY <1>3, TickStep, CrashStep
<1>4. CASE UNCHANGED vars
  BY <1>4 DEF vars, rowVars, requestVars, IInv, TypeOK, TokensOK, ResetsOK,
              UsedTokenIsCleared, CurrentTokenIsMailed
<1> QED
  BY <1>1, <1>2, <1>3, <1>4 DEF Next, Rest

THEOREM Invariance == Spec => []IInv
  BY InitInductive, Inductive, PTL DEF Spec

-----------------------------------------------------------------------------
\* Type correctness.
THEOREM TypeCorrect == Spec => []TypeOK
<1>1. IInv => TypeOK
  BY DEF IInv
<1> QED
  BY <1>1, Invariance, PTL

\* Every password after the first was set with a mailed link, in time.
THEOREM SetInTimeCorrect == Spec => []PasswordSetInTime
<1>1. IInv => PasswordSetInTime
  BY DEF IInv, TypeOK, ResetsOK, PasswordSetInTime
<1> QED
  BY <1>1, Invariance, PTL

\* A link that has set a password is cleared.
THEOREM ClearedCorrect == Spec => []UsedTokenIsCleared
<1>1. IInv => UsedTokenIsCleared
  BY DEF IInv
<1> QED
  BY <1>1, Invariance, PTL

\* The link that works is in the mail unless a crash came between.
THEOREM MailedCorrect == Spec => []CurrentTokenIsMailed
<1>1. IInv => CurrentTokenIsMailed
  BY DEF IInv
<1> QED
  BY <1>1, Invariance, PTL

\* A used or replaced link stays dead.
THEOREM DeadLinksCorrect == Spec => DeadLinksStayDead
<1>1. IInv /\ [Next]_vars => [NoRevival]_vars
  <2> SUFFICES ASSUME IInv, Next, NEW t \in mails, resetToken # t
               PROVE  resetToken' # t /\ Holders(t)' \subseteq Holders(t)
    BY DEF NoRevival, vars
  <2>1. t \in Request /\ pc[t] = "sent"
    BY DEF IInv, TypeOK, TokensOK
  <2>2. resetToken' # t
    <3>1. CASE \E r \in Request : Write(r)
      BY <2>1, <3>1 DEF Write
    <3>2. CASE \E r \in Request : SetPassword(r)
      BY <2>1, <3>2, ConstantsAssumption DEF SetPassword
    <3>3. CASE UNCHANGED resetToken
      BY <3>3
    <3> QED
      BY <3>1, <3>2, <3>3 DEF Next, Forgot, Mail, Reset, Tick, Crash, Rest, vars, rowVars
  <2>3. ASSUME NEW q \in Holders(t)' PROVE q \in Holders(t)
    <3>1. q \in Request /\ pc'[q] = "hash" /\ token'[q] = t
      BY <2>3 DEF Holders
    <3>2. CASE pc'[q] = pc[q] /\ token'[q] = token[q]
      BY <3>1, <3>2 DEF Holders
    <3>3. CASE \E r \in Request, u \in mails : Reset(r, u)
      <4>1. PICK r \in Request, u \in mails : Reset(r, u)
        BY <3>3
      <4>2. CASE q = r
        BY <3>1, <4>1, <4>2 DEF Reset, Goto, IInv, TypeOK
      <4>3. CASE q # r
        BY <3>1, <3>2, <4>1, <4>3 DEF Reset, Goto, IInv, TypeOK
      <4> QED
        BY <4>2, <4>3
    <3>4. CASE \E r \in Request : Forgot(r) \/ Write(r) \/ Mail(r) \/ SetPassword(r)
      BY <3>1, <3>4 DEF Forgot, Write, Mail, SetPassword, Goto, Holders, IInv, TypeOK
    <3>5. CASE Crash
      BY <3>1, <3>5 DEF Crash, Holders
    <3> QED
      BY <3>2, <3>3, <3>4, <3>5 DEF Next, Tick, Rest, vars, requestVars
  <2> QED
    BY <2>2, <2>3
<1> QED
  BY <1>1, Invariance, PTL DEF Spec, DeadLinksStayDead
=============================================================================
