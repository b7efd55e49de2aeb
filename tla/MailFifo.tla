------------------------------ MODULE MailFifo ------------------------------
(* What EmailQueueService promises its callers: queueing takes no time, and *)
(* the mails queued since the server started are attempted one at a time,   *)
(* in the order they were queued, once each.  This is the in-memory queue   *)
(* "for MVP" of the code: a failed attempt is logged and final, and nothing *)
(* survives a restart, where ADR-2025-12-26-background-email-queue has      *)
(* three attempts and a persistent queue.                                   *)
EXTENDS Sequences

CONSTANT Mail

VARIABLES
  waiting,   \* mails to be attempted; the head may be under way
  outcome    \* what became of each mail

vars == <<waiting, outcome>>

Init ==
  /\ waiting = <<>>
  /\ outcome = [m \in Mail |-> "none"]

Accept(m) ==
  /\ outcome[m] = "none"
  /\ outcome' = [outcome EXCEPT ![m] = "queued"]
  /\ waiting' = Append(waiting, m)

Attempted(result) ==
  /\ waiting # <<>>
  /\ outcome' = [outcome EXCEPT ![Head(waiting)] = result]
  /\ waiting' = Tail(waiting)

\* Nothing of the queue is persistent.
Restart ==
  /\ outcome' = [m \in Mail |-> IF outcome[m] = "queued" THEN "lost" ELSE outcome[m]]
  /\ waiting' = <<>>

Next ==
  \/ \E m \in Mail : Accept(m)
  \/ \E result \in {"sent", "failed"} : Attempted(result)
  \/ Restart

Spec == Init /\ [][Next]_vars

\* No mail waits for ever.
FairSpec == Spec /\ WF_vars(\E result \in {"sent", "failed"} : Attempted(result))
=============================================================================
