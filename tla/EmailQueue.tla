----------------------------- MODULE EmailQueue -----------------------------
(***************************************************************************)
(* EmailQueueService (application/email/email-queue.service.ts): an array  *)
(* of jobs, a flag, and a loop that a setImmediate callback runs.          *)
(*                                                                         *)
(* JavaScript runs one turn at a time, up to the next `await`.  A turn is  *)
(* an action: a queue...() call together with the processQueue() it makes, *)
(* the callback up to its first `await job()`, and from the moment a job   *)
(* ends to the next `await job()` or the end of the loop.  Nothing in the  *)
(* model assumes there is one loop: any number may be scheduled or waiting *)
(* for a job, and that there is at most one is proved.                     *)
(***************************************************************************)
EXTENDS Naturals, Sequences, FiniteSets

CONSTANTS
  Mail,         \* the calls of queueEmailVerification, queueWorkspaceInvitation
                \* and queuePasswordReset, each made once
  MaxRestarts   \* bound on restarts of the server

ASSUME MaxRestartsAssumption == MaxRestarts \in Nat

VARIABLES
  queue,        \* this.queue
  processing,   \* this.processing
  scheduled,    \* setImmediate callbacks that have not run yet
  sending,      \* jobs some loop awaits, one per loop
  outcome,      \* what became of each mail
  restarts

vars == <<queue, processing, scheduled, sending, outcome, restarts>>

Outcome == {"none", "queued", "sent", "failed", "lost"}

Init ==
  /\ queue = <<>>
  /\ processing = FALSE
  /\ scheduled = 0
  /\ sending = {}
  /\ outcome = [m \in Mail |-> "none"]
  /\ restarts = 0

-----------------------------------------------------------------------------
\* The test of `processing` that opens processQueue().  A call comes after a
\* push, so the queue is not empty.
MustStart == ~processing

processQueue ==
  IF MustStart
    THEN processing' = TRUE /\ scheduled' = scheduled + 1
    ELSE UNCHANGED <<processing, scheduled>>

\* push, where the fault is an unshift.
FaultyPush(q, m) == <<m>> \o q
Push(q, m) == Append(q, m)

Queue(m) ==
  /\ outcome[m] = "none"
  /\ outcome' = [outcome EXCEPT ![m] = "queued"]
  /\ queue' = Push(queue, m)
  /\ processQueue
  /\ UNCHANGED <<sending, restarts>>

\* The flag after the loop has ended.
FaultyProcessingAfterLoop == processing
ProcessingAfterLoop == FALSE

\* The head of the loop, for a loop that awaits no job (any more): the others
\* await the jobs in `rest`.
Loop(rest) ==
  IF queue # <<>>
    THEN /\ sending' = rest \cup {Head(queue)}
         /\ queue' = Tail(queue)
         /\ UNCHANGED processing
    ELSE /\ sending' = rest
         /\ processing' = ProcessingAfterLoop
         /\ UNCHANGED queue

\* The setImmediate callback begins.
Immediate ==
  /\ scheduled > 0
  /\ scheduled' = scheduled - 1
  /\ Loop(sending)
  /\ UNCHANGED <<outcome, restarts>>

\* The job catches the error of a failed send, so its loop goes on.
Sent(m, result) ==
  /\ m \in sending
  /\ outcome' = [outcome EXCEPT ![m] = result]
  /\ Loop(sending \ {m})
  /\ UNCHANGED <<scheduled, restarts>>

\* What comes of sendMail in EmailService.
Answers == {"sent", "failed"}

\* The process ends and another begins: everything was in memory.
Restart ==
  /\ restarts < MaxRestarts
  /\ restarts' = restarts + 1
  /\ queue' = <<>>
  /\ processing' = FALSE
  /\ scheduled' = 0
  /\ sending' = {}
  /\ outcome' = [m \in Mail |-> IF outcome[m] = "queued" THEN "lost" ELSE outcome[m]]

\* The server runs on with no callback and no answer to wait for.
Idle ==
  /\ scheduled = 0
  /\ sending = {}
  /\ UNCHANGED vars

Work == Immediate \/ \E m \in Mail, result \in Answers : Sent(m, result)

Next == (\E m \in Mail : Queue(m)) \/ Work \/ Restart \/ Idle

Spec == Init /\ [][Next]_vars

\* The event loop runs what is scheduled, and the mailer answers: nodemailer
\* has a connection and a socket timeout.  Callers and crashes owe nothing.
FairSpec ==
  /\ Spec
  /\ WF_vars(Immediate)
  /\ \A m \in Mail : WF_vars(\E result \in Answers : Sent(m, result))

-----------------------------------------------------------------------------
TypeOK ==
  /\ queue \in Seq(Mail)
  /\ processing \in BOOLEAN
  /\ scheduled \in 0..1
  /\ sending \in SUBSET Mail
  /\ outcome \in [Mail -> Outcome]
  /\ restarts \in 0..MaxRestarts

\* The loops: those not started and those that await a job.
Loops == scheduled + Cardinality(sending)

\* "Multiple calls are safe - only one processor runs at a time": however
\* calls, sends and restarts interleave, the mailer gets one mail at a time.
OneProcessor == Loops <= 1

\* A queued mail has a loop that will come to it: the flag that keeps a second
\* loop from starting is set exactly while the first is there to see the queue.
NoLostWakeup ==
  /\ processing <=> Loops = 1
  /\ queue # <<>> => processing

\* The service is at rest, or has one callback scheduled, or one job awaited.
AtRest == ~processing /\ scheduled = 0 /\ sending = {} /\ queue = <<>>
Starting == processing /\ scheduled = 1 /\ sending = {}
Awaiting == processing /\ scheduled = 0 /\ \E m \in Mail : sending = {m}

\* The inductive form of the three invariants above.
IInv == TypeOK /\ (AtRest \/ Starting \/ Awaiting)

-----------------------------------------------------------------------------
\* The mail under way, if any, is the head of what waits.
Waiting ==
  IF sending = {} THEN queue ELSE <<CHOOSE m \in sending : TRUE>> \o queue

Fifo == INSTANCE MailFifo WITH waiting <- Waiting

\* However calls, loop turns, answers and restarts interleave, the mails queued
\* since the server started are attempted in the order of the calls, one at a
\* time, none twice and none skipped.  That a failed attempt is final and a
\* restart loses the rest is so in the code, and not as the ADR has it: three
\* attempts with backoff, and a queue in Redis.
ImplementsFifo == Fifo!Spec

\* Every mail queued while the server stays up is attempted.
AttemptsAll == Fifo!FairSpec
=============================================================================
