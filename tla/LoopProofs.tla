----------------------------- MODULE LoopProofs -----------------------------
(* Theorems about the two loops of the server that come to an end on their  *)
(* own.                                                                     *)
(*                                                                          *)
(* EmailQueue, for every set of mails and any number of restarts: one loop  *)
(* at a time, no lost wakeup, and the refinement of the abstract queue      *)
(* MailFifo.                                                                *)
(*                                                                          *)
(* Chunking, for every text and all sizes that stand in the relations of    *)
(* ChunkingAssumption: no character lost, chunks that fit, a loop that      *)
(* moves forward, and a measure that every step makes smaller.              *)
EXTENDS EmailQueue, Chunking, FiniteSetTheorems, SequenceTheorems,
        WellFoundedInduction, TLAPS

-----------------------------------------------------------------------------
(* The e-mail queue.                                                        *)

LEMMA EmptyQueue == <<>> \in Seq(Mail) /\ 0 \in 0..1
  OBVIOUS

LEMMA InitInductive == Init => IInv
<1> SUFFICES ASSUME Init PROVE IInv
  OBVIOUS
<1>1. restarts \in 0..MaxRestarts /\ outcome \in [Mail -> Outcome]
  BY MaxRestartsAssumption DEF Init, Outcome
<1> QED
  BY <1>1, EmptyQueue DEF Init, IInv, TypeOK, AtRest

LEMMA QueueStep ==
  ASSUME IInv, NEW m \in Mail, Queue(m)
  PROVE  IInv'
<1>1. TypeOK'
  <2>1. queue' \in Seq(Mail)
    BY DEF IInv, TypeOK, Queue, Push
  <2>2. outcome' \in [Mail -> Outcome]
    BY DEF IInv, TypeOK, Queue, Outcome
  <2>3. processing' \in BOOLEAN /\ scheduled' \in 0..1
    <3>1. CASE processing
      BY <3>1 DEF IInv, TypeOK, Queue, processQueue, MustStart
    <3>2. CASE ~processing
      BY <3>2 DEF IInv, Queue, processQueue, MustStart, AtRest, Starting, Awaiting
    <3> QED
      BY <3>1, <3>2
  <2> QED
    BY <2>1, <2>2, <2>3 DEF IInv, TypeOK, Queue
<1>2. (AtRest \/ Starting \/ Awaiting)'
  <2>1. CASE processing
    BY <2>1 DEF IInv, Queue, processQueue, MustStart, AtRest, Starting, Awaiting
  <2>2. CASE ~processing
    BY <2>2 DEF IInv, TypeOK, Queue, processQueue, MustStart, AtRest, Starting, Awaiting
  <2> QED
    BY <2>1, <2>2
<1> QED
  BY <1>1, <1>2 DEF IInv

\* The loop that awaits nothing any more leaves the service awaiting the next
\* job or at rest.
LEMMA LoopStep ==
  ASSUME IInv, Loop({}), scheduled' = 0, processing,
         outcome' \in [Mail -> Outcome], UNCHANGED restarts
  PROVE  IInv'
<1>1. CASE queue # <<>>
  <2>1. Head(queue) \in Mail /\ Tail(queue) \in Seq(Mail)
    BY <1>1 DEF IInv, TypeOK
  <2>2. Awaiting'
    BY <1>1, <2>1 DEF Loop, Awaiting
  <2> QED
    <3>1. sending' \in SUBSET Mail /\ queue' \in Seq(Mail) /\ processing' = TRUE
      BY <1>1, <2>1 DEF Loop
    <3> QED
      BY <2>2, <3>1 DEF IInv, TypeOK
<1>2. CASE queue = <<>>
  <2>1. processing' = FALSE /\ AtRest'
    BY <1>2 DEF Loop, ProcessingAfterLoop, AtRest
  <2> QED
    BY <2>1, EmptyQueue DEF IInv, TypeOK, AtRest
<1> QED
  BY <1>1, <1>2

LEMMA ImmediateStep == IInv /\ Immediate => IInv' /\ sending = {}
<1> SUFFICES ASSUME IInv, Immediate PROVE IInv' /\ sending = {}
  OBVIOUS
<1>1. Starting
  BY DEF IInv, Immediate, AtRest, Starting, Awaiting
<1>2. Loop({}) /\ scheduled' = 0 /\ processing /\ UNCHANGED restarts
  BY <1>1 DEF Immediate, Starting
<1>3. outcome' \in [Mail -> Outcome]
  BY DEF IInv, TypeOK, Immediate
<1> QED
  BY <1>1, <1>2, <1>3, LoopStep DEF Starting

LEMMA SentStep ==
  ASSUME IInv, NEW m \in Mail, NEW result \in Answers, Sent(m, result)
  PROVE  IInv' /\ sending = {m}
<1>1. Awaiting /\ sending = {m}
  BY DEF IInv, Sent, AtRest, Starting, Awaiting
<1>2. Loop({}) /\ scheduled' = 0 /\ processing /\ UNCHANGED restarts
  <2>1. sending \ {m} = {}
    BY <1>1
  <2> QED
    BY <1>1, <2>1 DEF Sent, Awaiting
<1>3. outcome' \in [Mail -> Outcome]
  BY DEF IInv, TypeOK, Sent, Answers, Outcome
<1> QED
  BY <1>1, <1>2, <1>3, LoopStep

LEMMA RestartStep == IInv /\ Restart => IInv'
<1> SUFFICES ASSUME IInv, Restart PROVE IInv'
  OBVIOUS
<1>1. outcome' \in [Mail -> Outcome]
  BY DEF IInv, TypeOK, Restart, Outcome
<1>2. restarts' \in 0..MaxRestarts
  BY MaxRestartsAssumption DEF IInv, TypeOK, Restart
<1> QED
  BY <1>1, <1>2, EmptyQueue DEF IInv, TypeOK, Restart, AtRest

LEMMA Inductive == IInv /\ [Next]_vars => IInv'
<1> SUFFICES ASSUME IInv, [Next]_vars PROVE IInv'
  OBVIOUS
<1>1. CASE \E m \in Mail : Queue(m)
  BY <1>1, QueueStep
<1>2. CASE Immediate
  BY <1>2, ImmediateStep
<1>3. CASE \E m \in Mail, result \in Answers : Sent(m, result)
  BY <1>3, SentStep
<1>4. CASE Restart
  BY <1>4, RestartStep
<1>5. CASE UNCHANGED vars
  BY <1>5 DEF vars, IInv, TypeOK, AtRest, Starting, Awaiting
<1> QED
  BY <1>1, <1>2, <1>3, <1>4, <1>5 DEF Next, Work, Idle

THEOREM Invariance == Spec => []IInv
  BY InitInductive, Inductive, PTL DEF Spec

-----------------------------------------------------------------------------
\* Type correctness.
THEOREM TypeCorrect == Spec => []TypeOK
<1>1. IInv => TypeOK
  BY DEF IInv
<1> QED
  BY <1>1, Invariance, PTL

LEMMA LoopsFromIInv == IInv => Loops = IF AtRest THEN 0 ELSE 1
<1> SUFFICES ASSUME IInv PROVE Loops = IF AtRest THEN 0 ELSE 1
  OBVIOUS
<1>1. CASE Awaiting
  <2>1. Cardinality(sending) = 1
    BY <1>1, FS_Singleton DEF Awaiting
  <2> QED
    BY <1>1, <2>1 DEF Loops, Awaiting, AtRest
<1>2. CASE AtRest \/ Starting
  <2>1. Cardinality(sending) = 0
    BY <1>2, FS_EmptySet DEF AtRest, Starting
  <2> QED
    BY <1>2, <2>1 DEF Loops, AtRest, Starting
<1> QED
  BY <1>1, <1>2 DEF IInv

\* Only one processor runs at a time.
THEOREM OneProcessorCorrect == Spec => []OneProcessor
<1>1. IInv => OneProcessor
  BY LoopsFromIInv DEF OneProcessor
<1> QED
  BY <1>1, Invariance, PTL

\* A queued mail has a loop that will come to it.
THEOREM NoLostWakeupCorrect == Spec => []NoLostWakeup
<1>1. IInv => NoLostWakeup
  BY LoopsFromIInv DEF IInv, NoLostWakeup, AtRest, Starting, Awaiting
<1> QED
  BY <1>1, Invariance, PTL

-----------------------------------------------------------------------------
LEMMA WaitingValue ==
  /\ sending = {} => Waiting = queue
  /\ \A m : sending = {m} => Waiting = <<m>> \o queue
  BY DEF Waiting

\* Putting the head back before the tail.
LEMMA HeadTail ==
  ASSUME NEW q \in Seq(Mail), q # <<>>
  PROVE  <<Head(q)>> \o Tail(q) = q
  OBVIOUS

LEMMA AppendAfter ==
  ASSUME NEW q \in Seq(Mail), NEW m \in Mail, NEW x \in Mail
  PROVE  <<x>> \o Append(q, m) = Append(<<x>> \o q, m)
  OBVIOUS

LEMMA LoopRefines ==
  ASSUME IInv, Loop({})
  PROVE  Waiting' = queue
<1>1. CASE queue # <<>>
  <2>1. sending' = {Head(queue)} /\ queue' = Tail(queue)
    BY <1>1 DEF Loop
  <2>2. Waiting' = <<Head(queue)>> \o Tail(queue)
    BY <2>1 DEF Waiting
  <2> QED
    BY <1>1, <2>2, HeadTail DEF IInv, TypeOK
<1>2. CASE queue = <<>>
  BY <1>2 DEF Loop, Waiting
<1> QED
  BY <1>1, <1>2

LEMMA QueueRefines ==
  ASSUME IInv, NEW m \in Mail, Queue(m)
  PROVE  Fifo!Accept(m)
<1>1. queue \in Seq(Mail) /\ queue' = Append(queue, m) /\ sending' = sending
  BY DEF IInv, TypeOK, Queue, Push
<1>2. Waiting' = Append(Waiting, m)
  <2>1. CASE sending = {}
    BY <1>1, <2>1 DEF Waiting
  <2>2. CASE Awaiting
    <3>1. PICK x \in Mail : sending = {x}
      BY <2>2 DEF Awaiting
    <3>2. Waiting = <<x>> \o queue /\ Waiting' = <<x>> \o Append(queue, m)
      BY <1>1, <3>1 DEF Waiting
    <3> QED
      BY <1>1, <3>2, AppendAfter
  <2> QED
    BY <2>1, <2>2 DEF IInv, AtRest, Starting
<1> QED
  BY <1>2 DEF Queue, Fifo!Accept

LEMMA SentRefines ==
  ASSUME IInv, NEW m \in Mail, NEW result \in Answers, Sent(m, result)
  PROVE  Fifo!Attempted(result)
<1>1. sending = {m} /\ queue \in Seq(Mail)
  BY SentStep DEF IInv, TypeOK
<1>2. Waiting = <<m>> \o queue
  BY <1>1 DEF Waiting
<1>3. Waiting # <<>> /\ Head(Waiting) = m /\ Tail(Waiting) = queue
  BY <1>1, <1>2
<1>4. Waiting' = queue
  <2>1. sending \ {m} = {}
    BY <1>1
  <2> QED
    BY <2>1, LoopRefines DEF Sent
<1> QED
  BY <1>3, <1>4 DEF Sent, Fifo!Attempted

LEMMA ImmediateRefines == IInv /\ Immediate => UNCHANGED <<Waiting, outcome>>
<1> SUFFICES ASSUME IInv, Immediate PROVE UNCHANGED <<Waiting, outcome>>
  OBVIOUS
<1>1. sending = {}
  BY ImmediateStep
<1>2. Waiting = queue /\ Waiting' = queue
  BY <1>1, LoopRefines DEF Immediate, Waiting
<1> QED
  BY <1>2 DEF Immediate

LEMMA RestartRefines == Restart => Fifo!Restart
  BY DEF Restart, Waiting, Fifo!Restart

\* The service implements the abstract queue: every mail is attempted once,
\* in the order of the calls, one at a time.
THEOREM FifoCorrect == Spec => ImplementsFifo
<1>1. Init => Fifo!Init
  BY DEF Init, Waiting, Fifo!Init
<1>2. IInv /\ [Next]_vars => [Fifo!Next]_(Fifo!vars)
  <2> SUFFICES ASSUME IInv, [Next]_vars PROVE [Fifo!Next]_(Fifo!vars)
    OBVIOUS
  <2>1. CASE \E m \in Mail : Queue(m)
    BY <2>1, QueueRefines DEF Fifo!Next
  <2>2. CASE Immediate
    BY <2>2, ImmediateRefines DEF Fifo!vars
  <2>3. CASE \E m \in Mail, result \in Answers : Sent(m, result)
    BY <2>3, SentRefines DEF Fifo!Next, Answers
  <2>4. CASE Restart
    BY <2>4, RestartRefines DEF Fifo!Next
  <2>5. CASE UNCHANGED vars
    BY <2>5 DEF vars, Waiting, Fifo!vars
  <2> QED
    BY <2>1, <2>2, <2>3, <2>4, <2>5 DEF Next, Work, Idle
<1> QED
  BY <1>1, <1>2, Invariance, PTL DEF Spec, ImplementsFifo, Fifo!Spec

-----------------------------------------------------------------------------
(* Chunking: numbers.                                                       *)

LEMMA LeastElement ==
  ASSUME NEW S \in SUBSET Nat, S # {}
  PROVE  \E m \in S : \A x \in S : m <= x
<1>1. IsWellFoundedOn(OpToRel(<, Nat), Nat)
  BY NatLessThanWellFounded
<1>2. \E m \in S : \A x \in S : <<x, m>> \notin OpToRel(<, Nat)
  BY <1>1, WFMin
<1>3. PICK m \in S : \A x \in S : <<x, m>> \notin OpToRel(<, Nat)
  BY <1>2
<1>4. ASSUME NEW x \in S PROVE m <= x
  <2>1. ~(x < m)
    BY <1>3 DEF OpToRel
  <2> QED
    BY <2>1
<1> QED
  BY <1>4

LEMMA GreatestElement ==
  ASSUME NEW n \in Nat, NEW S \in SUBSET (0 .. n), S # {}
  PROVE  \E m \in S : \A x \in S : x <= m
<1> DEFINE D == {n - x : x \in S}
<1>1. \A x \in S : x \in Int /\ 0 <= x /\ x <= n
  OBVIOUS
<1>2. D \subseteq Nat /\ D # {}
  <2>1. ASSUME NEW y \in D PROVE y \in Nat
    BY <1>1
  <2> QED
    BY <2>1
<1>3. PICK d \in D : \A y \in D : d <= y
  BY <1>2, LeastElement
<1>4. PICK m \in S : d = n - m
  BY <1>3
<1>5. ASSUME NEW x \in S PROVE x <= m
  <2>1. n - m <= n - x
    BY <1>3, <1>4
  <2> QED
    BY <1>1, <2>1
<1> QED
  BY <1>5

\* Of some positions, the last up to p and the first behind it.
LEMMA LastUpTo ==
  ASSUME NEW n \in Nat, NEW S, S \subseteq 0 .. n, NEW p \in 0 .. n,
         \E x \in S : x <= p
  PROVE  \E m \in S : m <= p /\ \A x \in S : x <= p => x <= m
<1> DEFINE L == {x \in S : x <= p}
<1>1. L \in SUBSET (0 .. n) /\ L # {}
  OBVIOUS
<1>2. PICK m \in L : \A x \in L : x <= m
  BY <1>1, GreatestElement
<1> QED
  BY <1>2

LEMMA FirstBehind ==
  ASSUME NEW n \in Nat, NEW S, S \subseteq 0 .. n, NEW p \in 0 .. n,
         \E x \in S : p < x
  PROVE  \E m \in S : p < m /\ \A x \in S : p < x => m <= x
<1> DEFINE G == {x \in S : p < x}
<1>1. ASSUME NEW x \in S PROVE x \in Nat
  <2>1. x \in 0 .. n
    OBVIOUS
  <2> QED
    BY <2>1
<1>2. G \in SUBSET Nat /\ G # {}
  BY <1>1
<1>3. PICK m \in G : \A x \in G : m <= x
  BY <1>2, LeastElement
<1> QED
  BY <1>3

\* A division rounded down is the number of whole parts.
LEMMA Division ==
  ASSUME NEW a \in Nat, NEW d \in Nat, d > 0
  PROVE  /\ a \div d \in Nat
         /\ (a \div d) * d <= a
         /\ a < (a \div d) * d + d
  OBVIOUS

LEMMA Constants ==
  /\ CharsPerToken \in Nat /\ Size \in Nat /\ Overlap \in Nat
  /\ Back \in Nat /\ Ahead \in Nat /\ SmallTokens \in Nat /\ MediumTokens \in Nat
  /\ CharsPerToken > 0 /\ Size > 0 /\ Overlap < Size /\ Back + Overlap <= Size
  /\ SmallTokens <= MediumTokens
  /\ Size + Ahead <= (SmallTokens - 1) * CharsPerToken
  BY ChunkingAssumption

LEMMA TokensNat ==
  ASSUME NEW n \in Nat
  PROVE  /\ Tokens(n) \in Nat
         /\ n <= Tokens(n) * CharsPerToken
         /\ Tokens(n) * CharsPerToken < n + CharsPerToken
<1> DEFINE a == n + CharsPerToken - 1
<1>1. a \in Nat
  BY Constants
<1>2. a \div CharsPerToken \in Nat
      /\ (a \div CharsPerToken) * CharsPerToken <= a
      /\ a < (a \div CharsPerToken) * CharsPerToken + CharsPerToken
  BY <1>1, Constants, Division
<1>3. Tokens(n) = a \div CharsPerToken
  BY DEF Tokens
<1> HIDE DEF a
<1> DEFINE t == a \div CharsPerToken
           u == t * CharsPerToken
<1>4. t \in Nat /\ u \in Nat /\ u <= a /\ a < u + CharsPerToken
  BY <1>2, Constants
<1> HIDE DEF u
<1>5. n <= u /\ u < n + CharsPerToken
  BY <1>4, Constants DEF a
<1> QED
  BY <1>3, <1>4, <1>5 DEF u

LEMMA MonotoneProduct ==
  ASSUME NEW a \in Nat, NEW b \in Nat, NEW d \in Nat, d > 0
  PROVE  /\ a <= b => a * d <= b * d
         /\ a * d < b * d => a < b
  OBVIOUS

\* A length up to a multiple of the estimate has no more tokens.
LEMMA TokensBound ==
  ASSUME NEW n \in Nat, NEW k \in Nat, n <= k * CharsPerToken
  PROVE  Tokens(n) <= k
<1> DEFINE t == Tokens(n)
<1>1. t \in Nat /\ k + 1 \in Nat /\ CharsPerToken \in Nat /\ CharsPerToken > 0
  BY TokensNat, Constants
<1>2. t * CharsPerToken < n + CharsPerToken
  BY TokensNat
<1>3. (k + 1) * CharsPerToken = k * CharsPerToken + CharsPerToken
  BY <1>1
<1>4. k * CharsPerToken \in Nat /\ t * CharsPerToken \in Nat
  BY <1>1
<1> HIDE DEF t
<1>5. t * CharsPerToken < (k + 1) * CharsPerToken
  BY <1>1, <1>2, <1>3, <1>4 DEF t
<1>6. t < k + 1
  BY <1>1, <1>5, MonotoneProduct
<1> QED
  BY <1>1, <1>6 DEF t

LEMMA SmallTokensPositive == SmallTokens > 1
<1>1. CASE SmallTokens <= 1
  <2>1. CASE SmallTokens = 1
    BY <2>1, Constants
  <2>2. CASE SmallTokens = 0
    BY <2>2, Constants
  <2> QED
    BY <1>1, <2>1, <2>2, Constants
<1> QED
  BY <1>1, Constants

\* What the loop cuts, a chunk of full size and the rest of a sentence, is
\* small.
LEMMA FixedIsSmall ==
  ASSUME NEW n \in Nat, n <= Size + Ahead
  PROVE  NoSplit(n)
<1>1. SmallTokens - 1 \in Nat
  BY SmallTokensPositive, Constants
<1>2. n <= (SmallTokens - 1) * CharsPerToken
  <2>1. (SmallTokens - 1) * CharsPerToken \in Nat
    BY <1>1, Constants
  <2> QED
    BY <2>1, Constants
<1>3. Tokens(n) <= SmallTokens - 1
  BY <1>1, <1>2, TokensBound
<1> QED
  BY <1>3, TokensNat, Constants DEF NoSplit

\* Every length has one strategy, and only the first takes the empty text.
LEMMA Strategies ==
  ASSUME NEW n \in Nat
  PROVE  /\ NoSplit(n) \/ LlmSmart(n) \/ Hierarchical(n)
         /\ LlmSmart(n) \/ Hierarchical(n) => ~NoSplit(n) /\ n > 0
<1>1. Tokens(n) \in Nat
  BY TokensNat
<1>2. n = 0 => NoSplit(n)
  BY FixedIsSmall, Constants
<1> QED
  BY <1>1, <1>2, Constants DEF NoSplit, LlmSmart, Hierarchical

-----------------------------------------------------------------------------
(* Chunking: sections.                                                      *)

LEMMA TextShape ==
  ASSUME IsText(text)
  PROVE  /\ text.len \in Nat
         /\ text.breaks \subseteq 0 .. text.len
         /\ text.heads \subseteq 0 .. text.len
         /\ \A h \in text.heads : h < text.len
         /\ \A b \in text.breaks : b < text.len
         /\ \A p \in Solid(0, text.len) : p \notin text.breaks
  BY DEF IsText, Solid

LEMMA SolidInside ==
  ASSUME NEW a \in Nat, NEW b \in Nat, NEW p
  PROVE  p \in Solid(a, b) <=> p \in Nat /\ a <= p /\ p < b /\ p \notin text.blank
  BY DEF Solid

LEMMA TrimWithin ==
  ASSUME NEW a \in Nat, NEW b \in Nat, NEW s \in Trim(a, b)
  PROVE  s \in Int \X Int /\ a <= s[1] /\ s[1] < s[2] /\ s[2] <= b
<1>1. s \in Solid(a, b) \X {p + 1 : p \in Solid(a, b)}
  BY DEF Trim
<1>2. PICK q \in Solid(a, b) : s[2] = q + 1
  BY <1>1
<1>3. s[1] \in Solid(a, b) /\ s = <<s[1], s[2]>>
  BY <1>1
<1>4. s[1] \in Nat /\ a <= s[1] /\ q \in Nat /\ q < b
  BY <1>2, <1>3, SolidInside
<1>5. s[1] < s[2]
  BY <1>3 DEF Trim
<1>6. s \in Int \X Int
  BY <1>2, <1>3, <1>4
<1> QED
  BY <1>2, <1>4, <1>5, <1>6

\* Trimming drops no character but white space.
LEMMA TrimCovers ==
  ASSUME NEW a \in Nat, NEW b \in Nat, NEW p \in Solid(a, b)
  PROVE  \E s \in Trim(a, b) : In(p, s)
<1>1. Solid(a, b) \in SUBSET (0 .. b) /\ Solid(a, b) # {} /\ Solid(a, b) \in SUBSET Nat
  BY DEF Solid
<1>2. PICK lo \in Solid(a, b) : \A x \in Solid(a, b) : lo <= x
  BY <1>1, LeastElement
<1>3. PICK hi \in Solid(a, b) : \A x \in Solid(a, b) : x <= hi
  BY <1>1, GreatestElement
<1> DEFINE s == <<lo, hi + 1>>
<1>4. s \in Solid(a, b) \X {x + 1 : x \in Solid(a, b)}
  OBVIOUS
<1>5. \A x \in Solid(a, b) : s[1] <= x /\ x < s[2]
  BY <1>1, <1>2, <1>3
<1>6. s \in Trim(a, b)
  BY <1>4, <1>5 DEF Trim
<1> QED
  BY <1>5, <1>6 DEF In

\* The intervals that are trimmed lie in the text.
LEMMA SpansInText ==
  ASSUME IsText(text), NEW s \in HeadSpans \cup IntroSpans \cup ParagraphSpans
  PROVE  s[1] \in Nat /\ s[2] \in Nat /\ s[2] <= text.len
<1>1. CASE s \in HeadSpans
  BY <1>1, TextShape DEF HeadSpans
<1>2. CASE s \in IntroSpans
  BY <1>2, TextShape DEF IntroSpans
<1>3. CASE s \in ParagraphSpans
  <2>1. /\ s[1] \in {0} \cup {p + 1 : p \in text.breaks}
        /\ s[2] \in text.breaks \cup {text.len}
    BY <1>3 DEF ParagraphSpans
  <2> QED
    BY <2>1, TextShape
<1> QED
  BY <1>1, <1>2, <1>3

LEMMA TrimsWithin ==
  ASSUME IsText(text),
         NEW spans \in SUBSET (HeadSpans \cup IntroSpans \cup ParagraphSpans),
         NEW s \in Trims(spans)
  PROVE  s \in Int \X Int /\ Within(s)
<1>1. PICK span \in spans : s \in Trim(span[1], span[2])
  BY DEF Trims
<1>2. span[1] \in Nat /\ span[2] \in Nat /\ span[2] <= text.len
  BY SpansInText
<1>3. s \in Int \X Int /\ span[1] <= s[1] /\ s[1] < s[2] /\ s[2] <= span[2]
  BY <1>1, <1>2, TrimWithin
<1>4. s[1] \in Int /\ s[2] \in Int /\ text.len \in Nat
  BY <1>3, TextShape
<1> QED
  BY <1>2, <1>3, <1>4 DEF Within

\* Each section is a piece of the text that is not empty.
LEMMA SectionsWithin ==
  ASSUME IsText(text), text.len > 0, NEW s \in Sections
  PROVE  s \in Int \X Int /\ Within(s)
<1>1. CASE s \in Trims(HeadSpans \cup IntroSpans)
  BY <1>1, TrimsWithin
<1>2. CASE s \in Trims(ParagraphSpans)
  BY <1>2, TrimsWithin
<1>3. CASE s = <<0, text.len>>
  BY <1>3, TextShape DEF Within
<1> QED
  BY <1>1, <1>2, <1>3 DEF Sections

\* A character is in the section of the last header before it, or in the
\* introduction.
LEMMA HeadsCover ==
  ASSUME IsText(text), text.heads # {}, NEW p \in Solid(0, text.len)
  PROVE  \E span \in HeadSpans \cup IntroSpans : In(p, span)
<1>0. /\ text.len \in Nat /\ text.heads \subseteq 0 .. text.len
      /\ \A h \in text.heads : h \in Nat /\ h < text.len
      /\ p \in Nat /\ p < text.len /\ p \in 0 .. text.len
  <2>1. p \in Nat /\ p < text.len
    BY TextShape, SolidInside
  <2> QED
    BY <2>1, TextShape
<1>1. CASE \E h \in text.heads : h <= p
  <2>1. PICK a \in text.heads : a <= p /\ \A h \in text.heads : h <= p => h <= a
    BY <1>0, <1>1, LastUpTo
  <2>2. CASE \E h \in text.heads : p < h
    <3>1. PICK b \in text.heads : p < b /\ \A h \in text.heads : p < h => b <= h
      BY <1>0, <2>2, FirstBehind
    <3>2. <<a, b>> \in HeadSpans
      BY <1>0, <2>1, <3>1 DEF HeadSpans
    <3> QED
      BY <2>1, <3>1, <3>2 DEF In
  <2>3. CASE ~\E h \in text.heads : p < h
    <3>1. <<a, text.len>> \in HeadSpans
      BY <1>0, <2>1, <2>3 DEF HeadSpans
    <3> QED
      BY <1>0, <2>1, <3>1 DEF In
  <2> QED
    BY <2>2, <2>3
<1>2. CASE ~\E h \in text.heads : h <= p
  <2>1. \E h \in text.heads : p < h
    BY <1>0, <1>2
  <2>2. PICK b \in text.heads : p < b /\ \A h \in text.heads : p < h => b <= h
    BY <1>0, <2>1, FirstBehind
  <2>3. <<0, b>> \in IntroSpans
    BY <1>0, <1>2, <2>2 DEF IntroSpans
  <2> QED
    BY <1>0, <2>2, <2>3 DEF In
<1> QED
  BY <1>1, <1>2

\* A character is in the paragraph between the empty lines around it.
LEMMA ParagraphsCover ==
  ASSUME IsText(text), NEW p \in Solid(0, text.len)
  PROVE  \E span \in ParagraphSpans : In(p, span)
<1>0. /\ text.len \in Nat /\ text.breaks \subseteq 0 .. text.len
      /\ \A b \in text.breaks : b \in Nat /\ b < text.len
      /\ p \in Nat /\ p < text.len /\ p \in 0 .. text.len /\ p \notin text.breaks
  <2>1. p \in Nat /\ p < text.len
    BY TextShape, SolidInside
  <2> QED
    BY <2>1, TextShape
<1>1. PICK a \in {0} \cup {b + 1 : b \in text.breaks} :
        a \in Nat /\ a <= p /\ \A b \in text.breaks : b < a \/ p < b
  <2>1. CASE \E b \in text.breaks : b <= p
    <3>1. PICK b \in text.breaks : b <= p /\ \A x \in text.breaks : x <= p => x <= b
      BY <1>0, <2>1, LastUpTo
    <3>2. b + 1 \in Nat /\ b + 1 <= p
      BY <1>0, <3>1
    <3> QED
      BY <1>0, <3>1, <3>2
  <2>2. CASE ~\E b \in text.breaks : b <= p
    BY <1>0, <2>2
  <2> QED
    BY <2>1, <2>2
<1>2. PICK e \in text.breaks \cup {text.len} :
        e \in Nat /\ p < e /\ \A b \in text.breaks : b <= p \/ e <= b
  <2>1. CASE \E b \in text.breaks : p < b
    <3>1. PICK b \in text.breaks : p < b /\ \A x \in text.breaks : p < x => b <= x
      BY <1>0, <2>1, FirstBehind
    <3> QED
      BY <1>0, <3>1
  <2>2. CASE ~\E b \in text.breaks : p < b
    BY <1>0, <2>2
  <2> QED
    BY <2>1, <2>2
<1>3. (a .. e - 1) \cap text.breaks = {}
  BY <1>0, <1>1, <1>2
<1>4. <<a, e>> \in ParagraphSpans
  BY <1>0, <1>1, <1>2, <1>3 DEF ParagraphSpans
<1> QED
  BY <1>1, <1>2, <1>4 DEF In

LEMMA TrimsCover ==
  ASSUME IsText(text),
         NEW spans \in SUBSET (HeadSpans \cup IntroSpans \cup ParagraphSpans),
         NEW p \in Solid(0, text.len), NEW span \in spans, In(p, span)
  PROVE  \E s \in Trims(spans) : In(p, s)
<1>1. span[1] \in Nat /\ span[2] \in Nat
  BY SpansInText
<1>2. p \in Solid(span[1], span[2])
  BY <1>1, TextShape, SolidInside DEF In
<1>3. PICK s \in Trim(span[1], span[2]) : In(p, s)
  BY <1>1, <1>2, TrimCovers
<1> QED
  BY <1>3 DEF Trims

\* No character of the text but white space is outside its sections.
LEMMA SectionsCover ==
  ASSUME IsText(text), NEW p \in Solid(0, text.len)
  PROVE  \E s \in Sections : In(p, s)
<1>1. CASE Many(text.heads)
  <2>1. PICK span \in HeadSpans \cup IntroSpans : In(p, span)
    BY <1>1, HeadsCover DEF Many
  <2>2. \E s \in Trims(HeadSpans \cup IntroSpans) : In(p, s)
    BY <2>1, TrimsCover
  <2> QED
    BY <1>1, <2>2 DEF Sections
<1>2. CASE ~Many(text.heads) /\ Many(Trims(ParagraphSpans))
  <2>1. PICK span \in ParagraphSpans : In(p, span)
    BY ParagraphsCover
  <2>2. \E s \in Trims(ParagraphSpans) : In(p, s)
    BY <2>1, TrimsCover
  <2> QED
    BY <1>2, <2>2 DEF Sections
<1>3. CASE ~Many(text.heads) /\ ~Many(Trims(ParagraphSpans))
  <2>1. Sections = {<<0, text.len>>}
    BY <1>3 DEF Sections
  <2>2. p \in Nat /\ p < text.len
    BY TextShape, SolidInside
  <2> QED
    BY <2>1, <2>2 DEF In
<1> QED
  BY <1>1, <1>2, <1>3

\* No text is without a section.
LEMMA SomeSection == IsText(text) => Sections # {}
<1> SUFFICES ASSUME IsText(text) PROVE Sections # {}
  OBVIOUS
<1>1. CASE Many(text.heads)
  <2>1. PICK h \in text.heads : TRUE
    BY <1>1 DEF Many
  <2>2. h \in Solid(0, text.len)
    BY DEF IsText, Solid
  <2> QED
    BY <2>2, SectionsCover
<1>2. CASE ~Many(text.heads) /\ Many(Trims(ParagraphSpans))
  BY <1>2 DEF Sections, Many
<1>3. CASE ~Many(text.heads) /\ ~Many(Trims(ParagraphSpans))
  BY <1>3 DEF Sections
<1> QED
  BY <1>1, <1>2, <1>3

LEMMA TrimUnique ==
  ASSUME NEW a \in Nat, NEW b \in Nat, NEW s \in Trim(a, b), NEW o \in Trim(a, b)
  PROVE  s = o
<1>1. /\ s \in Solid(a, b) \X {p + 1 : p \in Solid(a, b)}
      /\ o \in Solid(a, b) \X {p + 1 : p \in Solid(a, b)}
  BY DEF Trim
<1>2. PICK q \in Solid(a, b) : s[2] = q + 1
  BY <1>1
<1>3. PICK r \in Solid(a, b) : o[2] = r + 1
  BY <1>1
<1>4. s[1] \in Solid(a, b) /\ o[1] \in Solid(a, b)
  BY <1>1
<1>5. q \in Nat /\ r \in Nat /\ s[1] \in Nat /\ o[1] \in Nat
  BY <1>2, <1>3, <1>4, SolidInside
<1>6. s[1] <= o[1] /\ o[1] <= s[1] /\ q < o[2] /\ r < s[2]
  BY <1>4 DEF Trim
<1>7. s[1] = o[1] /\ s[2] = o[2]
  BY <1>2, <1>3, <1>5, <1>6
<1> QED
  BY <1>1, <1>7

\* Two of the intervals that are trimmed together do not overlap.
LEMMA HeadsApart == IsText(text) => Apart(HeadSpans \cup IntroSpans)
<1> SUFFICES ASSUME IsText(text), NEW s \in HeadSpans \cup IntroSpans,
                    NEW o \in HeadSpans \cup IntroSpans
             PROVE  s = o \/ s[2] <= o[1] \/ o[2] <= s[1]
  BY DEF Apart
<1>0. \A h \in text.heads \cup {text.len} : h \in Nat /\ h <= text.len
  BY TextShape
<1>1. CASE s \in HeadSpans /\ o \in HeadSpans
  <2>1. /\ s[1] \in text.heads /\ s[2] \in text.heads \cup {text.len} /\ s = <<s[1], s[2]>>
        /\ o[1] \in text.heads /\ o[2] \in text.heads \cup {text.len} /\ o = <<o[1], o[2]>>
        /\ s[1] < s[2] /\ o[1] < o[2]
        /\ \A h \in text.heads : h <= s[1] \/ s[2] <= h
        /\ \A h \in text.heads : h <= o[1] \/ o[2] <= h
    BY <1>1 DEF HeadSpans
  <2>2. CASE s[1] = o[1]
    <3>1. s[2] = o[2]
      BY <1>0, <2>1, <2>2
    <3> QED
      BY <2>1, <2>2, <3>1
  <2>3. CASE s[1] # o[1]
    BY <1>0, <2>1, <2>3
  <2> QED
    BY <2>2, <2>3
<1>2. CASE s \in IntroSpans /\ o \in HeadSpans
  BY <1>2 DEF HeadSpans, IntroSpans
<1>3. CASE s \in HeadSpans /\ o \in IntroSpans
  BY <1>3 DEF HeadSpans, IntroSpans
<1>4. CASE s \in IntroSpans /\ o \in IntroSpans
  <2>1. /\ s[1] = 0 /\ s[2] \in text.heads /\ s = <<s[1], s[2]>>
        /\ o[1] = 0 /\ o[2] \in text.heads /\ o = <<o[1], o[2]>>
        /\ s[2] <= o[2] /\ o[2] <= s[2]
    BY <1>4 DEF IntroSpans
  <2> QED
    BY <1>0, <2>1
<1> QED
  BY <1>1, <1>2, <1>3, <1>4

LEMMA ParagraphsApart == IsText(text) => Apart(ParagraphSpans)
<1> SUFFICES ASSUME IsText(text), NEW s \in ParagraphSpans, NEW o \in ParagraphSpans
             PROVE  s = o \/ s[2] <= o[1] \/ o[2] <= s[1]
  BY DEF Apart
<1>0. /\ text.len \in Nat
      /\ \A b \in text.breaks : b \in Nat /\ b < text.len
  BY TextShape
<1>1. ASSUME NEW x \in ParagraphSpans
      PROVE  /\ x = <<x[1], x[2]>> /\ x[1] \in Nat /\ x[2] \in Nat
             /\ x[1] < x[2] /\ x[2] <= text.len
             /\ x[1] = 0 \/ x[1] - 1 \in text.breaks
             /\ x[2] \in text.breaks \/ x[2] = text.len
             /\ \A b \in text.breaks : b < x[1] \/ x[2] <= b
  <2>1. /\ x \in ({0} \cup {p + 1 : p \in text.breaks}) \X (text.breaks \cup {text.len})
        /\ x[1] < x[2] /\ (x[1] .. x[2] - 1) \cap text.breaks = {}
    BY DEF ParagraphSpans
  <2>2. x = <<x[1], x[2]>> /\ (x[1] = 0 \/ \E b \in text.breaks : x[1] = b + 1)
    BY <2>1
  <2>3. x[1] \in Nat /\ (x[1] = 0 \/ x[1] - 1 \in text.breaks)
    BY <1>0, <2>2
  <2>4. x[2] \in Nat /\ x[2] <= text.len /\ (x[2] \in text.breaks \/ x[2] = text.len)
    BY <1>0, <2>1
  <2>5. ASSUME NEW b \in text.breaks PROVE b < x[1] \/ x[2] <= b
    <3>1. b \in Nat /\ b \notin x[1] .. x[2] - 1
      BY <1>0, <2>1
    <3> QED
      BY <2>3, <2>4, <3>1
  <2> QED
    BY <2>1, <2>2, <2>3, <2>4, <2>5
<1>2. CASE s[1] = o[1]
  <2>1. s[2] = o[2]
    BY <1>0, <1>1, <1>2
  <2> QED
    BY <1>1, <1>2, <2>1
<1>3. CASE s[1] < o[1]
  <2>1. o[1] - 1 \in text.breaks
    BY <1>1, <1>3
  <2>2. s[2] <= o[1] - 1
    BY <1>0, <1>1, <1>3, <2>1
  <2> QED
    BY <1>1, <2>2
<1>4. CASE o[1] < s[1]
  <2>1. s[1] - 1 \in text.breaks
    BY <1>1, <1>4
  <2>2. o[2] <= s[1] - 1
    BY <1>0, <1>1, <1>4, <2>1
  <2> QED
    BY <1>1, <2>2
<1> QED
  BY <1>1, <1>2, <1>3, <1>4

LEMMA TrimsApart ==
  ASSUME IsText(text), NEW spans \in SUBSET (HeadSpans \cup IntroSpans \cup ParagraphSpans),
         Apart(spans)
  PROVE  Apart(Trims(spans))
<1> SUFFICES ASSUME NEW s \in Trims(spans), NEW o \in Trims(spans)
             PROVE  s = o \/ s[2] <= o[1] \/ o[2] <= s[1]
  BY DEF Apart
<1>1. PICK x \in spans : s \in Trim(x[1], x[2])
  BY DEF Trims
<1>2. PICK y \in spans : o \in Trim(y[1], y[2])
  BY DEF Trims
<1>3. x[1] \in Nat /\ x[2] \in Nat /\ y[1] \in Nat /\ y[2] \in Nat
  BY SpansInText
<1>4. /\ s \in Int \X Int /\ x[1] <= s[1] /\ s[2] <= x[2]
      /\ o \in Int \X Int /\ y[1] <= o[1] /\ o[2] <= y[2]
  BY <1>1, <1>2, <1>3, TrimWithin
<1>5. CASE x = y
  BY <1>1, <1>2, <1>3, <1>5, TrimUnique
<1>6. CASE x # y
  <2>1. x[2] <= y[1] \/ y[2] <= x[1]
    BY <1>6 DEF Apart
  <2> QED
    BY <1>3, <1>4, <2>1
<1> QED
  BY <1>5, <1>6

\* The sections of a text do not overlap.
LEMMA SectionsApart == IsText(text) => Apart(Sections)
<1> SUFFICES ASSUME IsText(text) PROVE Apart(Sections)
  OBVIOUS
<1>1. Apart(Trims(HeadSpans \cup IntroSpans))
  BY HeadsApart, TrimsApart
<1>2. Apart(Trims(ParagraphSpans))
  BY ParagraphsApart, TrimsApart
<1>3. Apart({<<0, text.len>>})
  BY DEF Apart
<1> QED
  BY <1>1, <1>2, <1>3 DEF Sections

-----------------------------------------------------------------------------
(* Chunking: the fixed-size loop.                                           *)

\* What the loop finds when it begins a round.
LoopOK == IsText(text) /\ piece \in Int \X Int /\ start \in Int /\ Within(piece) /\ In(start, piece)

LEMMA LoopNumbers ==
  ASSUME LoopOK
  PROVE  /\ start \in Int /\ piece[1] \in Int /\ piece[2] \in Int /\ text.len \in Nat
         /\ 0 <= piece[1] /\ piece[1] <= start /\ start < piece[2] /\ piece[2] <= text.len
  BY TextShape DEF LoopOK, Within, In

\* A round's chunk has a character and ends in the piece, and if it ends
\* before the piece does it is longer than the overlap.
LEMMA EndOfChunk ==
  ASSUME LoopOK, NEW e \in Int, EndsAt(e)
  PROVE  /\ start < e /\ e <= piece[2] /\ e <= start + Size + Ahead
         /\ e < piece[2] => start < Following(e)
<1> DEFINE end == IF start + Size < piece[2] THEN start + Size ELSE piece[2]
<1>1. /\ end \in Int /\ start < end /\ end <= piece[2] /\ end <= start + Size
      /\ end # piece[2] => end = start + Size
  BY LoopNumbers, Constants
<1>2. CASE end = piece[2] \/ Window(end) = {}
  <2>1. e = end
    BY <1>2 DEF EndsAt
  <2>2. e < piece[2] => e = start + Size
    BY <1>1, <2>1
  <2> QED
    BY <1>1, <2>1, <2>2, LoopNumbers, Constants DEF Following
<1>3. CASE end # piece[2] /\ Window(end) # {}
  <2>1. e - 1 \in Window(end)
    BY <1>3 DEF EndsAt
  <2>2. end = start + Size
    BY <1>1, <1>3
  <2> DEFINE p == e - 1
  <2>3. /\ p \in Nat /\ start <= p /\ end - Back <= p
        /\ p + 1 < end + Ahead /\ p + 1 < piece[2]
    BY <2>1, LoopNumbers DEF Window, LoopOK, IsText
  <2>4. e \in Int /\ e = p + 1
    BY <2>3
  <2> QED
    BY <2>2, <2>3, <2>4, LoopNumbers, Constants DEF Following
<1> QED
  BY <1>2, <1>3

\* Every round finds an end for its chunk.
LEMMA SomeEnd ==
  ASSUME LoopOK
  PROVE  \E e \in start .. start + Size + Ahead : EndsAt(e)
<1> DEFINE end == IF start + Size < piece[2] THEN start + Size ELSE piece[2]
<1>1. end \in start .. start + Size + Ahead
  BY LoopNumbers, Constants
<1>2. CASE end = piece[2] \/ Window(end) = {}
  <2>1. EndsAt(end)
    BY <1>2 DEF EndsAt
  <2> QED
    BY <1>1, <2>1
<1>3. CASE end # piece[2] /\ Window(end) # {}
  <2>1. Window(end) \in SUBSET Nat
    BY LoopNumbers DEF Window, LoopOK, IsText
  <2>2. PICK p \in Window(end) : \A x \in Window(end) : p <= x
    BY <1>3, <2>1, LeastElement
  <2>3. p \in Int /\ start <= p /\ p + 1 < end + Ahead
    BY <2>1, <2>2 DEF Window
  <2>4. p + 1 \in start .. start + Size + Ahead
    BY <2>3, LoopNumbers, Constants
  <2>5. EndsAt(p + 1)
    <3>1. (p + 1) - 1 = p
      BY <2>3
    <3> QED
      BY <1>3, <2>2, <3>1 DEF EndsAt
  <2> QED
    BY <2>4, <2>5
<1> QED
  BY <1>2, <1>3

-----------------------------------------------------------------------------
(* Chunking: the inductive invariant.                                       *)

ChunkRecord == [from : Int, to : Int, by : {"whole", "llm", "fixed"}]

LEMMA ChunkInitInductive == ChunkInit => ChunkIInv
<1> SUFFICES ASSUME ChunkInit PROVE ChunkIInv
  OBVIOUS
<1>1. IsText(text) /\ text.len \in Nat
  BY ChunkingAssumption, TextShape DEF ChunkInit
<1>2. ChunkTypeOK
  BY <1>1 DEF ChunkInit, ChunkTypeOK
<1>3. PlaceOK /\ ChunksFit /\ OrderOK /\ InOrder /\ \A s \in todo : Within(s)
  BY DEF ChunkInit, PlaceOK, ChunksFit, OrderOK, InOrder, Apart
<1>4. CoverOK
  <2>1. \A p \in Solid(0, text.len) : In(p, piece)
    BY <1>1, SolidInside DEF ChunkInit, In
  <2> QED
    BY <2>1 DEF CoverOK, ToCome, ChunkInit
<1> QED
  BY <1>2, <1>3, <1>4 DEF ChunkIInv

\* A piece is kept as one chunk: the chunk fits if the piece has a character
\* and is small unless the LLM made it, and comes after those before it.  If the
\* LLM made it, it has answered for the piece.
LEMMA KeepStep ==
  ASSUME ChunkTypeOK, ChunksFit, InOrder, UNCHANGED text, NEW s \in Int \X Int,
         NEW how \in {"whole", "llm", "fixed"}, Keep(s, how),
         0 <= s[1], s[2] <= text.len, s[1] < s[2] \/ text.len = 0,
         how # "llm" => NoSplit(Length(s)),
         (how # "llm" /\ answered' = answered) \/ answered' = answered \cup {s},
         \A i \in 1 .. Len(chunks) : chunks[i].from < s[1] /\ chunks[i].to < s[2]
  PROVE  /\ chunks' \in Seq(ChunkRecord) /\ chunks' # <<>>
         /\ ChunksFit' /\ InOrder'
         /\ \A p : In(p, s) \/ Covered(p) => Covered(p)'
         /\ \A i \in 1 .. Len(chunks') :
              \/ i \in 1 .. Len(chunks) /\ chunks'[i] = chunks[i]
              \/ chunks'[i].from = s[1] /\ chunks'[i].to = s[2]
<1> DEFINE c == [from |-> s[1], to |-> s[2], by |-> how]
           n == Len(chunks)
<1>0. chunks' = Append(chunks, c) /\ chunks \in Seq(ChunkRecord) /\ c \in ChunkRecord
  BY DEF Keep, Chunk, ChunkTypeOK, ChunkRecord
<1>1. /\ chunks' \in Seq(ChunkRecord) /\ n \in Nat /\ Len(chunks') = n + 1
      /\ \A i \in 1 .. n : chunks'[i] = chunks[i]
      /\ chunks'[n + 1] = c
  BY <1>0
<1>2. \A i \in 1 .. n + 1 : i \in 1 .. n \/ i = n + 1
  BY <1>1
<1> DEFINE f == c.from
           t == c.to
<1>3. f = s[1] /\ t = s[2] /\ c.by = how
  OBVIOUS
<1> HIDE DEF n, c, f, t
<1>4. ChunksFit'
  <2>1. how # "llm" => Tokens(t - f) < SmallTokens
    BY <1>3 DEF NoSplit, Length
  <2>2. \A k : Tokens(k)' = Tokens(k)
    BY DEF Tokens
  <2>3. ASSUME NEW i \in 1 .. n + 1
        PROVE  /\ 0 <= chunks'[i].from /\ chunks'[i].to <= text.len
               /\ chunks'[i].from < chunks'[i].to \/ text.len = 0
               /\ chunks'[i].by # "llm" => Tokens(chunks'[i].to - chunks'[i].from) < SmallTokens
    <3>1. CASE i \in 1 .. n
      BY <1>1, <3>1 DEF ChunksFit, n
    <3>2. CASE i = n + 1
      BY <1>1, <1>3, <2>1, <3>2 DEF f, t
    <3> QED
      BY <1>2, <3>1, <3>2
  <2> QED
    BY <1>1, <2>2, <2>3 DEF ChunksFit
<1>5. InOrder'
  <2>1. ASSUME NEW i \in 1 .. n + 1, NEW j \in 1 .. n + 1, i < j
        PROVE  chunks'[i].from < chunks'[j].from /\ chunks'[i].to < chunks'[j].to
    <3>1. i \in 1 .. n
      BY <1>1, <2>1
    <3>2. CASE j \in 1 .. n
      BY <1>1, <2>1, <3>1, <3>2 DEF InOrder, n
    <3>3. CASE j = n + 1
      BY <1>1, <1>3, <3>1, <3>3 DEF n, f, t
    <3> QED
      BY <1>2, <3>2, <3>3
  <2> QED
    BY <1>1, <2>1 DEF InOrder
<1>6. \A p : In(p, s) \/ Covered(p) => Covered(p)'
  <2>1. ASSUME NEW p, In(p, s) PROVE Covered(p)'
    <3>1. CASE how # "llm"
      <4>1. n + 1 \in 1 .. Len(chunks')
        BY <1>1
      <4>2. /\ chunks'[n + 1].by # "llm"
            /\ chunks'[n + 1].from <= p /\ p < chunks'[n + 1].to
        BY <1>1, <1>3, <2>1, <3>1 DEF In, f, t
      <4> QED
        BY <4>1, <4>2 DEF Covered
    <3>2. CASE answered' = answered \cup {s}
      BY <2>1, <3>2 DEF Covered, In
    <3> QED
      BY <3>1, <3>2
  <2>2. ASSUME NEW p, Covered(p) PROVE Covered(p)'
    <3>1. CASE \E i \in 1 .. n : chunks[i].by # "llm" /\ chunks[i].from <= p /\ p < chunks[i].to
      <4>1. PICK i \in 1 .. n : chunks[i].by # "llm" /\ chunks[i].from <= p /\ p < chunks[i].to
        BY <3>1
      <4>2. i \in 1 .. Len(chunks') /\ chunks'[i] = chunks[i]
        BY <1>1, <4>1
      <4> QED
        BY <4>1, <4>2 DEF Covered
    <3>2. CASE \E o \in answered : In(p, o)
      BY <3>2 DEF Covered, In
    <3> QED
      BY <2>2, <3>1, <3>2 DEF Covered, n
  <2> QED
    BY <2>1, <2>2
<1>7. \A i \in 1 .. Len(chunks') :
        \/ i \in 1 .. Len(chunks) /\ chunks'[i] = chunks[i]
        \/ chunks'[i].from = s[1] /\ chunks'[i].to = s[2]
  BY <1>1, <1>2, <1>3 DEF n, f, t
<1>8. chunks' # <<>>
  BY <1>1
<1> QED
  BY <1>1, <1>4, <1>5, <1>6, <1>7, <1>8

\* A step loses no character if what it was still to cover is covered or still
\* to come.
LEMMA CoverKept ==
  ASSUME CoverOK, UNCHANGED text,
         \A p : Covered(p) => Covered(p)',
         \A p \in Solid(0, text.len) : ToCome(p) => ToCome(p)' \/ Covered(p)'
  PROVE  CoverOK'
<1>1. Solid(0, text.len)' = Solid(0, text.len)
  BY DEF Solid
<1> QED
  BY <1>1 DEF CoverOK

\* A step that keeps the chunks, and forgets no answer, keeps what is said of
\* them alone.
LEMMA SameChunks ==
  ASSUME ChunkIInv, UNCHANGED <<text, chunks>>, answered \subseteq answered'
  PROVE  ChunksFit' /\ InOrder' /\ \A p : Covered(p) => Covered(p)'
<1>1. \A k : Tokens(k)' = Tokens(k)
  BY DEF Tokens
<1> QED
  BY <1>1 DEF ChunkIInv, ChunksFit, InOrder, Covered, In

\* Positions are numbers.
LEMMA ChunkNumbers ==
  ASSUME ChunkTypeOK
  PROVE  /\ IsText(text) /\ text.len \in Nat /\ start \in Int
         /\ piece[1] \in Int /\ piece[2] \in Int
         /\ \A s \in todo : s \in Int \X Int /\ s[1] \in Int /\ s[2] \in Int
         /\ \A i \in 1 .. Len(chunks) : chunks[i].from \in Int /\ chunks[i].to \in Int
<1>0. chunks \in Seq(ChunkRecord)
  BY DEF ChunkTypeOK, ChunkRecord
<1>1. \A i \in 1 .. Len(chunks) : chunks[i] \in ChunkRecord
  BY <1>0
<1> QED
  BY <1>1, TextShape DEF ChunkTypeOK, ChunkRecord

LEMMA ChooseStep == ChunkIInv /\ Choose => ChunkIInv'
<1> SUFFICES ASSUME ChunkIInv, Choose PROVE ChunkIInv'
  OBVIOUS
<1> USE DEF ChunkIInv
<1>0. /\ IsText(text) /\ text.len \in Nat /\ piece = <<0, text.len>> /\ chunks = <<>>
      /\ todo = {} /\ UNCHANGED <<text, piece, start, answered>> /\ Len(chunks) = 0
  BY TextShape DEF Choose, PlaceOK, ChunkTypeOK
<1>1. CASE NoSplit(text.len) /\ Keep(piece, "whole") /\ pc' = "done" /\ UNCHANGED todo
  <2>1. /\ chunks' \in Seq(ChunkRecord) /\ chunks' # <<>>
        /\ ChunksFit' /\ InOrder'
        /\ \A p : In(p, piece) \/ Covered(p) => Covered(p)'
    BY <1>0, <1>1, KeepStep DEF Length
  <2>2. ChunkTypeOK' /\ PlaceOK' /\ OrderOK' /\ \A s \in todo' : Within(s)'
    BY <1>0, <1>1, <2>1 DEF ChunkTypeOK, ChunkRecord, PlaceOK, OrderOK, Apart
  <2>3. \A p : ToCome(p) => In(p, piece)
    BY <1>0 DEF ToCome, Choose
  <2>4. CoverOK'
    BY <1>0, <2>1, <2>3, CoverKept
  <2> QED
    BY <2>1, <2>2, <2>4
<1>2. CASE LlmSmart(text.len) /\ pc' = "llm" /\ UNCHANGED <<todo, chunks>>
  <2>1. text.len > 0
    BY <1>0, <1>2, Strategies
  <2>2. ChunkTypeOK' /\ PlaceOK' /\ OrderOK' /\ \A s \in todo' : Within(s)'
    BY <1>0, <1>2, <2>1 DEF ChunkTypeOK, PlaceOK, OrderOK, Apart, Within
  <2>3. ChunksFit' /\ InOrder' /\ \A p : Covered(p) => Covered(p)'
    BY <1>0, <1>2, SameChunks
  <2>4. \A p : ToCome(p) => ToCome(p)'
    BY <1>0, <1>2 DEF ToCome, Choose, In
  <2>5. CoverOK'
    BY <1>0, <1>2, <2>3, <2>4, CoverKept
  <2> QED
    BY <2>2, <2>3, <2>5
<1>3. CASE Hierarchical(text.len) /\ todo' = Sections /\ pc' = "next" /\ UNCHANGED chunks
  <2>1. text.len > 0
    BY <1>0, <1>3, Strategies
  <2>2. \A s \in Sections : s \in Int \X Int /\ Within(s)
    BY <1>0, <2>1, SectionsWithin
  <2>3. ChunkTypeOK' /\ PlaceOK' /\ \A s \in todo' : Within(s)'
    BY <1>0, <1>3, <2>2, SomeSection DEF ChunkTypeOK, PlaceOK, Within
  <2>4. ChunksFit' /\ InOrder' /\ \A p : Covered(p) => Covered(p)'
    BY <1>0, <1>3, SameChunks
  <2>5. OrderOK'
    BY <1>0, <1>3, SectionsApart DEF OrderOK, Apart
  <2>6. \A p \in Solid(0, text.len) : ToCome(p)'
    BY <1>0, <1>3, SectionsCover DEF ToCome, In
  <2>7. CoverOK'
    BY <1>0, <1>3, <2>4, <2>6, CoverKept
  <2> QED
    BY <2>3, <2>4, <2>5, <2>7
<1> QED
  BY <1>1, <1>2, <1>3 DEF Choose

LEMMA NextSectionStep == ChunkIInv /\ NextSection => ChunkIInv'
<1> SUFFICES ASSUME ChunkIInv, NextSection PROVE ChunkIInv'
  OBVIOUS
<1> USE DEF ChunkIInv
<1>0. PICK s \in todo :
        /\ pc = "next" /\ UNCHANGED <<text, answered>> /\ IsNext(s)
        /\ piece' = s /\ todo' = todo \ {s}
        /\ \/ NoSplit(Length(s)) /\ Keep(s, "whole") /\ UNCHANGED <<pc, start>>
           \/ LlmSmart(Length(s)) /\ pc' = "llm" /\ UNCHANGED <<start, chunks>>
           \/ Hierarchical(Length(s)) /\ pc' = "fixed" /\ start' = s[1] /\ UNCHANGED chunks
  BY DEF NextSection
<1>1. /\ IsText(text) /\ text.len \in Nat /\ s \in Int \X Int /\ Within(s)
      /\ \A o \in todo' : o \in Int \X Int /\ Within(o)'
  BY <1>0, TextShape DEF ChunkTypeOK, Within
<1>2. 0 <= s[1] /\ s[1] < s[2] /\ s[2] <= text.len /\ s[1] \in Int /\ s[2] \in Int
  BY <1>1 DEF Within
<1>3. \A p : ToCome(p) => In(p, s) \/ ToCome(p)'
  BY <1>0 DEF ToCome, In
\* The section is the first of those that are left, and behind the chunks.
<1>4. Apart(todo') /\ \A o \in todo' : s[2] <= o[1]
  <2>1. ASSUME NEW o \in todo' PROVE s[2] <= o[1]
    <3>1. o \in todo /\ o # s /\ s[1] <= o[1] /\ o[1] < o[2] /\ o[1] \in Int /\ o[2] \in Int
      BY <1>0, <1>1 DEF IsNext, Within
    <3>2. s[2] <= o[1] \/ o[2] <= s[1]
      BY <3>1 DEF OrderOK, Apart
    <3> QED
      BY <1>2, <3>1, <3>2
  <2> QED
    BY <1>0, <2>1 DEF OrderOK, Apart
<1>5. \A i \in 1 .. Len(chunks) :
        /\ chunks[i].from \in Int /\ chunks[i].to \in Int
        /\ chunks[i].to <= s[1] /\ chunks[i].from < s[1]
        /\ \A o \in todo' : chunks[i].to <= o[1]
  <2>1. ASSUME NEW i \in 1 .. Len(chunks)
        PROVE  /\ chunks[i].from \in Int /\ chunks[i].to \in Int
               /\ chunks[i].to <= s[1] /\ chunks[i].from < s[1]
    <3>1. chunks[i].from \in Int /\ chunks[i].to \in Int /\ chunks[i].to <= s[1]
      BY ChunkNumbers DEF OrderOK
    <3>2. chunks[i].from < chunks[i].to
      BY <1>1, <1>2 DEF ChunksFit
    <3> QED
      BY <1>2, <3>1, <3>2
  <2> QED
    BY <1>0, <2>1 DEF OrderOK
<1>6. CASE NoSplit(Length(s)) /\ Keep(s, "whole") /\ UNCHANGED <<pc, start>>
  <2>1. \A i \in 1 .. Len(chunks) : chunks[i].from < s[1] /\ chunks[i].to < s[2]
    BY <1>2, <1>5
  <2>2. /\ chunks' \in Seq(ChunkRecord) /\ chunks' # <<>>
        /\ ChunksFit' /\ InOrder'
        /\ \A p : In(p, s) \/ Covered(p) => Covered(p)'
        /\ \A i \in 1 .. Len(chunks') :
             \/ i \in 1 .. Len(chunks) /\ chunks'[i] = chunks[i]
             \/ chunks'[i].from = s[1] /\ chunks'[i].to = s[2]
    BY <1>0, <1>1, <1>2, <1>6, <2>1, KeepStep
  <2>3. ChunkTypeOK' /\ PlaceOK'
    BY <1>0, <1>1, <1>6, <2>2 DEF ChunkTypeOK, ChunkRecord, PlaceOK
  <2>4. OrderOK'
    <3>1. pc' = "next"
      BY <1>0, <1>6
    <3>2. ASSUME NEW i \in 1 .. Len(chunks'), NEW o \in todo' PROVE chunks'[i].to <= o[1]
      BY <1>4, <1>5, <2>2
    <3> QED
      BY <1>4, <3>1, <3>2 DEF OrderOK, Apart
  <2>5. CoverOK'
    BY <1>0, <1>3, <2>2, CoverKept
  <2> QED
    BY <1>1, <2>2, <2>3, <2>4, <2>5
<1>7. CASE LlmSmart(Length(s)) /\ pc' = "llm" /\ UNCHANGED <<start, chunks>>
  <2>1. ChunkTypeOK' /\ PlaceOK'
    BY <1>0, <1>1, <1>7 DEF ChunkTypeOK, PlaceOK, Within
  <2>2. ChunksFit' /\ InOrder' /\ \A p : Covered(p) => Covered(p)'
    BY <1>0, <1>7, SameChunks
  <2>3. OrderOK'
    BY <1>0, <1>4, <1>5, <1>7 DEF OrderOK, Apart
  <2>4. \A p : In(p, s) => ToCome(p)'
    BY <1>0, <1>7 DEF ToCome, In
  <2>5. CoverOK'
    BY <1>0, <1>3, <1>7, <2>2, <2>4, CoverKept
  <2> QED
    BY <1>1, <2>1, <2>2, <2>3, <2>5
<1>8. CASE /\ Hierarchical(Length(s)) /\ pc' = "fixed" /\ start' = s[1]
           /\ UNCHANGED chunks
  <2>1. ChunkTypeOK' /\ PlaceOK'
    BY <1>0, <1>1, <1>8 DEF ChunkTypeOK, PlaceOK, Within, In
  <2>2. ChunksFit' /\ InOrder' /\ \A p : Covered(p) => Covered(p)'
    BY <1>0, <1>8, SameChunks
  <2>3. OrderOK'
    <3>1. ASSUME NEW i \in 1 .. Len(chunks)
          PROVE  chunks[i].to <= s[1] + Overlap /\ chunks[i].to < s[2]
      <4> DEFINE t == chunks[i].to
                 a == s[1]
                 z == s[2]
      <4>1. t \in Int /\ t <= a /\ a \in Int /\ z \in Int /\ a < z
        BY <1>2, <1>5
      <4>2. Overlap \in Nat
        BY Constants
      <4> HIDE DEF t, a, z
      <4>3. t <= a + Overlap /\ t < z
        BY <4>1, <4>2
      <4> QED
        BY <4>3 DEF t, a, z
    <3> QED
      BY <1>0, <1>4, <1>5, <1>8, <3>1 DEF OrderOK, Apart
  <2>4. \A p : In(p, s) => ToCome(p)'
    BY <1>0, <1>8 DEF ToCome, In
  <2>5. CoverOK'
    BY <1>0, <1>3, <1>8, <2>2, <2>4, CoverKept
  <2> QED
    BY <1>1, <2>1, <2>2, <2>3, <2>5
<1> QED
  BY <1>0, <1>6, <1>7, <1>8

LEMMA LlmAnswersStep == ChunkIInv /\ LlmAnswers => ChunkIInv'
<1> SUFFICES ASSUME ChunkIInv, LlmAnswers PROVE ChunkIInv'
  OBVIOUS
<1> USE DEF ChunkIInv
<1>1. /\ pc = "llm" /\ pc' = "next" /\ UNCHANGED <<text, todo, piece, start>>
      /\ Keep(piece, "llm") \/ UNCHANGED chunks
      /\ answered' = answered \cup {piece} /\ piece \in Int \X Int
      /\ 0 <= piece[1] /\ piece[1] < piece[2] /\ piece[2] <= text.len
      /\ piece[1] \in Int /\ piece[2] \in Int /\ text.len \in Nat
  BY ChunkNumbers DEF LlmAnswers, PlaceOK, Within, ChunkTypeOK
<1>2. \A i \in 1 .. Len(chunks) : chunks[i].from < piece[1] /\ chunks[i].to < piece[2]
  <2>1. ASSUME NEW i \in 1 .. Len(chunks)
        PROVE  chunks[i].from < piece[1] /\ chunks[i].to < piece[2]
    <3>1. chunks[i].from \in Int /\ chunks[i].to \in Int /\ chunks[i].to <= piece[1]
      BY <1>1, ChunkNumbers DEF OrderOK
    <3>2. chunks[i].from < chunks[i].to
      BY <1>1 DEF ChunksFit
    <3> QED
      BY <1>1, <3>1, <3>2
  <2> QED
    BY <2>1
<1>3. /\ chunks' \in Seq(ChunkRecord) /\ ChunksFit' /\ InOrder'
      /\ \A p : In(p, piece) \/ Covered(p) => Covered(p)'
      /\ \A i \in 1 .. Len(chunks') :
           \/ i \in 1 .. Len(chunks) /\ chunks'[i] = chunks[i]
           \/ chunks'[i].from = piece[1] /\ chunks'[i].to = piece[2]
  <2>1. CASE Keep(piece, "llm")
    BY <1>1, <1>2, <2>1, KeepStep
  <2>2. CASE UNCHANGED chunks
    <3>1. ChunksFit' /\ InOrder' /\ \A p : Covered(p) => Covered(p)'
      BY <1>1, <2>2, SameChunks
    <3>2. \A p : In(p, piece) => Covered(p)'
      BY <1>1 DEF Covered, In
    <3>3. chunks' \in Seq(ChunkRecord)
      BY <2>2 DEF ChunkTypeOK, ChunkRecord
    <3> QED
      BY <2>2, <3>1, <3>2, <3>3
  <2> QED
    BY <1>1, <2>1, <2>2
<1>4. ChunkTypeOK' /\ PlaceOK' /\ \A s \in todo' : Within(s)'
  BY <1>1, <1>3 DEF ChunkTypeOK, ChunkRecord, PlaceOK, Within
<1>5. OrderOK'
  <2>1. ASSUME NEW i \in 1 .. Len(chunks'), NEW o \in todo PROVE chunks'[i].to <= o[1]
    BY <1>1, <1>3 DEF OrderOK
  <2> QED
    BY <1>1, <2>1 DEF OrderOK, Apart
<1>6. \A p : ToCome(p) => In(p, piece) \/ ToCome(p)'
  BY <1>1 DEF ToCome, In
<1>7. CoverOK'
  BY <1>1, <1>3, <1>6, CoverKept
<1> QED
  BY <1>3, <1>4, <1>5, <1>7

LEMMA LlmFailsStep == ChunkIInv /\ LlmFails => ChunkIInv'
<1> SUFFICES ASSUME ChunkIInv, LlmFails PROVE ChunkIInv'
  OBVIOUS
<1> USE DEF ChunkIInv
<1>1. /\ pc = "llm" /\ pc' = "fixed" /\ UNCHANGED <<text, todo, piece, chunks, answered>>
      /\ start' = piece[1] /\ piece \in Int \X Int /\ Within(piece)
      /\ piece[1] \in Int /\ piece[2] \in Int /\ text.len \in Nat
  BY ChunkNumbers DEF LlmFails, PlaceOK, ChunkTypeOK
<1>2. ChunkTypeOK' /\ PlaceOK' /\ \A s \in todo' : Within(s)'
  BY <1>1 DEF ChunkTypeOK, PlaceOK, Within, In
<1>3. ChunksFit' /\ InOrder' /\ \A p : Covered(p) => Covered(p)'
  BY <1>1, SameChunks
<1>4. OrderOK'
  <2>1. ASSUME NEW i \in 1 .. Len(chunks)
        PROVE  /\ chunks[i].from < piece[1]
               /\ chunks[i].to <= piece[1] + Overlap /\ chunks[i].to < piece[2]
    <3>1. chunks[i].from \in Int /\ chunks[i].to \in Int /\ chunks[i].to <= piece[1]
      BY <1>1, ChunkNumbers DEF OrderOK
    <3>2. piece[1] < piece[2] /\ text.len > 0
      BY <1>1 DEF Within
    <3>3. chunks[i].from < chunks[i].to
      BY <3>2 DEF ChunksFit
    <3> QED
      BY <1>1, <3>1, <3>2, <3>3, Constants
  <2> QED
    BY <1>1, <2>1 DEF OrderOK, Apart
<1>5. \A p : ToCome(p) => ToCome(p)'
  BY <1>1 DEF ToCome, In
<1>6. CoverOK'
  BY <1>1, <1>3, <1>5, CoverKept
<1> QED
  BY <1>2, <1>3, <1>4, <1>6

LEMMA FixedChunkStep ==
  ASSUME ChunkIInv, FixedChunk
  PROVE  /\ ChunkIInv'
         /\ pc' = "fixed" => start < start' /\ start' < piece[2]
<1> USE DEF ChunkIInv
<1>0. PICK e \in start .. start + Size + Ahead :
        EndsAt(e) /\ Keep(<<start, e>>, "fixed") /\ start' = Following(e)
  BY DEF FixedChunk
<1>1. /\ pc = "fixed" /\ UNCHANGED <<text, todo, piece, answered>>
      /\ pc' = IF LoopEnds(start') THEN "next" ELSE "fixed"
  BY DEF FixedChunk
<1>2. LoopOK
  BY <1>1 DEF LoopOK, PlaceOK, ChunkTypeOK
<1>3. /\ e \in Int /\ start < e /\ e <= piece[2] /\ e <= start + Size + Ahead
      /\ e < piece[2] => start < Following(e)
  <2>1. e \in Int
    BY <1>0, <1>2, LoopNumbers, Constants
  <2> QED
    BY <1>0, <1>2, <2>1, EndOfChunk
<1>4. start' = e - Overlap /\ start' \in Int
  BY <1>0, <1>3, Constants DEF Following
\* The chunk begins and ends behind those before it.
<1>5. \A i \in 1 .. Len(chunks) : chunks[i].from < start /\ chunks[i].to < e
  <2>1. ASSUME NEW i \in 1 .. Len(chunks)
        PROVE  chunks[i].from < start /\ chunks[i].to < e
    <3>1. /\ chunks[i].to \in Int /\ chunks[i].from < start
          /\ chunks[i].to <= start + Overlap /\ chunks[i].to < piece[2]
      BY <1>1, ChunkNumbers DEF OrderOK
    <3>2. e < piece[2] => start + Overlap < e
      BY <1>2, <1>3, LoopNumbers, Constants DEF Following
    <3> QED
      BY <1>2, <1>3, <3>1, <3>2, LoopNumbers, Constants
  <2> QED
    BY <2>1
<1>6. /\ chunks' \in Seq(ChunkRecord) /\ chunks' # <<>>
      /\ ChunksFit' /\ InOrder'
      /\ \A p : In(p, <<start, e>>) \/ Covered(p) => Covered(p)'
      /\ \A i \in 1 .. Len(chunks') :
           \/ i \in 1 .. Len(chunks) /\ chunks'[i] = chunks[i]
           \/ chunks'[i].from = start /\ chunks'[i].to = e
  <2>1. e - start \in Nat /\ e - start <= Size + Ahead
    BY <1>2, <1>3, LoopNumbers, Constants
  <2>2. NoSplit(Length(<<start, e>>))
    BY <2>1, FixedIsSmall DEF Length
  <2> DEFINE s == <<start, e>>
  <2>3. s \in Int \X Int /\ 0 <= s[1] /\ s[1] < s[2] /\ s[2] <= text.len
    BY <1>2, <1>3, LoopNumbers
  <2>4. s[1] = start /\ s[2] = e
    OBVIOUS
  <2> HIDE DEF s
  <2>5. Keep(s, "fixed") /\ NoSplit(Length(s))
    BY <1>0, <2>2 DEF s
  <2>6. \A i \in 1 .. Len(chunks) : chunks[i].from < s[1] /\ chunks[i].to < s[2]
    BY <1>5, <2>4
  <2>7. /\ chunks' \in Seq(ChunkRecord) /\ chunks' # <<>>
        /\ ChunksFit' /\ InOrder'
        /\ \A p : In(p, s) \/ Covered(p) => Covered(p)'
        /\ \A i \in 1 .. Len(chunks') :
             \/ i \in 1 .. Len(chunks) /\ chunks'[i] = chunks[i]
             \/ chunks'[i].from = s[1] /\ chunks'[i].to = s[2]
    BY <1>1, <2>3, <2>5, <2>6, KeepStep
  <2> QED
    BY <2>4, <2>7 DEF s
<1>7. ASSUME NEW i \in 1 .. Len(chunks')
      PROVE  /\ chunks'[i].to \in Int /\ chunks'[i].to <= e
             /\ chunks'[i].from <= start
             /\ \A o \in todo : chunks'[i].to <= o[1]
  <2>1. \A o \in todo : piece[2] <= o[1] /\ o[1] \in Int
    BY <1>1, ChunkNumbers DEF OrderOK
  <2>2. CASE i \in 1 .. Len(chunks) /\ chunks'[i] = chunks[i]
    <3>1. chunks[i].from \in Int /\ chunks[i].to \in Int
      BY <2>2, ChunkNumbers
    <3>2. \A o \in todo : chunks[i].to <= o[1]
      BY <2>2 DEF OrderOK
    <3> QED
      BY <1>2, <1>3, <1>5, <2>2, <3>1, <3>2, LoopNumbers
  <2>3. CASE chunks'[i].from = start /\ chunks'[i].to = e
    BY <1>2, <1>3, <2>1, <2>3, LoopNumbers
  <2> QED
    BY <1>6, <2>2, <2>3
<1>8. CASE e = piece[2]
  <2>1. pc' = "next"
    BY <1>1, <1>2, <1>4, <1>8, LoopNumbers, Constants DEF LoopEnds
  <2>2. ChunkTypeOK' /\ PlaceOK' /\ \A s \in todo' : Within(s)'
    BY <1>1, <1>4, <1>6, <2>1 DEF ChunkTypeOK, ChunkRecord, PlaceOK, Within
  <2>3. OrderOK'
    BY <1>1, <1>7, <2>1 DEF OrderOK, Apart
  <2>4. \A p : ToCome(p) => In(p, <<start, e>>) \/ ToCome(p)'
    BY <1>1, <1>8 DEF ToCome, In
  <2>5. CoverOK'
    BY <1>1, <1>6, <2>4, CoverKept
  <2> QED
    BY <1>6, <2>1, <2>2, <2>3, <2>5
<1>9. CASE e < piece[2]
  <2>1. start < start' /\ start' < piece[2] - Overlap /\ pc' = "fixed"
    BY <1>0, <1>1, <1>2, <1>3, <1>4, <1>9, LoopNumbers, Constants DEF LoopEnds
  <2>2. start' < piece[2] /\ piece[1] <= start' /\ start' <= e
    BY <1>2, <1>3, <1>4, <2>1, LoopNumbers, Constants
  <2>3. ChunkTypeOK' /\ PlaceOK' /\ \A s \in todo' : Within(s)'
    BY <1>1, <1>2, <1>4, <1>6, <2>1, <2>2
       DEF ChunkTypeOK, ChunkRecord, PlaceOK, Within, In, LoopOK
  <2>4. OrderOK'
    <3>1. ASSUME NEW i \in 1 .. Len(chunks')
          PROVE  /\ chunks'[i].from < start' /\ chunks'[i].to <= start' + Overlap
                 /\ chunks'[i].to < piece[2]
      <4>1. chunks'[i].from \in Int
        <5>1. chunks'[i] \in ChunkRecord
          BY <1>6
        <5> QED
          BY <5>1 DEF ChunkRecord
      <4> DEFINE f == chunks'[i].from
                 t == chunks'[i].to
                 z == piece[2]
      <4>2. f \in Int /\ f <= start /\ t \in Int /\ t <= e
        BY <1>7, <4>1
      <4>3. start \in Int /\ start' \in Int /\ start < start' /\ e = start' + Overlap
        BY <1>2, <1>3, <1>4, <2>1, LoopNumbers, Constants
      <4>4. e \in Int /\ z \in Int /\ e < z
        BY <1>2, <1>3, <1>9, LoopNumbers
      <4> HIDE DEF f, t, z
      <4>5. f < start' /\ t <= start' + Overlap
        BY <4>2, <4>3
      <4>6. t < z
        BY <4>2, <4>4
      <4> QED
        BY <4>5, <4>6 DEF f, t, z
    <3> QED
      BY <1>1, <1>7, <2>1, <3>1 DEF OrderOK, Apart
  <2>5. ASSUME NEW p \in Solid(0, text.len), ToCome(p)
        PROVE  In(p, <<start, e>>) \/ ToCome(p)'
    <3>1. p \in Nat
      BY <1>2, LoopNumbers, SolidInside
    <3>2. CASE \E s \in todo : In(p, s)
      BY <1>1, <3>2 DEF ToCome, In
    <3>3. CASE In(p, <<start, piece[2]>>)
      <4>1. p < e \/ start' <= p
        BY <1>3, <2>2, <1>4, <3>1
      <4> QED
        BY <1>1, <2>1, <3>3, <4>1 DEF ToCome, In
    <3> QED
      BY <1>1, <2>5, <3>2, <3>3 DEF ToCome
  <2>6. CoverOK'
    BY <1>1, <1>6, <2>5, CoverKept
  <2> QED
    BY <1>6, <2>1, <2>2, <2>3, <2>4, <2>6
<1> QED
  BY <1>2, <1>3, <1>8, <1>9, LoopNumbers

-----------------------------------------------------------------------------
(* Chunking: the theorems.                                                  *)

\* What is kept between the steps of a run: whatever the text, the thresholds
\* and the LLM's answers, the sections that are left and the piece in hand lie
\* in the text and hold all that no chunk and no answer covers yet.
THEOREM ChunkInvariance == ChunkSpec => []ChunkIInv
<1>1. ChunkIInv /\ [ChunkNext]_chunkVars => ChunkIInv'
  <2> SUFFICES ASSUME ChunkIInv, [ChunkNext]_chunkVars PROVE ChunkIInv'
    OBVIOUS
  <2>1. CASE Choose
    BY <2>1, ChooseStep
  <2>2. CASE NextSection
    BY <2>2, NextSectionStep
  <2>3. CASE LlmAnswers
    BY <2>3, LlmAnswersStep
  <2>4. CASE LlmFails
    BY <2>4, LlmFailsStep
  <2>5. CASE FixedChunk
    BY <2>5, FixedChunkStep
  <2>6. CASE Finish
    <3>1. /\ pc = "next" /\ pc' = "done" /\ todo = {}
          /\ UNCHANGED <<text, todo, piece, start, chunks, answered>>
      BY <2>6 DEF Finish
    <3>2. /\ ChunkTypeOK' /\ PlaceOK' /\ OrderOK' /\ \A s \in todo' : Within(s)'
      BY <3>1 DEF ChunkIInv, ChunkTypeOK, PlaceOK, OrderOK, Apart
    <3>3. ChunksFit' /\ InOrder' /\ \A p : Covered(p) => Covered(p)'
      BY <3>1, SameChunks
    <3>4. \A p : ~ToCome(p)
      BY <3>1 DEF ToCome
    <3>5. CoverOK'
      BY <3>1, <3>3, <3>4, CoverKept DEF ChunkIInv
    <3> QED
      BY <3>2, <3>3, <3>5 DEF ChunkIInv
  <2>7. CASE UNCHANGED chunkVars
    <3>1. UNCHANGED <<text, pc, todo, piece, start, chunks, answered>>
      BY <2>7 DEF chunkVars
    <3>2. /\ ChunkTypeOK' /\ PlaceOK' /\ OrderOK' /\ \A s \in todo' : Within(s)'
      BY <3>1 DEF ChunkIInv, ChunkTypeOK, PlaceOK, OrderOK, Apart, Within, In
    <3>3. ChunksFit' /\ InOrder' /\ \A p : Covered(p) => Covered(p)'
      BY <3>1, SameChunks
    <3>4. \A p : ToCome(p) => ToCome(p)'
      BY <3>1 DEF ToCome, In
    <3>5. CoverOK'
      BY <3>1, <3>3, <3>4, CoverKept DEF ChunkIInv
    <3> QED
      BY <3>2, <3>3, <3>5 DEF ChunkIInv
  <2> QED
    BY <2>1, <2>2, <2>3, <2>4, <2>5, <2>6, <2>7 DEF ChunkNext, Rest
<1> QED
  BY ChunkInitInductive, <1>1, PTL DEF ChunkSpec

\* Every variable of a run of ChunkingService.chunk keeps its type.
THEOREM ChunkTypesCorrect == ChunkSpec => []ChunkTypeOK
  BY ChunkInvariance, PTL DEF ChunkIInv

\* However a text is cut, by headers, paragraphs or sentences, every character
\* of it that is not white space is in a chunk when chunk() returns, or in a
\* piece that the LLM answered for; and if it was not asked, or failed, there is
\* at least one chunk.
THEOREM NothingLostCorrect == ChunkSpec => []NothingLost
<1>1. ChunkIInv => NothingLost
  BY DEF ChunkIInv, PlaceOK, CoverOK, ToCome, NothingLost
<1> QED
  BY <1>1, ChunkInvariance, PTL

\* Every chunk lies in the text and has a character, and those that the code
\* cuts itself are small.
THEOREM ChunksFitCorrect == ChunkSpec => []ChunksFit
  BY ChunkInvariance, PTL DEF ChunkIInv

\* Chunks are numbered in the order of the text, and none lies in another.
THEOREM InOrderCorrect == ChunkSpec => []InOrder
  BY ChunkInvariance, PTL DEF ChunkIInv

\* Each further round of the fixed-size loop starts behind the one before,
\* although it steps back by the overlap.
THEOREM LoopAdvancesCorrect == ChunkSpec => LoopAdvances
<1>1. ChunkIInv /\ [ChunkNext]_chunkVars
      => [pc = "fixed" /\ pc' = "fixed" => start < start']_chunkVars
  <2> SUFFICES ASSUME ChunkIInv, ChunkNext, pc = "fixed", pc' = "fixed"
               PROVE  start < start'
    OBVIOUS
  <2>1. FixedChunk
    BY DEF ChunkNext, Choose, NextSection, LlmAnswers, LlmFails, Finish, Rest
  <2> QED
    BY <2>1, FixedChunkStep
<1> QED
  BY <1>1, ChunkInvariance, PTL DEF ChunkSpec, LoopAdvances

LEMMA SomethingLeft == ChunkIInv => NeverStuck
<1> SUFFICES ASSUME ChunkIInv, pc # "done" PROVE CanStep
  BY DEF NeverStuck
<1>1. CASE pc = "choose"
  <2>1. text.len \in Nat
    BY TextShape DEF ChunkIInv, ChunkTypeOK
  <2> QED
    BY <1>1, <2>1, Strategies DEF CanStep
<1>2. CASE pc = "next"
  <2>1. CASE todo = {}
    BY <1>2, <2>1 DEF CanStep
  <2>2. CASE todo # {}
    <3> DEFINE F == {s[1] : s \in todo}
    <3>1. \A s \in todo : s \in Int \X Int /\ s[1] \in Nat /\ Length(s) \in Nat
      BY DEF ChunkIInv, ChunkTypeOK, Within, Length
    <3>2. F \in SUBSET Nat /\ F # {}
      BY <2>2, <3>1
    <3>3. PICK f \in F : \A x \in F : f <= x
      BY <3>2, LeastElement
    <3>4. PICK s \in todo : f = s[1]
      BY <3>3
    <3>5. IsNext(s)
      BY <3>3, <3>4 DEF IsNext
    <3>6. NoSplit(Length(s)) \/ LlmSmart(Length(s)) \/ Hierarchical(Length(s))
      BY <3>1, Strategies
    <3> QED
      BY <1>2, <3>5, <3>6 DEF CanStep
  <2> QED
    BY <2>1, <2>2
<1>3. CASE pc = "llm"
  BY <1>3 DEF CanStep
<1>4. CASE pc = "fixed"
  <2>1. LoopOK
    BY <1>4 DEF ChunkIInv, PlaceOK, ChunkTypeOK, LoopOK
  <2> QED
    BY <1>4, <2>1, SomeEnd DEF CanStep
<1> QED
  BY <1>1, <1>2, <1>3, <1>4 DEF ChunkIInv, ChunkTypeOK

\* Until it is done chunking finds something to do: no length is without a
\* strategy, no round without an end for its chunk.
THEOREM NeverStuckCorrect == ChunkSpec => []NeverStuck
  BY SomethingLeft, ChunkInvariance, PTL

\* Every step leaves less to do, which with NeverStuckCorrect is what Ends
\* rests on beside fairness.
THEOREM DescendsCorrect == ChunkSpec => [][Descends]_chunkVars
<1>1. ChunkIInv /\ [ChunkNext]_chunkVars => [Descends]_chunkVars
  <2> SUFFICES ASSUME ChunkIInv, ChunkNext, chunkVars' # chunkVars PROVE Descends
    OBVIOUS
  <2>1. CASE Choose
    BY <2>1 DEF Choose, Descends
  <2>2. CASE NextSection
    BY <2>2 DEF NextSection, Descends
  <2>3. CASE LlmAnswers
    BY <2>3 DEF LlmAnswers, Descends, Rank
  <2>4. CASE LlmFails
    BY <2>4 DEF LlmFails, Descends, Rank
  <2>5. CASE FixedChunk
    <3>1. CASE pc' = "fixed"
      BY <2>5, <3>1, FixedChunkStep DEF FixedChunk, Descends
    <3>2. CASE pc' # "fixed"
      BY <2>5, <3>2 DEF FixedChunk, Descends, Rank
    <3> QED
      BY <3>1, <3>2
  <2>6. CASE Finish
    BY <2>6 DEF Finish, Descends, Rank
  <2> QED
    BY <2>1, <2>2, <2>3, <2>4, <2>5, <2>6 DEF ChunkNext, Rest
<1> QED
  BY <1>1, ChunkInvariance, PTL DEF ChunkSpec

\* The sections that are left are finitely many, so that they run out.
THEOREM FiniteSections == ChunkSpec => []IsFiniteSet(todo)
<1>1. ChunkIInv => IsFiniteSet(todo)
  <2> SUFFICES ASSUME ChunkIInv PROVE IsFiniteSet(todo)
    OBVIOUS
  <2> DEFINE P == 0 .. text.len
  <2>1. text.len \in Nat
    BY TextShape DEF ChunkIInv, ChunkTypeOK
  <2>2. IsFiniteSet(P)
    BY <2>1, FS_Interval
  <2>3. IsFiniteSet(P \X P)
    BY <2>2, FS_Product
  <2>4. todo \subseteq P \X P
    <3>1. ASSUME NEW s \in todo PROVE s \in P \X P
      <4>1. s \in Int \X Int /\ Within(s)
        BY DEF ChunkIInv, ChunkTypeOK
      <4>2. s[1] \in P /\ s[2] \in P /\ s = <<s[1], s[2]>>
        BY <2>1, <4>1 DEF Within
      <4> QED
        BY <4>2
    <3> QED
      BY <3>1
  <2> QED
    BY <2>3, <2>4, FS_Subset
<1> QED
  BY <1>1, ChunkInvariance, PTL
=============================================================================
