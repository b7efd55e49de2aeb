# Synjar in TLA+

Synjar is a self-hosted knowledge base: a NestJS API over Postgres that keeps
documents in workspaces, cuts them into chunks, embeds them and answers
searches, and a React client. The modules beside this file model the parts of
both that change state when requests, background runs, listeners, failures and
crashes interleave. TLC checks them on small instances and TLAPS proves most of
what it checks for every value of the constants.

Paths below are relative to `src/apps/api/src` unless they start with `src/`
or `web/`, which is `src/apps/web/src`.

## 1. Inventory

| Part | State | Operations | Modelled by |
|---|---|---|---|
| Document pipeline (`application/document/document.service.ts`) | `Document` and `Chunk` rows, runs in memory | create, update, delete, the background `processDocument` | `DocumentPipeline` |
| Document storage and limits (same file, `workspace-limits.service.ts`, `backblaze.service.ts`) | `Document.fileUrl/fileSize`, objects in the bucket | the limit checks, upload, parse, insert, delete | `DocumentStorage` |
| E-mail queue (`application/email/email-queue.service.ts`) | array of jobs and the `processing` flag, in memory | three queueing calls, the processor loop | `EmailQueue`, `MailFifo` |
| Registration and verification (`application/auth/use-cases`, `web/features/auth`) | `User` rows, number of workspaces; what the pages show | register (cloud, self-hosted), accept-invite, resend-verification, verify-email | `Registration` |
| Password reset (same directory) | reset token, its stamp and the password of a `User` row | forgot-password, reset-password | `PasswordReset` |
| Workspaces and members (`workspace.service.ts`) | `Workspace`, `WorkspaceMember` rows | create, delete, addMember, removeMember | `WorkspaceMembership` |
| Invitations (same, `accept-invite.use-case.ts`) | `Invitation` rows | inviteMember, accept-invite, expiry | `WorkspaceMembership` |
| Workspace lookup (`application/workspace-lookup`) | `UserWorkspaceLookup` rows | listeners of `workspace.member.added/removed`, the resolution at login | `WorkspaceMembership` |
| Public links (`application/public-link`) | `PublicLink` rows; reads | create, delete, validation, public documents, public search | `PublicAccess` |
| Search (`application/search`) | none; reads | the members' search | `PublicAccess` |
| Row level security (`prisma.service.ts`, migrations) | the `app.current_user_id` setting of a transaction | `forUser`, `withoutRls` | `PublicAccess`, in part; `RlsEnforced` in `DocumentPipeline` |
| Chunking (`application/chunking`) | none | choice of a strategy, sections, the fixed-size loop | `Chunking` |
| Web session (`web/shared/api/client.ts`, `web/features/auth/model`) | tokens and their stored copy, the signed-in user, the refresh mutexes | loading, login, logout, API requests, refresh | `WebSession` |
| Login and refresh on the server (`login-user.use-case.ts`, `auth.service.ts`) | none (stateless JWTs) | issue a pair of tokens or refuse | `WebSession` |
| Processor service and domain events (`document-processor.service.ts`, `infrastructure/events`) | | nothing calls them | not modelled: dead code |
| Parsers, LLM, embeddings, SMTP, S3 | external | | steps that succeed or fail |
| Controllers, DTOs, guards, the other pages, seeds | | | not modelled: they translate or render |

### How the parts interact

* A request ends in service methods that `await` Prisma. The server is one
  event loop, so requests interleave exactly at each `await`; Postgres runs
  transactions at READ COMMITTED.
* `DocumentService.create` and `update` start `processDocument` and do not
  wait for it. Nothing keeps two runs of one document apart, and nothing
  remembers a run across a restart.
* A run asks `ChunkingService` for the chunks of a text and embeds them.
  Searches and public links read the documents and chunks it leaves, in several
  statements, while members, documents and links change.
* Registration, resend, forgot and invitations hand mails to the e-mail queue,
  which makes one attempt at each, in memory.
* An invitation makes a verified account without a verification mail;
  registration answers for its address as for any other.
* `WorkspaceService` emits events that the lookup's listener handles on
  connections of its own: addMember and removeMember emit inside their
  transaction, create after it; registration and accept-invite emit none.
* Deleting a workspace cascades in the database to members, invitations,
  lookup rows, documents, chunks and links, and touches no stored object.
* The page's API clients share one token store with `AuthProvider`; each client
  has a refresh mutex of its own, and the dashboard makes a client each time it
  is shown.

### What is hard, and what makes each part correct

| Part | Hard | Correct when |
|---|---|---|
| Pipeline | overlapping updates and runs, deletion during a run, failure of the failure's own write, crashes | search never sees stale, doubled or orphaned chunks; no document waits for ever |
| Storage | checks far from the write they protect, two stores without a common transaction | limits hold; no file is lost; leftovers have a known cause |
| E-mail queue | wake-up of a loop that may just be ending | one loop, none forgotten, order of the calls kept |
| Registration, reset | row read, hashed for 100 ms, written by id; overlapping resends | one account per address; verified, and changed, only through a mailed link in time; dead links stay dead; a success has an account behind it |
| Membership | checks before locks, events before commits, cascades | a workspace keeps an owner; nothing outlives a workspace; the lookup follows the members |
| Public links, search | link validated before an await and used after it; an empty filter means no filter; reads without a common snapshot | answers are within what the link allows, contain what it shares, and agree with themselves |
| Chunking | overlap steps backwards, thresholds at a size, an LLM that fails or answers with nothing | progress, a strategy for every size, all that the LLM has not answered for is in a chunk |
| Web session | refresh against login and logout, one mutex per client object | requests wait for one refresh and end; whom the page shows is whose tokens it holds; a logout is final |

The hazards are listed one by one, each at its line, in `PROJECT.json`. Five have
no property, because the code lets them happen and nothing in the repository says
otherwise: the cooldown binds only resends and forgot requests that do not overlap
(`resend-verification.use-case.ts:28`), the limits only uploads that do not
(`document.service.ts:78`); two events of one membership may be handled in either
order (`workspace-lookup.listener.ts:22`); a link's tags are not normalised
(`public-link.service.ts:96`); and a refresh that is answered after a logout is
applied (`web/shared/api/client.ts:120`). The properties nearby set those cases
aside by a history variable or a condition, and say that nothing else goes wrong.

## 2. Plan

In the order of importance. "Done" means modelled, checked and, but for
liveness, proved.

| | Module | Composes or implements | Run | Theorems | Status |
|---|---|---|---|---|---|
| 1 | `DocumentPipeline` | | `pipeline` | all safety properties | done |
| 2 | `EmailQueue` | implements `MailFifo` | `email_queue` | safety and the refinement | done |
| 3 | `Registration` with its pages, `PasswordReset` | | `registration`, `password_reset` | all properties | done |
| 4 | `WorkspaceMembership` | members, lookup and invitations in one | `membership` | all properties | done |
| 5 | `DocumentStorage` | | `storage` | all properties | done |
| 6 | `PublicAccess` | links, both searches and row level security, with tables that change | `public_access` | all properties | done |
| 7 | `Chunking` | | `chunking` | all safety properties, and what its end rests on | done |
| 8 | `WebSession` | store, provider, clients and the server's tokens in one | `web_session` | all safety properties | done |

What would come next: a second call in `PublicAccess`, if calls ever write;
other tabs in `WebSession`, which share `localStorage`.

Abstract specifications: `MailFifo` is a module, and `EmailQueue` is shown to
implement it. For the pipeline the abstract promise is a life cycle in which
"COMPLETED means its own chunks"; it is stated as an action property and
invariants rather than as a module, because the code keeps it only while jobs
do not overlap. `DocumentEntity` draws another life cycle, which the service
does not go by (section 3).

## 3. Modules

Every module has one state machine. `pc[q]` is where request `q` is: a label
stands for the `await` it is suspended at, so one action is one turn of the
event loop or one statement (or transaction) of the database. Definitions
called `Faulty...` are plausible bugs of their neighbour; no
specification uses them. They are there to check that a property notices.

**`DocumentPipeline`** - `status`, `content`, `failure`, `chunks` are the rows;
`text` and `reprocess` a job's own copies. `Create` / `UpdateRead`,
`UpdateWrite`, `UpdateAbort` / `DeleteFind`, `DeleteRow` are the handlers,
`Spawn` the call of `processDocument`, and `Lookup`, `Mark`, `Embed`, `Store`,
`Throw`, `RecordFailure` its stages. The update's transaction reads and then
writes, two steps at READ COMMITTED; the run's transactions lock the row first
and are one step each. The chunk rows a run inserts are one element that says
which run and which content. `contended` is a history variable: documents on
which two jobs have overlapped.

There are two life cycles. `LifeCycle` is what `document.service.ts` writes:
PENDING to PROCESSING to COMPLETED, to FAILED from either of the first two, and
back to PENDING with new content; `LifeCycleUnlessContended` holds the service
to it, and to going back exactly when the content changes. `EntityMoves` is what
`DocumentEntity` allows: it starts from PENDING or FAILED, and completes or fails
only what is PROCESSING. No code of the service calls those methods, and the two
differ: the service fails a PENDING document, where `failProcessing` throws
(`document.entity.ts:92-94`), and never goes from FAILED to PROCESSING, where
`startProcessing` may. `LifeCycle` is written as the difference.

**`EmailQueue`** - `queue`, `processing`, the `setImmediate` callbacks not yet
run (`scheduled`) and the jobs awaited (`sending`). `Queue(m)` is the push and
`processQueue`; `Immediate` and the answers of the mailer are the two ways into
the loop; `Restart` loses everything. The module could have several loops; that
it has one is proved, not built in.

**`MailFifo`** - what the in-memory queue gives its callers: `Accept`,
`Attempted`, `Restart` on a list, one attempt for each mail. It is the code's
promise, not that of ADR-2025-12-26-background-email-queue, whose three attempts
with backoff and Redis persistence the code does not have (section 6).
`EmailQueue!Fifo` maps the mail under way to the head of the list.

**`Registration`** - `users`, indexed by the request that created each; `kind`
is what a request asks for. `Register`, `Accept` (accept-invite), `Resend` and
`Verify` are the first turns of the four use cases, `Count`, `Hash`, `Create`,
`Join`, `Write`, `Mail`, `SetVerified` what follows an await. A resend for an
unknown address succeeds and does nothing; an account made by `Join` is verified
and gets no mail. The invitation's own status is `WorkspaceMembership`'s: here an
acceptance is let in or refused. `stamp` is the clock at the decision, so that
the ages of links can be spoken of. `Environments` are the values
`DEPLOYMENT_MODE` may have, "unset" among them, and `selfHosted` is what the code
makes of the one it finds. A password is strong or weak, and is looked at only
for an unknown address. `Shown` is what a page makes of an answer: to Register a
success means the page RegisterSuccess (`SaysSent`), to VerifyEmail "Email
verified!" (`SaysVerified`); no page sends a resend. What RegisterSuccess says is
not always so (section 6), so `SuccessIsBacked` states what a success
does mean: there is an account at that address, verified or with its current
link in the mail or on its way. History: `late`, the self-hosted registrations
that began beside a workspace, as long as one is there.

**`PasswordReset`** - one user row and its links; `Forgot`, `Write`, `Mail`;
`Reset`, which also refuses a weak password and an expired link, and
`SetPassword` behind the hash.

**`WorkspaceMembership`** - `role` and `lookup` on pairs of workspace and user,
`status` of invitations, `event` for what a listener has not finished. addMember
and removeMember are check, write (with the event) and commit; a written row is
locked and unseen in between. `Resolved(u)` is what a login resolves. History:
`silent` (members who came without an event), `disturbed` (memberships with two
requests at once, a failure or a crash at the wrong place), `raced` (workspaces
with overlapping removals).

**`DocumentStorage`** - one workspace; `rows`, `size`, `stored`. `CheckStorage`,
`CheckDocuments`, `Upload`, `Parse`, `Insert` are create's steps and `Find`,
`Remove`, `Drop` delete's, with a failure action where the code can fail.
A set of files is weighed by counting bytes (`Usage`), which gives a sum the
provers can reason about without recursion. History: `raced`, `abandoned`,
`torn`.

**`PublicAccess`** - the tables `member`, `doc` (with the tags as they were
entered; `TagsOf` is what `ensureTagsWithTx` makes of them) and `link`. A
record `call[c]` is a reading call: the link or the membership is looked up,
the query embedded, then documents, tags and total are read, each a statement
that sees the tables of its own moment. `edit` are the calls that create and
delete links. `bound` is whether the database's policies bind the role the
server connects as, and each statement names the user of its context (`System`
for `withoutRls`). `touched` is a history field: documents that changed since
the call read them.

**`Chunking`** - a text is its length and the positions the code looks at:
white space, sentence ends, empty lines, headers. `Choose` is the strategy for
the whole text, `NextSection` hierarchical's loop over its sections,
`FixedChunk` one round of the loop that hierarchical and the LLM strategy's
fallback share, `LlmAnswers` and `LlmFails` the LLM. `chunks` is the list that
`chunk()` returns, so a chunk's `chunkIndex` is its place in it; a chunk is the
slice of the text before its `.trim()`, by position. The LLM's list of chunks
for a piece is one element in the piece's place, or none, since the list may be
empty (`openai-llm.service.ts:69`) and is taken as it is; `answered` is a history
variable, the pieces it has answered for. What its chunks say of the piece is the
LLM's: `NothingLost` is about the rest of the text. The machine's definitions are
called `ChunkInit`, `ChunkNext`, `ChunkSpec` because one proof module extends
this module and `EmailQueue`.

**`WebSession`** - `access`, `refresh`, `storage` are the store and its copy in
`localStorage`, `user` and `doing` the provider's, `pc`, `token`, `client`,
`mutex` the API requests. A call to `/auth` is sent, served (`Serve`) and
delivered; the n-th login or refresh brings pair n. `Lapse` is the expiry of
tokens. `Send`, `Ready`, `Answered`, `Unauthorized`, `Released` and the refresh
itself are the client's hooks; `Reload` is any way the page is loaded anew.
A full `localStorage` keeps its old token (`SaveToStorage`). History: `late`
(refreshes under way across a login or logout), `crossed` (one of them has been
applied), `signedOut`.

## 4. Runs

| Run | Shows | States |
|---|---|---|
| `pipeline` | 1 document, 2 contents, 3 jobs, database faults, a crash: COMPLETED has chunks, a deleted document has none, chunks are fresh unless jobs overlapped, unfinished work is owed by someone, status follows the service's life cycle and the content, and every waiting document is finished, deleted or abandoned | 236,598 |
| `email_queue` | 4 mails, 2 restarts: no lost wake-up, and `MailFifo` with its fairness: one attempt for each mail, in order | 3,489 |
| `registration` | 2 addresses, 4 requests, clock 0..3, three values of `DEPLOYMENT_MODE`, a crash and a deletion, invited accounts among them: accounts, links and mail agree, a success has an account behind it, and no self-hosted registration that begins beside a workspace makes an account | 1,843,756 |
| `password_reset` | 5 requests, clock 0..3, a crash: which links set a password, and which are dead | 608,892 |
| `membership` | 2 workspaces, 2 people, 3 requests, faults, a crash: owners, cascades, the lookup and accepted invitations | 405,316 |
| `storage` | 4 requests, sizes 1..3, limits 2 per file, 3 bytes and 2 documents, failures, a crash: limits, lost files and leftovers | 80,527 |
| `public_access` | 1 document, 1 link, 1 reading call and 1 edit, 2 workspaces, 2 spellings of a tag, the policies bound or not: what a link or a search shows | 915,818 |
| `chunking` | every text of 7 lengths around the thresholds with up to 2 blanks, its sentence ends and empty lines and up to 2 headers, the LLM answering with chunks, with none, or failing: nothing lost but by the LLM, sizes, the order of the chunks, progress and the end | 68,444 |
| `web_session` | 2 accounts, 2 requests, 2 clients, 2 pairs of tokens, in any interleaving with expiry, reloads and failures: one session, one refresh, and every wait ends | 385,190 |

Every other run is a disagreement between the program and what the repository
says of it, each with the shortest behaviour that shows it:

| Run | The repository says | The program |
|---|---|---|
| `duplicates` | "Delete existing chunks" (`document.service.ts:352`) | two overlapping runs leave two sets of chunks in a COMPLETED document |
| `two_admins` | registration is disabled after the first user (ADR on the invitation model) | two first registrations that overlap are both admitted |
| `ownerless` | "workspace must have owner" (test review of removeMember) | two owners who remove each other leave none |

### Bounds, and why they are enough

* Requests: each hazard needs two requests that overlap, and a third that came
  before (so that a document, account or member is there) or comes after (so
  that damage shows). `registration`, `password_reset` and `storage` have one or
  two to spare; `pipeline` and `membership` have three. The safety properties
  also hold for any number, by the proofs.
* One document suffices for the pipeline and one row for the reset: no
  statement of theirs touches two. Two contents are enough to tell stale from
  fresh, two workspaces to tell a cascade from a wipe.
* `public_access` has one call because calls write nothing, and one document
  because documents meet only in the limit and the total; the proofs are for
  any number of both. The document may be tagged, verified, processed or deleted
  between any two statements, and so may its workspace (`Deletable`) and link;
  the second workspace is there for the member who must not see them.
* `chunking`: the constants of the code (4 characters to a token, 1000 and
  10000 tokens, pieces of 2048 characters with 256 of overlap, sentence ends
  from 200 before to 100 behind) are scaled to 2, 4, 6, 4, 1, 2 and 1.
  `ChunkingAssumption` lists the relations between them that matter, and the
  code's own numbers satisfy it: the overlap is less than a piece, or the loop
  would not move; a sentence that ends a piece leaves more of it than the overlap; and the longest
  piece, with the rest of its sentence, is below the small threshold. The lengths lie on both sides of each
  threshold (6 characters are the last below the small one, 7 the first at it;
  10 and 11 at the medium one), and 15 is enough for several rounds of the loop.
* `web_session`: two pairs let a session be opened and refreshed, or opened
  twice; two requests share a client or not. A third pair adds no new kind of
  step, and the proofs are for any number.
* Clock: `Cooldown = 1 < Ttl = 2 < MaxTime = 3` lets a link be too young to
  repeat, valid, and too old. Real values are minutes and hours; only their
  order matters.
* `storage`: limits so small that they are met, missed by one, and exceeded by
  racing uploads.
* Symmetry is used for requests, people, addresses and workspaces in safety
  runs, and in no run with a liveness property.

### Fairness

`Settles` (`pipeline`), `AttemptsAll` (`email_queue`), `Ends` (`chunking`),
`RequestsEnd` and `LoadingEnds` (`web_session`) depend on it.

* `FairSpec` of `DocumentPipeline`: handlers and runs that have begun are
  resumed, because their awaited calls answer (Prisma's and the OpenAI client's
  timeouts turn silence into an error, modelled as `Throw`) and the event loop
  runs what is ready. Clients owe nothing and crashes are not fair.
* `FairSpec` of `EmailQueue`: a `setImmediate` callback runs, and nodemailer's
  own connection and socket timeouts (the code sets none) end each attempt. Nobody has to queue a mail.
* `MailFifo!FairSpec` is what the above is shown to implement.
* `FairSpec` of `Chunking`: a sequential computation goes on, and the LLM's
  client answers or throws after its timeout.
* `FairSpec` of `WebSession`: the network answers or fails every call (requests
  have a timeout of 30 seconds, `web/shared/api/client.ts:151`; for the calls to
  `/auth` it is the browser's), the event loop delivers what has come, and a
  page told to go to `/login` gets there. No user has to act and no token has to expire.
  `LoadingEnds` exempts a page that is loaded again and again, which a user can
  bring about by pressing reload.

Registration, password reset, membership, storage and public access are checked
for safety only: the code promises nothing about when, except that requests end.

## 5. Proofs

For each component `X`, `XProofs` proves an inductive invariant `IInv` by `Init => IInv` and `IInv /\ [Next]_vars => IInv'`, one step or lemma
per action, and derives the properties from it; `DocumentPipelineProofs` does so
part by part (types, chunks, jobs alone, what they know). `LoopProofs` has the
two sequential loops, `EmailQueue` (with its refinement of `MailFifo`) and
`Chunking` (whose invariant is `ChunkIInv`). The only assumption is the one the
module names (`ConstantsAssumption`, `AccessAssumption`, `SessionAssumption`,
`ChunkingAssumption`), which TLC evaluates in the runs.

The invariant is defined beside the properties, and for `PublicAccess` and
`WebSession` in the proof module. Neither it nor the type
invariants that are proved (`TypeCorrect`) are repeated in the runs: the proof
covers every instance, the runs' among them. The same holds of a few properties
that are theorems only: `OneChunkSetUnlessContended` (DocumentPipeline: the chunks
of two runs stand side by side only where jobs overlapped, the other side of the
run `duplicates`), `VerifiedForGood` (Registration), `OneProcessor`
(EmailQueue), `NeverStuck` and `Descends` (Chunking) and `OneRefreshPerClient`
(WebSession: a wait always has a refresh whose call is at the server or
answered, the safety half of `RequestsEnd`).

| Module | Why the invariant must be stronger than the properties |
|---|---|
| `DocumentPipelineProofs` | `FreshUnlessContended` speaks of COMPLETED documents only; to be inductive it needs what a job that is alone on its document *knows* (`Knows`): before `Mark` the row is PENDING, before `Store` it is PROCESSING, has no chunks, and the job's copy is the row's content. The life cycle follows, and `CompletedIsSearchable`, `UnfinishedIsOwed` and `DeletedLeavesNothing` have short inductions of their own beside it. |
| `LoopProofs`, `EmailQueue` | The three configurations `AtRest`, `Starting`, `Awaiting` are the whole reachable set; the refinement's steps are cases on them. |
| `LoopProofs`, `Chunking` | `NothingLost` speaks of the end only: on the way a character is in a chunk, in a piece the LLM answered for, in a section that is left, or ahead of the loop in the piece in hand (`CoverOK`). `InOrder` needs that sections, piece and chunks lie apart and that a chunk ends no further behind the loop's position than the overlap (`OrderOK`). The lemmas below it say that the sections of a text, headers or paragraphs, are apart, not empty, and hold every character that is not white space, and bound where a sentence can end. |
| `RegistrationProofs` | Where a request is tells its kind (`KindsOK`). A row's token names the request that made it and carries that request's stamp and address (`TokensOK`), however updates interleave; a token is mailed once, to its own address (`MailsOK`); the request that verified an account keeps its evidence (`VerifiersOK`). `SuccessIsBacked` adds what each success that was answered, or is about to be, still says of the rows and the mail (`BackedOK`): every account is verified or has a link. `LateMakeNoAccount` adds that a late registration never gets past the count (`LateOK`). |
| `PasswordResetProofs` | `TokensOK` as above; what a reset found still holds of its own link when it writes (`ResetsOK`). |
| `WorkspaceMembershipProofs` | The owner behind the only removal under way is not its target (`RemovalsOK`); the lock protects what the writer saw (`LocksOK`); `Owed` says, stage by stage, what a lone request has done to the lookup row and what is still to come. |
| `DocumentStorageProofs` | The only upload under way still has the room it was promised (`RoomOK`): others can only have made more; `ProgressOK` and `DeletionsOK` say what exists at each stage. The byte-counting lemmas rest on the library's facts about cardinality. |
| `PublicAccessProofs` | The tags a call filters by are among those its link allows, and not empty if the link allows only some (`ByLink`); what it has found still satisfies its conditions but for the documents that were touched since (`StillFound`). The counts rest on the library's facts about finite sets. |
| `WebSessionProofs` | A mutex is held by a request that refreshes (`MutexOK`); a pair on its way has never been used, so that a request that is woken finds another token (`FreshOK`); a page that initializes does nothing else (`DoingOK`); a refresh that is under way and not late is for the user the page shows (`ConsistentOK`). |

Action properties (`LifeCycleCorrect`, `VerifiedForGoodCorrect`,
`DeadLinksCorrect`, `SharesCorrect`, `SharedCorrect`,
`RevokedCorrect`, `ResentCorrect`, `LoopAdvancesCorrect`, `DescendsCorrect`) and
the refinement (`FifoCorrect`) use the same invariants.

Only model-checked: `Settles`, `AttemptsAll`, `RequestsEnd`, `LoadingEnds` and
`Ends`, because liveness under fairness is beyond the provers at hand. Of `Ends`
what can be said without fairness is proved: until it is done chunking has a
step to take (`NeverStuckCorrect`), every step moves on, takes up one of the
sections left or moves the loop forward within its piece (`DescendsCorrect`),
and the sections are finitely many (`FiniteSections`).

## 6. Assumptions and abstractions

* Ids and tokens are fresh (UUIDs, 32 random bytes), so they are named after
  the request that made them.
* READ COMMITTED, Prisma's default on Postgres: a statement sees what was
  committed before it; a second writer of a row waits for the first.
* The embeddings service refuses an empty batch, so a run stores at least one
  chunk or fails: the LLM's list of chunks may be empty
  (`openai-llm.service.ts`, `parsed.chunks || []`), and it is this refusal that
  keeps such a document from being COMPLETED without chunks. It does so only when
  the text has no chunk at all: a section of a long text for which the list is
  empty is missing from a document that is COMPLETED all the same, because only
  an exception leads to the fixed-size pieces (`hierarchical.strategy.ts:35-41`).
  Nor does the code compare the LLM's chunks with the piece they are for.
* As shipped (`src/docker-compose.yml`) the API connects as the database's superuser,
  whom row level security does not bind. `PublicAccess` has both cases (`bound`).
  `DocumentPipeline` has `RlsEnforced` for the catch block of a run, which writes
  without a user context; the proofs hold for both values, the run has FALSE.
  `DocumentStorage` and the listeners of `WorkspaceMembership` also read and
  write without a context and are modelled as unbound.
* Titles, permissions, vectors and their distances, texts of mails and the
  wording of errors are left out. So is the rate limiter. Passwords are strong
  or weak.
* `WebSession` is one tab. Other tabs, the notification of a 429, ky's own
  retries, `expiresIn` and the workspace header are left out; an access token is
  refused from the moment it lapses.
* `storage` takes the database's and the store's failures as possible at every
  call; two tags of one request that are equal after normalisation make the
  insertion fail (`document.service.ts:119`) and are one of its causes.
* Properties named "Unless..." or "Unraced..." exempt requests that overlapped,
  through a history variable that is set where the overlap begins; `crossed`
  and `touched` do the same for a refresh that crosses a login or logout and for
  a document that changes while it is read. What the code does there is
  not what one would wish; the property says that nothing else can cause it.

Worth knowing, and not the subject of a property:

* Text documents pass no limit, though `checkDocumentLimit` counts them
  (`document.service.ts:76`).
* The ADR on the e-mail queue, accepted and marked as implemented, has mails
  retried three times with exponential backoff (213-215, 229, 284) and kept in
  Redis over a restart (252). The service is the in-memory queue "for MVP" of its
  own comment (`email-queue.service.ts:5`): its job catches the mailer's error and
  logs it (36-39) when the loop has already taken it off the queue (95), so a mail
  whose only attempt fails is dropped; and a restart loses what waits.
* An update compares the new content with the one it read before
  (`document.service.ts:253`), and another update with its run may come between
  that read and the write: then the content of a COMPLETED document changes and
  it stays COMPLETED, with chunks of another content and nobody at work on it
  ("should set processingStatus to PENDING when content changes",
  `document.service.spec.ts:679`). `FreshUnlessContended` and
  `LifeCycleUnlessContended` exempt exactly that.
* `DocumentEntity` refuses to fail a document that is not PROCESSING
  (`document.entity.ts:92-94`); the catch block of a run writes FAILED whatever
  the status is (`document.service.ts:398`), so a run whose lookup or first
  transaction fails takes its document from PENDING to FAILED. `LifeCycle` has
  that move and is not the entity's.
* A piece that the fixed-size loop cuts from a long run of white space is stored
  as an empty chunk, because it is trimmed after it was cut
  (`hierarchical.strategy.ts:122`). `ChunksFit` speaks of the slice.
* Two resets that both found a link before either wrote both succeed with it,
  though an ADR calls links one-time.
* A link's own tags are stored as they were given while a document's are
  normalised: a link for "Sales" shows nothing (`public-link.service.ts:96`).
  `SharedAreFound` has the condition.
* The answer of a refresh that crosses a logout sets tokens again
  (`web/shared/api/client.ts:120`): the next reload is signed in. If
  `localStorage` is full, the previous refresh token stays stored.
* `refreshTokens` (`auth.service.ts:93`) does not look at the grace period
  that login enforces for unverified accounts.
* The web app routes `/auth/verify` only (`web/App.tsx:17`), but resend-verification
  mails a link to `/verify-email` (`resend-verification.use-case.ts:52`),
  forgot-password one to `/reset-password`, and an invitation one to
  `/auth/accept-invite` (`workspace.service.ts:253`).
* RegisterSuccess says that a link was sent, and to click it, whatever the case
  was: also to an address whose account is verified, by a link long ago or by an
  invitation that never had one, within the cooldown, when the last link was sent
  by another request, and on a self-hosted instance, where none ever is. The
  server's "Please check your email" (`register-user.use-case.ts:60`) is the same
  for all of them so as not to tell who has an account. `SuccessIsBacked` is what
  remains true.
* resend-verification answers an unknown address with success, so that nobody
  learns who has an account (`resend-verification.use-case.ts:21-24`).
* Registration refuses a weak password only for an unknown address; for a known
  one it answers as it does otherwise.
* A verification token that is kept answers "verified" for ever: the early
  return of verify-email (lines 23 to 27) precedes the check of its age.
* Expiry overwrites the status of an invitation that was accepted while the
  expiring request was suspended (`accept-invite.use-case.ts:48`); no code
  reads a status that is not PENDING, so nothing follows.
* An invitation to an address that has an account can never be accepted: the
  acceptance creates the account, and `User.email` is unique.
* `SPEC-020` asks for a lookup entry for every new membership; registration and
  accept-invite write none (`silent` in the model).
* Requests that upsert the same new tags in opposite orders may deadlock in
  Postgres, which aborts one (`document.service.ts:420`).

## 7. Not modelled

* Dead code: nothing calls `DocumentProcessorService` or subscribes to the
  domain events, `PrismaDocumentRepository` and `PrismaWorkspaceRepository` have
  no caller, and neither have `withCurrentUser`, `FileValidatorService`,
  `handleEmailChanged`, `syncUserLookups` and `UserAggregate.create`;
  `InMemoryUserRepository` is for tests. The RLS middleware runs before the
  guards that would give it a user and sets nothing.
* The policies of `Workspace` and `WorkspaceMember` beyond what `PublicAccess`
  needs of them.
* External services: parsers, the LLM, embeddings, SMTP and the object store
  are steps that succeed or fail.
* Controllers, DTOs, guards, the throttler, seeds, templates, scripts and the
  pages beyond what is said above translate, render or run by hand.
