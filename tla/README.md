# A TLA+ model of the chatbot backend

The repository is a NestJS backend that answers customers of a shop on LINE and
in the shop's own app, with a prepaid AI provider behind it. Several processes
(HTTP handlers, BullMQ workers, timers, every one of them possibly in several
copies) share a PostgreSQL database, a Redis, and two external services, LINE
and the AI provider. What is hard about it is not what one request does but what
two of them do to each other: leases that expire under a slow worker, retries of
calls that already succeeded, administrators acting in the middle, and processes
that die between two writes. The rest of the difficulty is in pure code that
decides what a customer may be told: the product search, the checks of an answer,
and the choice of the knowledge it stands on.

## Inventory

| component | code (under `src/src`) | state it keeps | operations | made correct by |
|---|---|---|---|---|
| Prepaid AI credit | `modules/usage/credit-point`, `modules/usage/billing`, `modules/admin/bill` | wallet, budgets, holds, ledger, top-ups (SQL) | reserve, settle, release, review, set limit, confirm or reject a top-up | nothing is charged twice, nothing is handed out unpaid, no limit is overrun |
| Prices | `usage/billing/ai-pricing*`, `admin/pricing` | dated price rows | quote, calculate, publish | a quote covers the charge; no overlapping dates |
| LINE ingress and turn pipeline | `modules/line/line-webhook.*`, `line-events.processor`, `events/message` | queue jobs, processed-event rows with a lease, per-user chains | receive, claim, renew, process, finish, recover | one owner at a time may persist a reply; every event ends |
| LINE delivery | `line/line-delivery.service`, `line-reply.service`, `line/admin` | delivery rows with a lease, LINE's retry keys and reply tokens | deliver, accept, finalize, recover, send as administrator, resume the bot | one message at most, in the right channel, none while muted |
| Chat context and session | `chatbot/context`, `users/session` | Redis lists and keys with TTL | append, clear, mute, ask for an administrator, resume | the staff is asked once, and asked whenever the customer is told so |
| Chat engine | `chatbot/chatbot.service`, `intent`, `answer` | none of its own | route, retrieve, answer, fall back, hand over | a form stays in its flow; every turn ends in an answer, a hand-over or silence |
| Registration | `modules/registration`, `users` | session steps, members, unique phone | ask, answer, confirm, cancel | one member per form, credentials only to its sender |
| App messages | `modules/app-message` | rooms with an active turn, messages with client ids, inbox | send, retry, persist the reply, administrator send, pause, resume, purge | one turn at a time per room, one reply per message |
| Abuse and rate limits, guest sessions | `modules/abuse`, `usage/rate-limit`, `app-message/app-abuse`, `app-session` | Redis counters, strikes, bans, texts; session rows | consume, strike, ban, authenticate, renew, revoke | every window counts and ends under concurrency; bans are earned |
| Product commands and inventory | `products/product-command.service`, `inventory.service`, `product.service` | products, variants, balances with versions, a durable command log | create, update, adjust, replay | a command takes effect once; edits build on each other; stock is accounted for |
| Product index | `products/search/product-index*` | outbox jobs with revision and lease, one vector per product | enqueue, claim, embed, complete, retry | the newest revision is the one served |
| Product search and answer | `products/search`, `products/business`, `chatbot/knowledge/product` | none of its own | plan, search, rank, check a template, compose | counts, prices and products told are exact in the snapshot read |
| Commerce turns | `modules/commerce`, `product-retrieval`, `product-answer` services | turn rows with a lease and call slots | open, claim, call, save, release, replay | a stage is decided once; a replay repeats the reply |
| Knowledge base and embeddings | `admin/knowledge`, `ai/embeding`, `chatbot/knowledge`, `chatbot/answer` | patterns, facts, vectors, a cache per process | create, edit, reindex, backfill, refresh, search, answer | an answer stands on live evidence that does not contradict itself |
| Rich menus and reply cache | `admin/richMenu`, `chatbot/menu` | template row, image files, LINE's menus, default and alias | edit cells, compose, publish, retire, remove | LINE, the files and the database agree |
| LINE channel settings | `line/channel`, `ai/*provider-settings*` | credentials, a 60 s cache per process | set, verify, invalidate, load | no stale secret is used for long |
| Administration | `admin/auth`, `admin`, `admin/company`, `admin/ai-chat`, `notification`, `analytics`, `userview` | accounts, settings, threads | log in, manage, report | access rules; reports agree with rows |
| File storage and AI providers | `infra/storage`, `ai-provider` | files | upload, sign, remove, generate | external |

Interaction: the webhook controller queues events; a worker claims an event,
passes the gates, and asks the chat engine for a reply; the engine routes the
message to a flow, a preset, the knowledge base, a product turn or the staff, and
calls the provider only through `AiBillingService`; the reply is stored as a
delivery row under the worker's lease and then delivered; delivery writes history
and context when LINE has accepted. A product turn keeps its own row so that a
retried event repeats what was decided. Catalog edits leave index jobs in their own
transaction; knowledge edits refresh a cache and the vectors. Administrators reach
into every step: they mute, send, resume, review holds, approve top-ups, edit
products, knowledge and menus. The app channel follows the same shape with a room
lock in place of the event lease.

## Modules

| module | what it is |
|---|---|
| `CreditBilling` | the wallet, budgets, holds, ledger and top-ups, with `runMetered`'s locals |
| `PrepaidAccount` | what billing promises, without holds, budgets or reviews |
| `LineDelivery` | one conversation's outgoing messages: `deliver`, `recover`, LINE, the administrator |
| `MessageOutbox` | what delivery promises: shown at most once, one outcome, told once |
| `LineDelivery_proofs` | theorems of `LineDelivery`, and that it implements `MessageOutbox` |
| `LineWebhook` | incoming events: queues, the event lease, the reply pipeline, recovery |
| `LineWebhook_proofs` | theorems of `LineWebhook` |
| `AccessGate` | the gates of both channels: limits, strikes, bans, spam, guest sessions, the AI budget |
| `Accounts_proofs` | theorems of the components that keep accounts: `CreditBilling` (it implements `PrepaidAccount`), `AccessGate`, `Catalog` |
| `AppMessage` | one guest's room: `send`, the turn, `saveReply`, administrators, the purge |
| `AppMessage_proofs` | theorems of `AppMessage` |
| `ChatRouting` | pure: how a message is routed, from its menu entry, words, session and retrieval |
| `Conversation` | `ChatbotService`, the session, registration and the hand-over, over `ChatRouting` |
| `KnowledgeRanking` | pure: matching, merging, evidence, contradictions |
| `Knowledge` | patterns and facts, their vectors and cache, administrators and a question, over `KnowledgeRanking` |
| `Chatbot_proofs` | theorems of what the chatbot says: `Conversation` with `ChatRouting`, `Knowledge` with `KnowledgeRanking` |
| `ProductTurn` | one commerce turn: lease, stages, call slots, replay |
| `ProductTurn_proofs` | theorems of `ProductTurn` |
| `CatalogSearch` | pure: fields, filters, probe, ranking, evidence: the whole of `ProductSearchService` |
| `ProductAnswer` | pure: the checks of a template and the answers composed without the model |
| `Catalog` | products and their commands, and a question planned, searched and answered over `ProductAnswer` |
| `ProductIndex` | one product's search index: edits, jobs, pollers, the vector, the search |
| `ProductIndex_proofs` | theorems of `ProductIndex` |
| `RichMenu` | one menu template, its files, and its menus on LINE |
| `RichMenu_proofs` | theorems of `RichMenu` |
| `MC*` | constants and symmetry sets of the runs |

How they are written: a database transaction, a conditional update or an awaited
call is one action, since between two of them anything may happen. What a handler
keeps in memory between two awaited calls is in a record per worker, process or
request with a program counter; what it read earlier and uses later is therefore
stale when the code's is. Rows are functions from their unique key, so a unique
constraint is the absence of a second row and the code that handles the violation
is modelled. A lease is an owner and a flag that says its time has passed; the
clock sets the flag. A slow worker, whose lease passes under it, is a fault like a
crash, and faults are counted up to a bound. Comments marked as a mutant or a
plausible bug precede definitions that no action uses: each is a bug of the
definition below it that a run would find.

The modules compose by extension where one is the pure half of another
(`ChatRouting` in `Conversation`, `KnowledgeRanking` in `Knowledge`,
`CatalogSearch` in `ProductAnswer` in `Catalog`). Where components meet through
rows they are composed by contract: a caller takes from the other module only what
its properties establish. `LineWebhook`, `AppMessage`, `ProductTurn` and
`ProductIndex` see a billed call as free, held or settled under its key, which is
what `CreditBilling` and `PrepaidAccount` show; `LineWebhook` and `AppMessage` see a
stored reply as delivered, which is `LineDelivery`; a product turn sees a search as a
status in a version of the catalog, which is `Catalog`.

### CreditBilling

| code | model |
|---|---|
| `creditWallet`, `creditBudget`, `creditReservation`, `creditLedger`, `creditTopupHistory` rows | `wallet`, `budget`, `hold`, `ledger`, `bill` |
| `runMetered`: replay, quote, reserve, call, record | `ReplaySettled`, `Quote`, `Reserve` and its refusals, `ProviderAnswers` / `ProviderFails`, `RecordSuccess` / `RecordFailure` |
| a transaction that commits although its caller sees an error | the `...Unacknowledged` and `...Fails` actions, then `MarkReservationUnknown` or `ReleaseAfterFailure` |
| `listUnresolvedReservations`, `releaseUnknownReservation` (read, then release) | `ListUnresolvedReservations`, `ReadUnknownReservation`, `ReleaseUnknownReservation` |
| budget limits, top-ups | `SetBudgetLimit`, `CreateTopup`, `ConfirmTopup`, `RejectTopup` |

Amounts are integers in millionths of a credit, the resolution the code rounds to.
Payloads are numbered by the attempt that produced them, so that two answers of
one operation are told apart. `reserve` also refuses an inactive wallet; nothing in the
source sets `active` to false, so the guard is left out. An actual charge is any member of `Charges`; the
code rejects one that does not fit (`CanRecord`), which is modelled.

### LineDelivery and MessageOutbox

One row per message, its worker's locals, the reply token, the retry keys LINE
remembers, the mute key, the conversation's status and preview, the history and
the context. `Claim`, `Check`, `ReplyAccepted/FallsBack/Rejected/Unanswered`,
`SwitchToPush`, `Mute`, `CheckAgain`, `PushAccepted/Rejected/Unanswered`,
`Accept`, `FinishAttempt`, `SaveHistory`, `AppendTurn`, `MarkFinalized` are the
awaited calls of `deliver`, `accept` and `finalize` in order. LINE is external: a
reply token works once, a push with a known retry key is answered 409 without
being shown again, and the key is forgotten after a day (`KeyForgotten`), which
the code counters with its own age check (`KeyNearsExpiry`). `resumeBot` is three
calls (`ResumeUnmutes`, `ResumeOpens`, `ResumeClears`), each of which may be the
last. One assumption on timing is in the model: between the first read of
`deliver` and its claim no other lease is both granted and lost (`ReadIsRecent`);
the code has no fence there, and the gap is two queries against a lease of
minutes.

### LineWebhook

`Receive` queues an event under a job id BullMQ may still know; `Take` gives a
waiting job to a process, which chains the jobs of a customer. `GateDrops` /
`GatePasses` is the abuse check (module `AccessGate`, here a choice), `CreateRow`
and `Claim` are `claimWebhookEvent`, `FindDelivery` to `Deliver` are
`MessageProcessorService.process`, `Finish` is `finishWebhookEvent` with the
retry job. `RenewLease`, `LeaseLapses`, `BackoffEnds`, `GiveUp` and `Recover` are
the heartbeat, the clock and the recovery timer. A sweep takes the 20 oldest rows
(`BatchSize`): `ahead` is how many older rows it would find before an event that
waits, changed by the rest of the system (`CrowdChanges`), and a `Crowded` event is
passed over. The chatbot is a choice: an
answer without the AI, or an AI call that is replayed, pending, settled, failed,
or failed and answered by the fallback text. A call's key is the event and the
prompt, the whole request as `idempotencyKey` hashes it; `LoadContext` may find
another prompt in every attempt, since turns are appended and expire and settings
are edited meanwhile. `overrun` records the events whose lease lapsed under a
live worker, for which the code promises less.

### AppMessage

A request is one attempt to send a client message. `Find` reads the row before
the lock, `Lock` / `Busy` is the conditional update of the room, `Insert` /
`Winner` the unique client message id, `FindDelivery` to `Deliver` the shared
pipeline with `AppChannelAdapter`, `Report` and `Release` the end of `send` with
its `finally`. The administrator's `SendAdminMessage` and `MuteAfterReply` are two
steps (a transaction, then a Redis write); `PauseBot`, `ResumeUnmutes`,
`ResumeOpens`, `ResumeClears` and `PurgeMessage` complete the room. The key of an AI
call is the turn and the whole request (`Prompts`): every attempt reads its own
context, so a retry may replay the answer of an earlier call or make another, which
is billed again. `overrun` and
`purged` only record history. The fence of `saveReply` and of the release is the
message id, which a retry of the same message shares with the attempt it took over
from: this is modelled as it is.

### AccessGate

A call of an endpoint is a chain of Redis and database commands, each an action:
`authenticate` with its renewal, the limits of the endpoint in their order,
`isBanned`, the spam check with its two reads and writes, the refusal with its
strike, and the ban a strike earns. `consume` is a pipeline and no transaction: it
counts (`CountCall`) and then gives the key an expiry if it has none (`Consume`), and
an outage may come in between (`ConsumeCut`). When Redis is away, `exec` resolves with
an error per command and the missing count reads as 0, so that every layer lets the call
pass uncounted; only an `exec` that rejects is decided by `failOpen`, by which the
layers of LINE and of the AI budget pass and those of the public API refuse
(`ConsumeUnavailable`, `FailOpen`). Time is a clock of ticks, and every key has the tick
at which it expires. `admitted` counts the calls that were counted and let past per
window, `cut` names the counters a broken pipeline may have left without an end, and
`offences` counts the refusals a subject had itself to answer for.
`GateAssumption` says that limits and lengths are whole numbers, as the settings'
schema does, and that finitely many calls are under way. `Mixes` bounds what meets in
one behaviour: the run has messages, the other requests of the public API, LINE, and the AI
budget apart. A request of the API that is no message shares with messages the session and
the network's ban only, and LINE and the AI budget share no key with them.

### Conversation and ChatRouting

A job is one handling of one message. `CheckMute`, `ResolveSticker`, `ReadSession`,
`Retrieve`, `ClassifyLowConfidence` and `Answer` are the awaited steps of
`handleTextMessage` and `answerText`; `ChatRouting` is `IntentRouterService` with its
stages, as a function from the message, the copy of the session and the outcome of
the search to an action. Registration follows `registration-flow.service` (the
waiting, sent and current steps with the merge of a partial form) and
`registration.service` (the unique check, the insert, the credentials).
`RequestAdmin` and `NotifyAdminRequired` are the two writes of a hand-over. A form is
three classes of content: labelled or not, a phone number, and whether the rest is
given. The public registration route (`Register`) creates members beside the chat. An
administrator's answer (`AdminReplies`) takes a conversation out of the staff's queue and
mutes the bot, `PauseBot` mutes it, and `resumeBot` unmutes it and then, in a write of its
own, opens the conversation whatever its status is (`ResumeUnmutes`, `ResumeOpens`): a
customer who waits leaves the queue unanswered. `reopened` counts both ways out.
Images and stickers come from LINE only, which is why a sticker needs no check of its
channel where a registration is offered.

### Knowledge and KnowledgeRanking

`KnowledgeRanking` is `AnswerPatternService.match`, the BM25 and cosine ranks, their
fusion, the thresholds, the selection of contexts by size, and the contradiction
check of `knowledge-retrieval.service`, over rows whose relation to the question
(score, similarity, exactness) is part of their wording. `Knowledge` has the
administrator's operations with their awaited steps (write, embed, store the vector,
refresh the cache), `reindex`, `backfill` and `health`. A backfill embeds the first
candidates up to its limit (`Candidates`, `Batch`) and reports the others as remaining;
with `force` every active pattern is a candidate. There are also the cache with its joined
refreshes and its TTL, a boot under another embedding model, and one question with
its four reads, each of which may fail. A row's `version` counts its edits, and
`since` the versions when a question (or the cached snapshot) was asked for.
A list is sorted by `Ranked`, which puts each element behind those that come before
it, and the evidence is chosen by a recursive function over the ranked list: both are
written so that they can be reasoned about. The constants' assumptions are those of
the tables: keys are unique (`RowsAssumption`); scores and priorities are natural
numbers (`WordingsAssumption`), which loses nothing since they are only compared; a
search keeps no more rows than a read brings (`CapsAssumption`, 20 of 500 in the code).
Two simplifications: a wording has one subject, where the code relates entries by an entity
or by a topic (`Related`), and a read that is cut keeps the rows first by key, where the
code keeps those updated last (`Scanned`); which rows a full read drops matters to
no property, since each speaks of reads that are not full or of the rows that were read.
`NoHiddenContradiction` speaks of stores
within `MAX_RETRIEVAL_CANDIDATES` active rows per table: beyond it a lexical search
drops rows it matched, the contradicting one perhaps among them.

### ProductTurn

An attempt is one handling of a product event. `Find`, `Open`, `Claim`, `Release`
are `CommerceTurnService`'s open and `withLease`; `Plan`, `SavePlan`, `Search`,
`SaveRetrieval` are `retrieveProduct`; `Compose`, `Answered`, `Repaired`,
`SaveResponse` are `answer`; `OpenSlot` to `StoreFails` are `call` with its billing.
A value carries the version of the catalog it was made from, so that two plans or two
retrievals of one turn differ when the catalog moved between them. `Heartbeat`,
`LeaseLapses` and `Crash` are the lease's clock and its owner's death.

### Catalog, CatalogSearch, ProductAnswer

`CatalogSearch` is `ProductSearchService` with the field, filter, option, price and
category modules it uses: probe by SKU and name, the subject of a count or a cheapest
price, lexical candidates, fused ranks, the leaders of a question about one product,
evidence rows and outcomes. `ProductAnswer` is `product-answer.policy` and
`product-answer.grounding`: which facts a question needs, which tokens a row offers,
when a template of the model is refused, and what is composed without it. `Catalog`
runs them on a catalog that two administrators edit by commands: a command has a
request id under which it runs once (`Fresh`, `Answer`, `Execute`), the versions its
form was filled from (`Filled`), and an answer that may be lost; the whole transaction
of a command is one step under the lock of its product. `WellFormed` is what the DTOs
let a form say (a patch names no revision, owner, version or balance, and a price is a
number or null), `PlansAssumption` what the schema of a plan lets through, and
`CatalogAssumption` and `PricesAssumption` what a catalog starts from. A preset may be
limited to categories (`CategoryLimits`). A text is a set of words,
with `Inside` the words that contain others. `seen` is the snapshot a search read. The
database returns the `MaxCandidates` most relevant products (60 in the code), and a list
is put in order by the place of each element (`InOrder`), which a proof can reason about.
A search looks for the first `MaxTerms` words of a question (12 in the code); since a
question is a set of words, which ones come first is any fixed choice. A plan names
products the probe finds or an earlier answer presented (`Presented`); a filter on an
option becomes that option (`WithChoices`), a plan with a stock question is grounded
(`GroundStockFilter`), and a question about products in general, or one whose planner
failed, is not searched (`WithoutSearch`). A template of the model shows any part of the
tokens it was offered (`Template`, over the `Layouts` of the run).
Simplified, without a property that could tell: a new product has one variant where the
code takes a list (`product.service.ts:138-162`); a list of options has no cap of six;
the probe reads every match instead of 21 and does not pass over aliases of one letter;
two filters of one key by `EQ` give the option both values; a lexical score joins the
values of all variants where the code keeps the last one's.

### ProductIndex

One product (active, search revision, searchable text), the company's preset, a
job row per revision and embedding model, the one vector row, the payment of each
job's embedding, and per process its build and poller. `UpdateProduct`,
`CreateVariant`, `UpdateVariant` save a searchable change and enqueue in one
transaction; edits that touch no searchable field leave all of this alone and are
left out. `ApplyPreset` takes a new revision and enqueues nothing. `FindMissing`
and `Backfill` are the two parts of `tick`'s backfill, `Claim`, `Supersede`,
`Proceed`, the embedding, `Complete` and `RecordFailure` are `process`.
`CompleteFails` is a transaction that fails, or that commits without an
acknowledgement. A document is the triple of what it is made of, so two documents
are equal exactly when their hashes are. The heartbeat keeps the payment of a
running call out of an administrator's review; what happens when it does not is
in `CreditBilling`.

### RichMenu

A request of the back office is a chain of stores, row writes and LINE calls. The
sections under `withTemplateLock` are one action. `file` and `menu` are the stored
images and LINE's menus in the order they were made, each with what it shows, so that
an image of other cells, or a menu of an older image, is told from the current one. A
rebuild reads a snapshot, composes, and swaps if the row still agrees, three rounds at
most; a publication creates a menu, uploads, sets the default and the alias, commits,
and retires the previous revision. Every call may fail or lose its acknowledgement.

## Runs

Every run explores its whole state space and expects no violation.

| run | instance | what it shows |
|---|---|---|
| `credit_billing` | 2 workers, 1 administrator, 2 operations (one started twice), 2 budgets, 1 top-up, charges 0 and 2, minimum balance 1 | the ledger explains the wallet, no floor or budget is passed, one debit per operation, every answer is paid, `PrepaidAccount` is implemented |
| `line_delivery` | an answer and an administrator's message, a handler and the sweeper, 1 attempt, 1 fault, 1 resume | a muted bot stays silent, the queue of waiting customers is left only by an answer |
| `line_recovery` | 1 answer, 2 attempts, 2 faults, 1 day that passes, 1 message of the customer, fairness | `MessageOutbox` is implemented (shown at most once, one outcome, told once); every delivery ends |
| `line_webhook` | 1 event, 2 processes, 2 prompts, 2 claims, a sweep of 1 row and up to 1 row ahead, 1 fault, fairness | exclusive claims, nothing completed unanswered, no call after the reply; every event ends that is not passed over by recovery again and again |
| `app_message` | 2 attempts at one message, 2 texts, 2 prompts, 2 faults, administrator and purge | one turn at a time, answers stand, no call after the answer |
| `product_index` | 2 pollers of one build, 2 texts, 2 presets, 2 revisions, 2 attempts, 1 fault, fairness | the search serves the current document only, a late attempt changes nothing, a revision that stays is served or its job fails |
| `access_gate` | 1 guest and its network, 1 LINE user, 2 callers, messages, other requests, events or AI calls, limits of 1 and 2, 3 calls, 2 ticks, 1 fault, 2 earlier strikes | no window counts in more calls than its limit, every window ends unless its pipeline was cut, bans follow the subject's own refusals |
| `conversation` | 2 jobs, 2 users, 2 phone numbers, 2 messages of 9 kinds, on LINE and in a preview, 1 fault | the staff is notified once per entering the queue, and asked whenever the customer was told so; a form never leaves the flow; members are sound |
| `knowledge` | 2 administrators, 3 patterns, 1 fact, 5 wordings, 3 starting stores, 2 models, caps of 2 rows, a backfill of 1 row or without a limit, 3 events | a direct answer is unambiguous, evidence is live and free of contradiction, a backfill heals what its limit covers and reports the rest |
| `product_turn` | 3 handlings of one event, 2 at a time, 4 modes, 2 versions of the catalog, 1 fault | every reply is the stored one, a stage is decided once |
| `catalog` | 3 products, 5 variants, 2 requests of 7 forms, 16 plans, 9 layouts, 2 words a search looks for, 3 evidence rows, 2 candidates, 2 selected products, 2 limits of categories, 1 fault | commands run once and build on each other; counts, prices and products told are exact |
| `rich_menu` | 2 requests, 2 sizes, 2 grids, 3 operations, 1 fault, 2 rounds | the image follows the cells, no clean-up takes a file or a menu that is named |

### Why the bounds are enough

Each hazard of `PROJECT.json` needs two parties on one row and one interruption,
and the instances have two parties, an interruption, and one more where a retry
of the retry matters (`line_recovery`, `app_message`, the third handling of
`product_turn`). Rows of different keys meet only in what they share: in
`CreditBilling` the wallet and a budget, hence two operations in two scopes, one of
which needs a limit; in `LineDelivery` the conversation, hence an answer and a note;
in `Catalog` the SKU and the name, hence three products; in `Conversation` the phone
number and the LINE account, hence two users and two numbers. The other modules
have one event, message or template because their leases and fences are per row.
Attempts are capped at two where the code has five, and lists at two or three where
it has 10 or 100: a cap matters when it is reached, and each of these is. Two
revisions in `ProductIndex` are one edit: a stale attempt and a current one. The
layouts, plans and stores that `catalog` and `knowledge` start from are named in
their MC modules with the case each is there for. Every bound is a constant in the
guard of the action it bounds (`MaxFaults`, `MaxClaims`, `MaxAttempts`, `MaxCalls`,
`MaxArrivals`, `Mixes`, `MaxMishaps`, `MaxRevision`, `MaxMessages`, `MaxResumes`, `MaxOps`, `KeyDays`);
`BatchSize`, `MaxTerms`, `MaxEvidence`, `MaxCandidates` and `Limits` are the code's own caps, small.

Deadlock is not checked: with every message handled and every bound used up the
instances have nothing left to do, and the absence of a stuck state is what the
liveness properties say. Symmetry (workers, processes, requests) is used in runs
without liveness only.

Each property is run against at least one plausible bug of the code (a dropped
fence, a missing refresh, a swapped order), written beside the definition it
replaces and marked in its comment; every one of them is found.

### Fairness

Fairness is stated in `LineWebhook`, `LineDelivery` (as `FairSpec` of its recovery
instance) and `ProductIndex`. A step of a worker that holds the processor is weakly
fair: each awaited call returns, by its timeout at the latest. The timers are too
(`Recover`, `GiveUp`, the pollers), and time (`LeaseLapses`, `BackoffEnds`,
`BecomesDue`). Taking a waiting job is strongly fair in `LineWebhook`, since a
process is free and busy in turns and the queue serves in order. Recovery is
weakly fair for an event that stays within the sweep's batch, and for no other: older
rows that no sweep removes can keep it out, so `EveryEventEnds` excepts an event that is
`Crowded` again and again. Nothing else is fair:
faults, edits, bans, messages and administrators' actions are never forced, and
faults are finitely many because a system that stops every worker forever makes no
progress. In `ProductIndex` an endlessly failing provider is allowed: the job then
reaches FAILED, which the property counts as an end. An attempt of `ProductTurn`,
`Conversation`, `Knowledge`, `Catalog` or `RichMenu` that fails is started again by
its caller (the queue of `LineWebhook`, a person), so that its liveness is the
caller's.

## Theorems

The proofs hold for every value of the constants that satisfies the named
assumptions of the module: any sets of workers, processes, events and operations,
finite or not where no assumption says otherwise, and any bounds. None relies on
fairness.

### Accounts_proofs

Of `CreditBilling`, from `SetsAssumption`, `AmountsAssumption` and `RefsAssumption`:

* `TypeCorrect`: `Spec => []TypeOK`.
* `Invariance`: `Spec => []IInv`, from which `FloorTheorem`, `BudgetTheorem`,
  `OneDebitTheorem` and `PaidRepliesTheorem` follow.
* `LedgerTheorem`: `Spec => []LedgerExplainsWallet`.
* `SettledIsFinalTheorem`: no step changes a settled hold.
* `Refinement`: `Spec => AccountSpec`, billing implements `PrepaidAccount`.

The safety properties are not inductive alone. `OneDebitPerOperation` needs that a
debit row exists only for a settled hold and that a top-up row stands for an
approved request (`TopupsApproved`); `RepliesArePaid` and the refinement need that
a hold has a payload exactly when it is settled (`SettledHasResult`) and that the
payload numbers of running calls are within range and not zero (`CallsNumbered`).
`IInv` is the conjunction. `FloorKept` is inductive over a settlement because
`WalletCoversCharge` sets the operation's own reservation aside before it compares:
the invariant then holds with whatever amount the worker remembers, even when the
hold was released and taken again meanwhile, so no lemma about whose hold it is
is needed. The proof classifies every step once (`StepKinds`: it
reserves, settles, replays, records a failure, releases, reviews (a renewed,
lapsed or unknown hold), sets a budget limit, confirms a top-up, or is quiet) and
each invariant has one case per kind.

`LedgerExplainsWallet` adds rows up, by a fold that is defined by recursion over
finite sets. The proof has its own induction: a non-empty set of numbers has a least
element (from the library's well-foundedness of `<`), hence a set of numbers that has 0
and is closed under successor has them all (`NumberInduction`), and that set takes the
place of the predicate an induction theorem would have as a parameter. With it
`Adds(f, S, g)`, "`g` sums `f` over every subset of `S`", has exactly one solution
(`SumExists`, `AddsAgree`), a sum does not depend on the element it begins with
(`AddsOne`), and the folds of the property are such sums (`AmountTotal`, `DebitTotal`,
`UsedTotal`). `LedgerInv` is then kept because a row is new when it is written: a debit
by `OneDebitPerOperation`'s invariant, a top-up's by `TopupsApproved`. The scopes are
assumed to be finitely many (company, user, tool rows), as a sum over them is meant.

Of `AccessGate`, from `GateAssumption`:

* `GateInvariance`: `GateSpec => []GateInv`.
* `WindowsTheorem`, `BansTheorem`: the two properties of the `access_gate` run.

No window's limit is inductive by itself: calls of several customers count at once.
`Counted` says that a window has counted at least what it let past and let past no
more than its limit, which holds when a count is lost with its window too, since both
start again together. That a window ends needs the pipeline: a counter without an end is
one that a caller between its two commands is about to close, or one in `cut`. Both are
about the calls that Redis counted; those an outage lets past are counted nowhere (Known
limits). `BansAreEarned` is about strikes that are still
on their way: a refusal is an offence at once and becomes a strike later, concurrently
with others, so `Earned` bounds the strikes together with the number of callers that
are about to add one (`Striking`, hence finitely many callers; `StrikesOne`, `EndsOne`
and `MovesOne` say how a step of one caller changes that number), and `Due` that a caller about to
ban read a count of three or more. `Known` ties a caller's step to the key it
will use.

Of `Catalog`, from `FormsAssumption` and `CatalogAssumption`:

* `CatalogInvariance`: `CatalogSpec => []CatalogInv`.
* `CommandsTheorem`, `EditsTheorem`: the two properties of the administrators in the
  `catalog` run.

and, from `SearchAssumption`, `PricesAssumption` and `PlansAssumption` as well:

* `SearchInvariance`: `CatalogSpec => []SearchInv`.
* `PickedTheorem`: `NothingIsPickedSilently`, that a question about one product is
  answered with one only if no other fits as well.

`Sound` says what every command leaves: variants belong to products that exist, a
product on sale has an active variant, and a variant has at most one balance, which is
the sum of its movements. It is proved once for any command that changes at most one
product and one variant of it (`KeepsSound`), and each of the five commands is such
(`AllowedKeeps`). It needs that a variant that has an owner keeps it and that a
variant without one has no balance: otherwise a creation could overwrite a stock.
`EditsBuildOnEachOther` compares the versions two forms were filled from; what makes it
inductive is `BuiltUpon`, that an edit that ran started from a revision the product has
left behind, so that the next edit to run, which starts from the present one, is not
its equal; the same for the balance, by its own version. `Commanded` is the same for a request that is sent again: its answer is
known from the command log and not from the catalog, which may have moved.

`PickedTheorem` is about one search, a function of the plan, the vector hits and a
snapshot, and about the turn around it. For the search: a list in the order of a strict
order has each element at its place (`Places`, a counting argument; `ListOfPlaces`), so
a ranking keeps every candidate whose identity the question hits (`RankedFacts`);
what is left of several keeps each product that satisfies the plan and matches every
word of the subject (`LeadersFacts`); so when one is left and two would match, they are
the same one (`CandidatesFacts`, `ReadFacts`). This needs that every match is a
candidate (`LexicalFacts`), hence the limit in the property. For the turn: `WasRead`
ties what was found to the kept snapshot, whatever administrators did since, and
`NamesItsRows` ties every name an answer tells to the rows found, whichever template the
model proposed. `Priced`, that a variant has at most one price, is needed because the
search asks for some price within the bounds and the property for all.

### LineWebhook_proofs

From `SetsAssumption` (there is an event and a prompt) and `BoundsAssumption`:

* `TypeCorrect`: `Spec => []TypeOK`.
* `ClaimsExcludeAlways`, `CompletedIsAnsweredAlways`, `NoCallAfterReplyAlways`: the
  three safety properties of the `line_webhook` run.

`ClaimsExclude` speaks of program counters, and a claim is a row: it is inductive
with `HoldersOwn`, a worker past its claim owns an unexpired row unless the event is
in `overrun`. Two such workers would own one row, whose owner is one.
`NoCallAfterReply` needs `AskedIsUnanswered` (a worker that found no delivery has
none to find until it or an overrun stores one), which in turn uses `HoldersOwn`:
whoever else could store the reply would own the same row. `CompletedIsAnswered`
needs `SavedSoFar`, that each program counter implies the writes that come before it.
`IInv` is the conjunction with `TypeOK`; the lemma `OthersKeep` says what a step of
one worker leaves to the others, so that each action is examined for its own worker
only.

### LineDelivery_proofs

From `SetsAssumption` (there is a message, and nobody is not a worker) and
`BoundsAssumption`:

* `TypeCorrect`: `Spec => []TypeOK`.
* `MutedAnswersStayUnsentAlways`, `OnlyAnswersLeaveQueueAlways`: the two properties of
  the `line_delivery` run.
* `DeliverImplementsOutbox`: `Spec => OutboxSpec`, so that a message is shown at most
  once and its outcome told once, for any number of workers, messages, retries, lapsed
  leases and faults.

That a message is shown once rests on an argument the code does not state in one
place. A row may be sent by its token only while its method is REPLY, and it never
returns to that method. The worker that finds such a row waiting is the only one to
hold it so (`FirstIsAlone`): every later claim finds it SENDING, read that it was being
replied to, and gives it up (`LatersFail`). That needs what a worker read before its
claim to be still true at its claim (`SeenStands`), which is where the assumption that
a worker claims within a lease of its read comes in (`ReadIsRecent`). Whoever spent
the token does not push (`RepliersStop`), a push is under way only while LINE remembers its key
(`PushesRemembered`), and LINE shows a message by its token or by its key
(`ShownOnce`). A worker that records ACCEPTED was answered so (`AcceptsShown`), and the
fence of its write makes that the only telling. `QuietIsMuted` is the same for the
mute. `IInv` is the conjunction with `TypeOK`. The lemmas `LocalStep`, `RowStep`,
`WriteStep` and `OutsideStep` say what a step must leave alone (`Undisturbed`,
`Follows`, `Ages`) so that each action is examined for its own worker and row only.

### AppMessage_proofs

From `SetsAssumption` (there is a message and a text, and nobody is not an attempt) and
`BoundsAssumption`:

* `TypeCorrect`: `Spec => []TypeOK`.
* `OneTurnAtATimeAlways`, `AnswersStandAlways`, `NoCallAfterAnswerAlways`: the three
  properties of the `app_message` run.

The lock names an inbound row and not an attempt, and a retry works under the id of the
row it found: that two attempts hold the same lock is therefore not absurd in itself.
`Alone` says that they do not, `Holding` that an attempt in a turn has the lock, unless
its row is in `overrun`; both hold because `send` refuses a room that is busy even with
the same message (`RoomFree`), and because `finally` frees the room only under its own
id, which by `Alone` nobody else in a turn has. `Borrowed` and `RowInv` say where ids come
from: an id that somebody works under is that of an attempt past its insert (`Fresh`), for
the same message, so that an insert never meets its own id in another's hands.
`Unanswered` (an attempt on its way to a reply has none stored) then gives
`NoCallAfterAnswer`; with `ToldStands` it also gives `AnswersStand`: `saveReply` cannot
close as NO_REPLY a row whose answer somebody was told, since that row has a reply.
`IInv` is their conjunction with `TypeOK`. `LocalStep`, `TurnStep` and `EndKeeps` say what a
step of one attempt leaves to the others, so that only the actions that write the lock or
the rows are examined for all attempts.

### ProductTurn_proofs

From `BoundsAssumption` and `NoneAssumption` (the missing value is not an attempt, a
plan, a retrieval or a response):

* `TypeCorrect`: `Spec => []TypeOK`.
* `RepliesAgreeAlways`, `StagesStandAlways`: the two properties of the `product_turn`
  run.

A stage stands because its writer has the lease and read, under that lease, that the
stage was open; nobody else can write it until the lease passes on. That is
`OwnersDecide`, which also says that the owner of the row is past its claim: an owner
that throws gives the lease back, and one that dies leaves it to nobody. It is where a
slow attempt is told from a current one, since a lapsed lease changes no owner and
every write is fenced by the owner and not by the time. `ReturnsAgree` (an attempt
about to return has the turn's response) then holds because a response, once there,
stays. `PointsAgree` ties each program counter to the stage it works for and to the
values it has. `IInv` is the conjunction with `TypeOK`. A step is examined for its own
attempt (`PointStep`, `OwnerStep`, `ReturnStep`); what it does to the others is one
lemma (`TurnSteps`).

### ProductIndex_proofs

From `SetsAssumption` (there is a build, a content and a preset, and nobody is not a
process) and `BoundsAssumption`:

* `TypeCorrect`: `Spec => []TypeOK`.
* `SearchServesABuild`: what the search serves was embedded from the product as it is
  now, in the wording of some build of the searched model.
  With one build, as in the run, that is `SearchedIsCurrent`, which is model-checked
  only: nothing in the code keeps two builds from wording a document differently under
  one model's name, and the vector of the other wording is then served (see Known limits).
* `NoLateAttemptUnserves`: `NewestStaysServed`.
* `OneCallPerJob`, `PaymentsStandAlways`: the embedding of a job and model is not under
  way twice, and what was paid for stays paid.

`VectorCurrent` carries `SearchServesABuild` and `NoLateAttemptUnserves`: the vector is of no revision to come, and at
the product's own revision it is of what the product is now. An edit keeps it because
it takes a new revision in the transaction that changes the product
(`EditsOvertakeTheVector`); a completion keeps it because `Complete` compares the
revision and the document under the product's row and writes nothing otherwise
(`CompletionsAreCurrent`). `CallsPaid` says that an embedding under way is paid for by
a hold of its own. `IInv` is the conjunction with `TypeOK`.

### Chatbot_proofs

Of `Conversation`, from `MessagesAssumption` (what a message can be), `JobsAssumption` (finitely many
handlings, since notices are counted) and `ChannelsAssumption`:

* `TypeCorrect`: `Spec => []TypeOK`.
* `StaffToldOnce`, `FormsConfined`, `MembersAreSound`, `StaffIsAskedAlways`: the four
  properties of the `conversation` run.

Routing is pure, and its lemmas come first: `GateRoutes`, `RetrievalRoutes` and
`ClassifierRoutes` say which actions a message, a session copy and a search can lead
to, in particular that the copy of a customer in the flow routes a form to the
registration and nowhere else. `Sane` says what a handling holds at each point: a
message of a customer, data that passed the validator once it is past the check, and
no form outside its flow; `Advanced` says the same of the stored session, which
another handling may have written. `Asked` gives `StaffIsAsked`: a handling that
writes the notice has a customer who waits, or whom an administrator took out of the
queue since it began. `Created`
(credentials about to be told are those of a member) and the unique insert give
`RegistrationsAreSound`. `OneNoticePerRequest` counts the handlings that are about to
notify (`NoticesStand`, `QuietTelling`): only the update that set the status starts
one, and a second such update needs the conversation to have been taken out of the queue.
The steps that write none of this are proved so once (`QuietSteps`), so that each
invariant is examined for the few steps that do.

Of `Knowledge`, from its assumptions:

* `KnowledgeInvariance`: `KnowledgeSpec => []KnowledgeInv`.
* `DirectTheorem`, `EvidenceTheorem`, `ContradictionTheorem`: the three invariants of the
  `knowledge` run.
* `HealingInvariance` and `BackfillTheorem`: `KnowledgeSpec => BackfillHeals`.

The operators come first. `Places` shows that under an order that is irreflexive,
transitive and total on a finite set every place from 1 on is taken once, so that
`Ranked` lists each element once (`ListOfPlaces`); for the fused ranks the order
compares fractions, and `Fractions` is its transitivity. On these stand what a read of a
table brings (`ScannedFacts`), what matches (`MatchesFacts`), that a merged row keeps its
key, wording and version (`MergeFacts`, `RankFacts`), that what is selected was ranked
(`SelectFacts`), and that what is selected is related to nothing ranked that
contradicts it, or the answer is refused (`UnifiedFacts`). `DirectUnique` is the
argument of `findMatchesFromPatterns`: a read that is not full is the whole table, an
exact match is ranked before every other, so two competing exact answers are both seen.

The three invariants speak of an answer, and what it stands on was read in several
steps before. `Found` says of a row in hand that it was in the table at some moment after
`since`: its version is between the one of then and the present one, and while it is
still the present one the row is live and says the same. An edit keeps it, because it
takes a new version; it holds of the cache against `cacheSince` and of a refresh against
its own start (`CacheInv`), and of a question against its own (`CollectedInv`), or
against the cache's when it was answered from there. `CompleteInv` says that a
question under way, none of whose reads failed, misses none of the rows its words reach
while no version has moved; it is what a failed read would break, and why one of them
failing must refuse the answer. `ConcludedInv` follows when the reads are over.
`KnowledgeInv` is the conjunction with the types (`AdminTypeOK`, `CacheTypeOK`,
`JobType`).

`BackfillHeals` is about the last step of a loop whose earlier steps are over.
`HealingInv` carries them: every live pattern that coverage does not count as indexed is
still on the list of an undisturbed backfill or among the remaining ones it reports, and
what it is about to embed is what the row says. Another administrator's write marks the backfill as disturbed
(`DisturbingSpares`); the health report is then `ok` because `coverage` and `search`
agree on what a usable vector is (`AllCovered`).

### RichMenu_proofs

From `BoundsAssumption` (there is a largest canvas size, and a layout of one cell, which
a new template has):

* `TypeCorrect`: `Spec => []TypeOK`.
* `NamedFilesStand`, `ImageFollowsCells`, `NamedMenuStands`: the three properties of the
  `rich_menu` run.

None of the three is inductive. `NamedFilesAreStored` fails if a clean-up can hit a file
that someone else made current, so `FilesAreOwn` says that a file a request has stored
and no row names is known to that request alone, and `NamedKinds` that cells and image
are files of different kinds, so that replacing one never deletes the other.
`ImageShowsCells` needs `RebuildsCome`: an outdated image has a request that will
still compose from the row as it is (`WillShow`), either before its snapshot or with a
snapshot that still agrees. An edit keeps it because it goes on to a rebuild itself. A
swap that is refused, even in its last round, was no such request: the row had changed
under it, and whoever changed it has a rebuild of its own to come. Neither was a rebuild
that gives up on a missing file: by `NamedKinds` the cells of the
row are all stored. `NamedMenuIsLive` needs `MenusAreOwn`: a menu that a publication
created is named by no row and in no other request's copy of a row until it is
committed, and what a publication retires the row no longer names. `MenusStay` is the
one lemma every step is brought to; the steps that touch neither files nor menus are
dealt with once (`QuietSteps`, `QuietKeepsMenus`).

TLC found out first whether each inductive invariant holds on the run's instance;
that of `ProductIndex` also on one with two builds.

Model-checked only: everything under fairness (the liveness properties of
`LineWebhook`, `LineDelivery` and `ProductIndex`), which is out of the provers' reach; `SearchedIsCurrent` of `ProductIndex`, of which
`SearchServesABuild` proves what holds of several builds; and
two properties of `Catalog` about an answer, `AggregatesAreExact` and
`EveryPriceIsShown`. Those two are about what a fold over the pages of the catalog adds up and
keeps (`Aggregate`, and `FlattenSeq` over several selected products), for any number of
products: an induction over a list, whose steps the provers check and whose conclusion
for the library's fold they cannot reach.
Where a module has a `TypeOK` and no theorem, the definition
documents the shape of its state and no run checks it: its safety properties fail first
when a value is out of place.

## Known limits

What follows is behaviour of the code that the models contain and no property
forbids; most of it is a choice, some contradicts a comment or a document.

Billing. With two prices for one operation the amounts held and the holds drift
apart, because a late release uses the amount its attempt remembers
(`credit.service.ts:497`). The idempotency key hashes the whole request, so an event
handled again under another context is billed again (`ai-billing.service.ts:369`;
`line-channel.adapter.ts:114` says that re-processing an event settles the same
calls once). Hence `NoCallAfterReply` and not one charge per event. The app is alike: until its reply
is stored, a retry of a message with another context pays for another call.

LINE. A push that was shown and not acknowledged may end FAILED, because the final
status is the last attempt's (`line-delivery.service.ts:165`;
`docs/ai-chatbot-architecture.md:291` has FAILED for a definitive refusal and
UNKNOWN for the rest). The order of two messages of one customer is kept within a
process only. A sweep of the recovery takes the 20 rows that waited longest
(`line-webhook.service.ts:284-287`), and a job of a banned customer is dropped before its
claim is counted: 20 such rows are found by every sweep and keep every later event from
its recovery until the bans end. A mute that comes after the second check of a delivery
does not hold it back.

App. An administrator's reply replaces the seven days' mute of `pauseBot` by one of
ten minutes, both being one Redis key (`app-inbox.service.ts:173`). `send` decides
by a row it read before it held the room: a retry may answer a message that was
closed as NO_REPLY meanwhile (`app-message.service.ts:59`). A turn that was taken
over can still store its answer, since the fence is the message's id, and works beside its
successor: `OneTurnAtATime` excepts it (`overrun`).

Abuse. While Redis is away every limit of every channel passes uncounted, because
`exec` resolves with errors and the count that is missing reads as 0
(`rate-limit.service.ts:48`); the comment at 60-62 means public endpoints to keep their
protection then. A pipeline that is cut after its INCRBY leaves a counter without an end,
which counts on and refuses until a later call is answered in full. A guest's refusals count against the network it shares, and ban it
(`app-abuse.service.ts:108`, against the comment at 25). A strike writes a
temporary ban over a permanent one (`ban.service.ts:108`);
two strikes' bans can be written in the other order; two copies of one text that
arrive together both count as new (`spam-detector.service.ts:77`); the cap on
sessions counts and then inserts; a renewal can revive a session that just expired.

Registration and hand-over. A crash after the member was created loses its password,
and the retried form is refused as taken. A crash between the status and the notice
loses the notice. A handling that read the session before a cancellation writes the
flow back. Forms stay in Redis until the session's TTL when the flow ends early
(`registration-flow.service.ts:151`, `:157`). A LINE user may create several members
when linking is off. `resumeBot` opens the conversation whatever its status is
(`app-inbox.service.ts:193-202`, LINE alike): a customer who asked for the staff meanwhile
leaves the queue unanswered, and the next request notifies the staff again. The properties
count this as a person's decision (`reopened`).

Knowledge. A vector stored for an older wording counts as healthy until a backfill,
because health compares models and not texts (`embedding-health.service.ts:371`,
`embedding-admin.service.ts:167`); with a backfill and an edit at once, the older wording's
vector may be the one that stays. A backfill with `force` and a limit embeds the same first
rows each time (`embedding-admin.service.ts:140-142`), so that its batches never advance:
`BackfillHeals` speaks of the rows it does not report as remaining. A refresh of the
cache joins one that is under way and may have read before the edit that asks for it
(`answer-pattern-cache.service.ts:57`): the evidence is then live as of that earlier read.

Products. A product may stay out of the index after a change of the embedding model
in a rolling deployment: the poller looks for a missing job and never at the vector,
which is one per product (`product-index.service.ts:159`, against the comment at
27). A renamed field label embeds nothing again (`product-document.ts:48`) and turns
a waiting job into SUPERSEDED. A job that met a held payment ends FAILED and is not
started again after the review (`product-index.service.ts:295`). A SKU is matched by
the probe and not among the identity hits (`product-search.service.ts:57`). When more
than 60 products share a word of a question, the search keeps the most relevant and, of
equals, those with the smallest ids (`product-search.service.ts:353`): the other half of a
tie may be cut, and the product that is left is answered although a tie should stay "a
question back to the customer, never a silent pick of rank one" (462-463). TLC finds this
with two candidates when the limit is taken out of `NothingIsPickedSilently`. A list's
total counts variants whatever the plan's unit (389-392). `truncated` compares the total
with the rows kept (407), also when the total counts products, so that a count of products
that asks for prices may cut rows without saying so: `EveryPriceIsShown` excepts it. A
question of more than 12 words is searched by the first 12 (`product-terms.ts:160`,
`product-search.service.ts:315-318`), so that its count may be of more than it is about.
A template for a cheapest price may show a later row only, since it must not cover
every fact (`product-answer.grounding.ts:83-99`): the row that is told is then a true one
and not the cheapest. A SKU in the
question of an aggregate restricts the rows that are counted, and a question that names a
variant is excepted from both properties. The mark
of a failed slot is not fenced by the lease. The knowledge route of a first handling
keeps no turn, so a replay may be routed to the products.

Rich menus. A default that was set without an acknowledgement is taken for a failure
and removed again; the removal of the last cell beside a full upload clears the
fresh upload; the removal of orphans may take LINE's default after a failed commit, and the menu of a
publication that is not committed yet, which is untracked until then (the comment at
`rich-menu.service.ts:881-883` calls an untracked menu safe to delete; `NamedMenuIsLive`
excepts what orphan removal took);
a reply can be deleted while the published menu shows its button; a late commit
clears `needsRepublish` over an edit (`rich-menu.service.ts:752`).

Abstractions of `Catalog`: a text is a set of words in one language; presets have no
yes-or-no field; `reserved` stays 0, since nothing in the source writes it; the
pages of 80 and 100 products and the 21 vector hits are not cut; BM25 is a weighted overlap; the
policy half of a BOTH question is in `ProductTurn`; the repair call is part of the
choice of a template.

## Not modelled

* LINE channel settings and provider settings: forms over a row of encrypted
  credentials with a 60 second cache; a stale credential makes a call fail, which
  `LineDelivery` and `RichMenu` have as a choice.
* Prices: immutable rows looked up by date; a price is a parameter of
  `CreditBilling`.
* Administration: log-in, accounts, reports and threads of the staff's assistant are
  forms and reads over rows that other components keep.
* File storage and AI providers: input and output, whose outcomes are choices.
* Everywhere: reads, lists, paging and reports; wording, formatting and prompts;
  image transfer; statistics.

## Plan

Done: the modules above. What would add most next, in this order: the composition
of `LineWebhook` and `LineDelivery` over one event; the change of the embedding model as a
second build in the run of `ProductIndex`; the credential cache with its invalidation.
