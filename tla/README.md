# Formal models of freellmapi

freellmapi is one Node.js process that offers an OpenAI-compatible endpoint and
spreads the requests over the free tiers of many providers. Everything that can
go wrong in it comes from one fact: its handlers run interleaved at every
`await`, share in-memory maps and a Postgres database with a pool of
connections, and talk to services that fail. The modules here model the parts
that carry that logic.

## The system

Paths are below `src/server/src/`.

| Component | State | Operations | Interacts with |
| --- | --- | --- | --- |
| rate-limit ledger (`services/ratelimit.ts` 1-218) | table `rate_limit_usage`, maps of the degraded mode, `lastPruneMs` | `canMakeRequest`, `canUseTokens`, `recordRequest`, `recordTokens` | called by router and handler, inside and outside of a transaction |
| cooldowns (`services/ratelimit.ts` 220-315) | table `rate_limit_cooldowns`, `cooldowns`, `cooldownHits` | `isOnCooldown`, `setCooldown`, `getNextCooldownDuration` | the same |
| chat completion handler (`routes/proxy.ts` 223-489) | locals of the request: `skipKeys`, `lastError`, `attempt`, `streamStarted` | `POST /v1/chat/completions` | router, ledger, cooldowns, providers, sticky sessions, log |
| router (`services/router.ts`) | `roundRobinIndex`, `rateLimitPenalties`; reads chain, models, keys | `routeRequest`, `recordRateLimitHit`, `recordSuccess` | ledger, cooldowns, `api_keys` |
| connections and transactions (`db/index.ts` 19-80) | the pool, one client per open transaction | `query`, `transaction` | everything that uses the database |
| sticky sessions (`routes/proxy.ts` 28-76) | `stickySessionMap` | `getStickyModel`, `setStickyModel` | handler |
| key health (`services/health.ts`, `routes/health.ts`) | `failureCount`, the timer; columns `status`, `enabled` | `checkKeyHealth`, `checkAllKeys` | providers, router, key administration |
| key administration (`routes/keys.ts`) | table `api_keys` | add, delete, toggle one, toggle a platform | health checker, router |
| encryption (`lib/crypto.ts`) | the encryption key | `initEncryptionKey`, `encrypt`, `decrypt` | keys, router, health |
| unified key (`db/index.ts` 318-348, `routes/settings.ts`) | row of `settings`, cached copy | `ensureUnifiedKey`, `regenerateUnifiedKey` | handler, settings page |
| fallback chain (`routes/fallback.ts`) | table `fallback_config` | replace, sort by preset, token usage | router, seeding, fallback page |
| request log (`routes/proxy.ts` 497-561) | `logBatch`, table `requests` | `logRequest`, `flushLogBatch` | handler, timer, shutdown, analytics |
| start-up, shutdown (`index.ts`, `db/index.ts` 95-139, 268-316) | - | `initDb`, `seedModels`, `shutdown` | everything |
| admin authentication (`lib/adminAuth.ts`, `middleware/`, `routes/auth.ts`) | the password; tokens are stateless | `localOnly`, `requireAdmin`, login | admin API, dashboard |
| login rate limit (`middleware/loginRateLimit.ts`) | `attempts` per address | `loginRateLimit`, `resetLoginAttempts` | login |
| providers (`providers/`) | locals of a stream | `chatCompletion`, `streamChatCompletion`, `validateKey`, translation to and from Gemini | handler, health |
| dashboard (`src/client`) | token in localStorage, query cache, `localEntries` | pages over the admin API | admin API |

What is hard about them, and what makes each correct:

- **Ledger.** Counting and reserving are separate statements at READ COMMITTED;
  a failed statement is swallowed but aborts the transaction around it; a
  reservation and its correction are two rows with two dates; the clean-up rides
  on any insert. Correct: limits are exceeded by no more than the concurrency
  allows, a finished attempt is charged what it cost, a request row never comes
  without its token row, nothing that still counts is deleted.
- **Cooldowns.** Two copies with an await between them, deletions inside a
  transaction that may roll back. Correct: nobody waits for a cooldown that is
  over, and a cooldown that was set holds.
- **Handler and router.** Up to 20 passes, each with its own transaction,
  reservation and call, while everything they read changes, and failures of the
  database that it may not notice. Correct: one answer, from one provider, the
  preferred model first, no reservation left over, an end.
- **Sticky sessions.** Correct: a conversation is steered to the model it had,
  and only by an entry that is not too old.
- **Health and keys.** A check reads, asks and writes with an await before each,
  rounds overlap, admins edit meanwhile, a restart may bring another encryption
  key. Correct: only refusals disable a key, and a dead one ends up unused.
- **Request log.** A batch is emptied before its transaction, a second flush and
  a shutdown run beside the timer's. Correct: an entry is written at most once,
  and lost only for one of the known reasons.
- **Fallback chain.** Row-by-row UPDATEs in any order, pages that save old
  copies, fetches that are joined, replaced or given up, seeds at each start.
  Correct: the table is always one that somebody has saved, and who saved last
  sees it.
- **Admin access.** Requests under way carry old tokens, windows of the limit follow
  each other, row and copy of the key are set apart, by several tabs at once.
  Correct: guesses are bounded, nobody is locked out, pages use the key that is
  accepted.
- **Provider streams.** Lines split anywhere, repeated calls, a finish that
  contradicts the calls, silence. Correct: the client gets text and calls once,
  a finish that fits, and an end.
- **Conversations with tools.** History passes through the client, the schema
  and several models. Correct: Gemini gets back what it said, and the proxy
  accepts what it has handed out.

`PROJECT.json` lists the hazards one by one, each at its line, with the
properties that cover it.

## Modules

| Module | Models |
| --- | --- |
| `RateLedger` | the ledger of one (platform, model, key), driven by attempts of the handler |
| `RateLedgerProofs` | theorems about `RateLedger`: typing, the bound on requests, reservations, their settlement, the clean-up |
| `Cooldowns` | the cooldown of one (platform, model, key) |
| `ChatProxy` | the handler's retry loop around `routeRequest` |
| `StickySessions` | the map of sticky sessions |
| `Catalog` | the models that both of these speak of |
| `KeyHealth` | health checks, key administration and the encryption key, on `api_keys` |
| `RequestLog` | the batch of log entries, its flushes, clean-up and the shutdown |
| `AccessLog` | what the log promises; `RequestLog` is shown to implement it |
| `FallbackChain` | the table of the chain, its two writing requests, the seeds, the page |
| `AdminAccess` | guards, tokens, login limit, unified key, and the dashboard's gate |
| `ProviderStream` | one streamed answer from the provider's bytes to the client's frames |
| `ToolChat` | a conversation with tools across Gemini and other models |
| `Positions` | filters of sequences by position, and orders of places, for `FallbackChain`, `ProviderStream` and `ToolChat` |
| `CooldownsProofs` | theorems about `Cooldowns`: typing, who is turned away and until when |
| `ChatProxyProofs` | theorems about `ChatProxy`: typing, passes, answers, the ledger; about `StickySessions`: typing, what a turn is steered by |
| `KeyHealthProofs` | theorems about `KeyHealth`: typing, what disables a key |
| `RequestLogProofs` | theorems about `RequestLog`: typing, and that it implements `AccessLog` |
| `FallbackChainProofs` | theorems about `FallbackChain`: the table is whole, a writer sees it |
| `AdminAccessProofs` | theorems about `AdminAccess`: the unified key, guesses of the password |
| `ProviderProofs` | theorems about `ProviderStream`: the finish, the calls and the text of an answer; about `ToolChat`: what comes back to Gemini, what is accepted again |
| `MC...` | instances of each for TLC: constants and symmetry only |

### RateLedger

An attempt is one pass of the handler that considers the triple. Its `pc` is the
statement it has sent; each statement is an action: `Begin` (connect, `BEGIN`),
`Check` for each of rpm, rpd, tpm and tpd (`SkipCheck` for a NULL limit,
`CheckInMemory` when the SELECT fails), `Insert` and `Prune` (the two statements
of `recordUsage`), `RecordInMemory` when either fails, `Commit`, `CommitFails`,
then the provider's answer (`Succeed`, `Fail`, `CutOff`) and, unless the
reservation was right, a second `Insert` outside of any transaction.

The database is `usage`, the committed rows; a transaction's own inserts and
deletes wait in `pending` and `doomed`. A check sees `usage` as it is when the
statement runs, which is READ COMMITTED. `aborted` holds the attempts whose
transaction a failed statement has aborted: each later statement fails too, and
`Commit` keeps nothing. `clock` is the `Date.now()` that a call captured before
its first await: a row may be inserted after time has moved on, and a check may
use an old window. `charge` is what the attempt comes to in the end.

### Cooldowns

`isOnCooldown` is `Ask`, `Read` (the SELECT), one of `ResumeExpired`,
`ResumeCooling`, `ResumeInMemory` (what the code does to the Map when the answer
arrives) and `Delete`, which is part of the routing transaction and holds the
row's lock until `Commit` or `Rollback`. A statement after it that fails unnoticed
makes the `COMMIT` a rollback, and the row stays. `SetCooldown` runs to the await of
`setCooldown`, `Upsert` is the statement. `hits` is the list of failures of
`getNextCooldownDuration`, as the set of the attempts that failed and when: only
their number within the day matters. `overlap` is a history variable: have two
attempts ever been under way at once?

### ChatProxy

Per request: the walk over the chain (`modelsLeft`, `keysLeft`), the pairs that have
failed it (`skipKeys`), its pass (`attempt`), the keys its transaction has marked
and the pair it holds. `Begin` fixes the chain as `routeRequest` does: a stable sort
of the strategy's order by position plus penalty, with the preferred model at 0
(`Priority`, `Chains`). `LoadKeys`, `PassKey`, `FindBad`, `MarkKey`, `TakeKey`,
`NextModel` walk it; `Commit`, `Throw` (which `NoKeyLeft`, `StatementFails`,
`BreakDeadlock` and `CommitFails` share) end it. A mark of a key waits for the
transaction that has marked it before (`WaitsFor`), and Postgres fails one of those
that wait for each other. `Chunk`, `Succeed`, `Interrupt`, `Fail` are the provider's
doing, `Settle`, `Retry`, `Penalise`, `Refuse`, `Exhausted` what the handler makes
of it.

A statement of the router that fails throws. One of `ratelimit.ts` is swallowed by
`withDb` (`CheckFails`, the second half of `TakeKey`): the transaction is `aborted`,
the reservation goes to the windows in memory, `Commit` is silently a rollback, the
provider is called all the same, and a refund goes to the table. So usage is two
numbers per pair, in reservations: `ledger` for the table and `window` for memory;
the table alone may be below zero, their sum is what `LedgerBalanced` speaks of.
Where a write ended otherwise than the handler knows (an answer of a COMMIT or of a
refund that was lost, a COMMIT that throws over what is in memory already, a prune
that fails behind its INSERT), the pair is `misjudged` from then on, and excepted.

Limits of a key are an arbitrary answer; cooldowns expire at any time. The
round-robin index only permutes keys that come in no particular order, so keys
are tried in any order.

### StickySessions

A conversation is the list of messages a client sends again with every turn; its
length follows from the number of turns. `Ask` is `getStickyModel`, with the
deletion of an old entry; `Serve` is `setStickyModel` with the cleaning of a
large map; turns of other conversations run between the two. `lastModel` and
`lastAt` are history variables: what this process last served it by.

### KeyHealth

A check is `Look` (the SELECT and the decryption), `Refuse`, `Accept` or
`Unreachable` (the provider's answer), `Record` (the UPDATE of `status`),
`Count` and, at the threshold, `Disable`; `RecordError` is the catch,
`StatementFails` a statement that throws inside the `try` or out of it.
`StartRound` is `checkAllKeys` with the list of keys it has read, which may be
out of date when it gets to them; `StartSingle` is `POST /check/:keyId`. `Add`,
`Delete`, `Toggle`, `TogglePlatform` are the admin's statements, `MarkKey` what
the router writes about a key that does not decrypt. A `Restart` forgets the
counts and may bring another value of `ENCRYPTION_KEY` (`master`); `sealedBy`
says which one a key was stored with. `refusals`, `streak` and `muddled` are
history variables that count what has really been answered.

### RequestLog and AccessLog

A request's entry is made by `LogRequest`, perhaps after its connection has
ended (`EndResponse`), and the clean-up of old entries rides on it (`Prune`). A
flush, of the timer or of a shutdown, is `Flush` (the batch is copied and
emptied), `Connect`, `Insert`, `Commit` or `FlushFails`. A shutdown is `Signal`,
a flush once the server has closed, `CloseDb`, `Exit`; `ForcedExit` is its
deadline. `Hold` and `Release` are everyone else's connections.

`AccessLog` is the contract in a page: an entry that was made is published with
others, once, or lost with an excuse, and expires only when old. The refinement
mapping is `made <- Made, recorded <- table, lost <- Lost`, where `Lost` is
whatever is neither in the batch nor in a flush nor in the table nor deleted
for its age: so an entry that the code drops silently is a `Lose` step, and
needs the excuse.

### FallbackChain

A write (`PUT /` or `POST /sort/:preset`) is its list of UPDATEs, sent one by one
(`Update`), each of which locks its row until `Commit`; `Deadlocked` is what
Postgres does with a circle of waiting transactions; a COMMIT may lose its answer
(`"lost"`). A page keeps the chain of its query (`shown`), the copy with its edits
(`local`), and a fetch that may be under way; `Answer` is `onSuccess`. A page starts
without data, and its sort buttons work while it loads. A fetch may fail, be tried
again or be given up (`FetchFails`), and a tab may go to another page and come back
(`Leave`, `Return`), which frees the buttons. `invalidateQueries` replaces a fetch
that is under way only where there are data already and the page is there; else the
fetch goes on as it is (`Answered`). TanStack Query is not in the repository; the
client creates it with its defaults (`App.tsx` 19), and it is modelled by them.
`doubt` names what may leave a page behind: its last fetch was given up, or had read
the chain before a write was answered that could not replace it. `Restart` includes
`seedModels`. The order of
the table (`Chain`) and the filters of the page (`At`) are stated by positions: the
n-th row is that of the model with n - 1 models before it, the n-th element of a
filter is at the n-th of the positions that pass it. The proofs reason about these.

### AdminAccess

One tab, the server, and other tabs as far as they ask for a new key. `LetIn`,
`Limited` and `Admitted` are `localOnly`, `loginRateLimit` and `requireAdmin`,
evaluated in that order when a request arrives; requests carry the token that was
stored when they were sent, and tokens age. `Load` and `Status` are `AuthGate`,
`LoginAnswer` is `LoginScreen`, `GetAnswer` and `PostAnswer` are `apiFetch` with the
two users of it that concern the unified key. `Reload`, `Leave` and `Return` are the
user's: each of them forgets that a regeneration is pending, so that another may be
sent. `ServePost`, `UpdateRow`, `SetCopy` are the steps of `regenerateUnifiedKey`
for each of the requests (`posts`); the UPDATE may fail, or commit and lose its
answer. Two that are half-way at once are `crossed`; `parted` says that the last one
to end was, or that an answer was lost. Fetches of the key behave as those of the
chain do, and `doubt` has the same purpose. `guesses` is a history variable, the age
of each wrong password's comparison. After `Restart` the configuration may be any,
an unsafe one keeps the server from starting.

### ProviderStream

The provider appends lines, two units each; `Read` takes any number of units,
and `NextLine` runs one line that is complete through the adapter: `Gemini`
translates, `Passed` passes on. The generator is asked for its next chunk when
the last one has been written, so that a line is handled as a whole, and the next
read waits for all of them (`parsed`). `Write` is the handler's loop: chunks to the
client, an error frame when it throws, `[DONE]`. `Interrupted` are the two catches
when the connection breaks. `IdleTimeout` is the timer of a read: it cancels the
reader before it rejects, a cancelled reader answers its pending read with
`{done: true}`, and that settles the race, so that the adapter ends as if the body had
(`AtEnd`). What has not been read when either happens is lost.

### ToolChat

The client keeps `history`, runs tools in any order and may or may not name the
function in its result. `Ask` is the schema's check, `RouteTo` a pass of the
handler: `Contents` is `toGeminiContents` (`Kept` are the messages that become
turns, `TurnOf` their turns), `Forwarded` what the other adapters send.
`AnswerByGemini` goes through `extractToolCalls`, `Distinct` and the ids made up
from the clock; `AnswerByOther` through `normalizeChoices`, unless it streams or
comes from the adapter of Cohere or of Cloudflare, which do not call it. `mute` says
of an answer why it is empty (`WhyMute`). `said` is the history of what the models
said in their own words. That the calls or results of a request are those of the
conversation is stated by a map between their places that keeps their order and
leaves none out (`Matchings`).

## Runs

Every configuration sets `CHECK_DEADLOCK FALSE`: attempts, requests, turns,
writes, entries and lines are finitely many, and a state in which all have
ended and the bounds are used up has no successor.

| Run | Checks | Bounds, and why they are enough |
| --- | --- | --- |
| `RateLedger_attempts` | `TypeOK`, `RequestOvershootBounded`, `SettledExactly`, `ReservationAtomic`, `PruneOnlyExpired` | Three attempts on two connections: two overlap at their checks and a third comes after them. Two ticks make a day, so that rows of the first one expire and are pruned while others are inserted. One statement or COMMIT fails at any point, or the process restarts; `SettledExactly` speaks of the runs without either, as a lost correction is lost. |
| `Cooldowns_attempts` | `TypeOK`, `BlockedForCause`, `CooldownKept` | Four attempts, two at once: one to leave a row, one to delete it, one to wait for its lock and one to look afterwards. Two durations show the escalation, one failure or restart. |
| `ChatProxy_requests` | `TypeOK`, `SingleSource`, `LedgerBalanced`, `AnsweredOnce` | Two requests, one model, no preference (`Preferences`, which `ChatProxy_chain` has), two keys, two passes each: a pass can fail, be refunded and be followed by one on the other key. Statements fail in any way, any number of times. One connection: routing transactions of different requests touch each other only by the marks of bad keys, which `ChatProxy_chain` has. |
| `ChatProxy_chain` | `PreferredServes`, `EventuallyAnswered` | Two models of two platforms, each with a key that serves and one that does not decrypt; two requests, with either preference or none, on two connections walk them in either order: the least with which two transactions can mark two rows in opposite orders. A penalty large enough to swap the models. The database does not fail but for the deadlock, which makes waiting the only danger. |
| `StickySessions_turns` | `StickyTypeOK`, `StickyFromThirdTurn`, `SteeredForCause` | Three turns are the first that find their entry; a TTL of one tick out of two, a map cleaned above one entry, a restart. |
| `KeyHealth_rounds` | `TypeOK`, `DisabledForCause`, `UnusableRetired` | Checks of one key do not touch another, so one key; a round and a single check overlap on it; a threshold of two needs a count that survives a check; two admin edits disable and re-enable it, one failing statement, one restart with the same or another encryption key. |
| `RequestLog_flush` | `TypeOK`, `KeepsPromise`, `EveryEntrySettles`, `ShutdownEnds` | Two entries make a batch of two or two batches; the timer's flush and the shutdowns of two signals compete for one connection; one failure or crash. |
| `FallbackChain_pages` | `WholeChain`, `WriterSeesOwn`, `WritesAnswered` | One page, which may send a save and a sort at once, be left and come back; of the two safety properties the proofs cover any number of tabs, and to the third it makes no difference which tab has sent a write. Three models of which one is hidden: the least with an order among the displayed and one that is only carried along; a preset in the opposite order of the seeds, so that two writes lock rows in opposite orders; one edit, one restart. |
| `AdminAccess_sessions` | `GuessBound`, `SignsIn` | Two passwords, on the machine or in the tailnet; windows and tokens that live one tick; two attempts per window and five guesses, which is more than two windows admit; one restart with any configuration. |
| `AdminAccess_keys` | `UnifiedKeyStored`, `ShownKeyAccepted` | Two regenerations, of this tab or of others, are what can cross; one UPDATE that fails or loses its answer, one restart with any password, tokens that live one tick, so that the tab is logged out in between. |
| `ProviderStream_lines` | `FinishSaysCalls`, `CallsOnce`, `TextWhole`, `StreamEnds` | Three lines of seven sorts: text with a call, two calls without ids, a limit, a call twice in one line with STOP, junk, JSON without choices, `[DONE]`; read in any pieces. Three lines are a call, its repetition and a finish. |
| `ToolChat_agents` | `CallsReturned`, `ResponsesNamed`, `AnswersAccepted` | Two answers, of up to two calls each, by either kind of model: what one has said goes to the other, and a third request returns both. Calls differ in whether they have an id, arguments, a signature. |

Symmetry is used for attempts, for requests and keys, and for models, in runs that
check safety only.

## Where the code does less than its comments say

Met while modelling. The models say what the code does; the properties above are
those that hold.

- A stream that falls silent (`providers/base.ts` 72): `reader.cancel()` comes before
  `reject`, and settles the pending read with `{done: true}`. The client gets the end of
  a whole answer, or an empty success if nothing had come, and no other model is
  asked. `idle-timeout.test.ts` 54 says that it "rejects with an idle-timeout
  error", which its mock of a reader lets it do; `routes/proxy.ts` 366-368 says that
  the client sees an error "instead of a silently truncated stream".
- `chatCompletion` of `providers/cloudflare.ts` (64-66) and of `providers/cohere.ts`
  (45-47) does not call `normalizeChoices`, whose comment (`providers/openai-compat.ts`
  152-156) names "Cloudflare DeepSeek-R1-distill" among the models for which it folds
  reasoning into the content, so that clients "see a non-empty assistant message".
- `routes/proxy.ts` 339-340 promises an IMMEDIATE transaction and perfect
  consistency of the counters. It is a plain `BEGIN` at READ COMMITTED, and the
  limit of requests can be exceeded by one less than the pool's size
  (`RequestOvershootBounded`).
- A refund (`routes/proxy.ts` 453) is a row of its own, dated later than the
  reservation: when the reservation has left the window, the refund still
  counts, negatively.
- "Track in memory so rate limits still apply" (`services/ratelimit.ts` 199): the
  windows in memory are read only when the database cannot be, and the database
  only when it can, so that after a partial failure each counts from nothing. The
  tokens of a pass that failed can then be refunded from a table that never had them.
- Of two cooldowns set at once the shorter may be written last
  (`services/ratelimit.ts` 290), and a reader may delete a cooldown that was set
  after its SELECT (297).
- The mark of a key that does not decrypt (`services/router.ts` 242) is rolled
  back when the request finds no other key.
- The second turn of a plain conversation is looked up under another key than
  the first was stored (`routes/proxy.ts` 43): sticky sessions begin with the
  third (`StickyFromThirdTurn`).
- "Pre-stream errors stay retryable" (`routes/proxy.ts` 366-368): a first frame
  without choices has already set `streamStarted` when it throws (384-386).
- Two calls without an id that are handled in one millisecond get one id
  (`providers/google.ts` 220); the results can then not be told apart.
- The proxy refuses, as part of a history, an assistant message without content
  and calls (`routes/proxy.ts` 148), which it hands out itself when a model says
  nothing, or only reasons in a stream or behind Cohere or Cloudflare.
- `sanitizeForGemini` (`providers/google.ts` 92) drops keys of a schema wherever
  they stand, so also parameters of a tool that bear the name of one.
- A verdict that was under way when an admin re-enabled a key still disables it
  (`services/health.ts` 26-36), on the count from before.
- A fixed window admits up to twice the limit less one wrong passwords around
  its end (`middleware/loginRateLimit.ts` 24, `GuessBound`).
- A 401 drops the token whichever token was refused (`client/src/lib/api.ts`
  30), so a late one logs out who has just logged in; and `AuthGate` stays blank
  when its first request fails (`client/src/App.tsx` 169).
- Two regenerations of the unified key that cross, or an UPDATE whose answer is lost,
  leave a key in the table that is not the one requests are compared with, until the
  next start or the next regeneration (`db/index.ts` 342-346).
- A page that sends a sort, or asks for a new key, while it is still loading keeps the
  fetch that is under way, and may show what was there before (`FallbackPage.tsx`
  228, `KeysPage.tsx` 74).
- Two tabs overwrite each other's chain, and edits made while a save is under
  way are dropped with its answer (`FallbackPage.tsx` 218). Two PUTs in opposite
  orders deadlock, and one is answered by 500 (`routes/fallback.ts` 74). Every
  start writes the seeds over what was saved (`db/index.ts` 306).
- Entries of the log are lost with a failed flush, a crash, a shutdown that is
  forced or hurried by a second signal, a flush that is still waiting for a
  connection when the pool closes, or when their request was over before.
- In the streams of the adapters a last line without a newline is dropped.

## Fairness

`FairSpec` assumes weak fairness of each actor's own steps, and of nothing that
a provider, a user or the environment may choose not to do:

- `ChatProxy`: a request's steps. Statements end: the driver reports lost
  connections. Provider calls end: `providers/base.ts` bounds the time to the
  headers and between the chunks of a stream; the body of any other answer is
  bounded only by the runtime's own timeout of `fetch`. A promise that is settled
  is continued by the event loop. The pool serves its waiters first come, first
  served, and Postgres grants a row lock when its holder ends and fails one of the
  transactions that wait for each other. Weak fairness of the whole `Step(r)`
  suffices although a waiting request may be overtaken, because requests are
  finitely many: the last one to wait finds the connection free for good.
- `KeyHealth`: checks go on, and the timer starts rounds as long as there are
  enabled keys. What the provider answers is free, but for keys it refuses for
  good.
- `RequestLog`: handlers end once started, the timer fires, statements are
  answered, others return their connections. Clients need not end theirs: the
  handlers end without them.
- `FallbackChain`: a write that has been sent goes on; Postgres looks for
  circles. Pages need do nothing.
- `AdminAccess`: browser and server go on, time passes, and a user who sees the
  login screen again and again will again and again type the right password
  (strong fairness: other guesses may come between).
- `ProviderStream`: the timer of the fetch and of a read; nothing of the
  provider.

`RateLedger`, `Cooldowns`, `StickySessions` and `ToolChat` are checked for safety only.
Nothing is assumed of the clock (but in `AdminAccess`), of restarts, faults or
chunks.

## Proofs

All theorems are for every value of the constants that satisfies the named
assumptions of the component's module, and for runs of any length. Besides types
the assumptions say what the code's own constants satisfy, and that what a run
counts is finite: the attempts of `RateLedger`, the requests of `ChatProxy`, the
checks of `KeyHealth` and the flushes of `RequestLog`; `MAX_ATTEMPTS` is at least one. The
configurations check the same formulas on small instances, and evaluate the
assumptions.

### The ledger

For any set of attempts, any pool, limits and windows it is proved in
`RateLedgerProofs`:

- `TypeCorrect`: `Spec => []TypeOK`.
- `RequestOvershoot`: `Spec => []RequestOvershootBounded`.
- `PruneOnlyExpiredHolds`: `Spec => PruneOnlyExpired`.
- `ReservationIsAtomic`: `Spec => []ReservationAtomic`.
- `SettlementIsExact`: `Spec => []SettledExactly`.

`RequestOvershootBounded` is not inductive: it says nothing of attempts between
their check and their commit. The invariant `IInv` adds:

- `FiniteInv`, sets that are counted are finite;
- `ClockInv`, captured times and rows are not in the future;
- `PoolInv`, at most `PoolMax` transactions are open;
- `OneRequest`, an open transaction has inserted at most one request row, a
  location before the insert means none;
- `Overshoot` for the minute and for the day: the committed requests of the
  window, together with the open transactions that are past the check of that
  window, number at most the limit plus `PoolMax - 1`.

The argument: an attempt passes the check when fewer than the limit are
committed in its window, and at that moment at most `PoolMax - 1` others are
past theirs; from then on every commit turns one such attempt into one row, and
time only lets rows leave. Commits that fail, aborted transactions and restarts
only take attempts away. The rest of the module are lemmas on cardinalities and
one step per action and conjunct.

The clean-up and the atomicity rest on `AInv`. A request row and its reservation are
written by two statements and may be deleted by anyone's clean-up, decided before
other rows are committed and applied after; the invariant says why that cannot
separate them:

- `DoomedInv`, what an open transaction has deleted had expired when it did;
- `OwnInv`, `FreshInv`, a transaction writes rows of its own attempt, and before
  its `COMMIT` nobody sees or deletes a row of that attempt;
- `TokensInv`, a transaction that may still commit and has inserted its tokens
  has, for each request, a reservation that is not older (`Covers`);
- `CoveredInv`, so has every committed request;
- `ClosedInv`, an open transaction that has deleted a reservation has deleted
  the requests it covers, as they are at least as old.

`StepEffects` first sums up what any step does to the tables, and all conjuncts
but `TokensInv`, which needs one step per action, follow from that summary.

`SettledExactly` adds up token rows that are written up to three statements
apart, of which others may delete each. `LInv` says which rows of an attempt can
be there:

- `OneReservation` and `ReserveInv`, in its transaction and in the table at most
  one reservation, of what the attempt has estimated;
- `SettleInv`, at most one correction, of what it came to less the estimate, no
  older than the reservation, and only when the attempt has settled;
- `PastInv`, `SettlingInv`, no row is from the future, nor from after the time
  that a settling attempt has captured;
- `TogetherInv`, whoever deletes a correction deletes the reservation with it;
- `CorrectedInv`, as long as nothing fails, a settled reservation is right or
  has its correction.

So a finished attempt whose reservation is left has that row alone, or that row
and its correction. `TokenSum` is a fold over a set; `SumOfRows` unfolds it for
sets of one and of two rows, from the definition of the fold and without
induction (`FoldExists`, `Unfold`), and `NetOfAttempt` does the sum. `StepFate`
sums up what a step does to one attempt.

### Cooldowns

In `CooldownsProofs`, for any attempts, durations and day:

- `TypeCorrect`: `Spec => []TypeOK`.
- `BlockedOnlyForCause`: `Spec => []BlockedForCause`.
- `CooldownIsKept`: `Spec => []CooldownKept`.

For the first two it is enough that an expiry is set once (`ExpirySetOnce`), that
the Map, the row and whatever a SELECT has answered are covered by an expiry that
somebody set (`CopiesCovered`), and that attempts asked in the past. The third
needs the two copies together. While attempts come one at a time, what was read
is still the row (`ReadIsCurrent`), a deletion holds its lock (`LockHeld`), and
an expiry that stands is in the row, and in the Map too unless the one failure
has happened (`RowKeeps`); whoever was let through had found none standing
(`FreeFoundNone`), so that what it sets is later than all others. `failures <= 1`
is needed: after a restart and a failing SELECT the count of failures is lost as
well as the Map, and a short cooldown replaces a long one.

### The handler

In `ChatProxyProofs`, for any catalog, keys, requests, retries and pool:

- `TypeCorrect`: `Spec => []TypeOK`.
- `OneSource`: `Spec => []SingleSource`.
- `PreferenceHolds`: `Spec => []PreferredServes`.
- `LedgerIsBalanced`: `Spec => []LedgerBalanced`.
- `OneAnswer`: `Spec => AnsweredOnce`.

The invariant has a part for each stage of a pass. `AtModel` and `AtRoute` tie the
keys it has left, and the pair it holds, to the first of the models it has left;
`OwnTransaction`, only an open transaction waits for a lock or is aborted;
`PreferredFirst`, the preferred model is nowhere but at the head of the chain,
because it sorts before all others (`ChainIsSorted`); `SentNow`, chunks are those of
this pass, and a pass that has sent one does not retry; `AnswerLast`, after an
answer only the settlement of a stream is left. `LedgerBalanced` is inductive with
these. Its sum of table and memory (`Total`) and the requests that `Consumes` counts
change together: `HoldStep`, a reservation is committed to the table or written to
memory, and a request begins to hold it; `ReleaseStep`, a refund takes one away
wherever it goes (`RefundTotals`), and the request leaves; `QuietStep`, all other
steps change neither. A write that ends otherwise makes its pair `misjudged`, of
which nothing is claimed.

### Sticky sessions

In `ChatProxyProofs` too, which extends both modules of `routes/proxy.ts`, for any
conversations, openings, models, TTL and size of the map:

- `StickyTypeCorrect`: `StickySpec => []StickyTypeOK`.
- `SteeredOnlyForCause`: `StickySpec => SteeredForCause`.
- `ThirdTurnIsSticky`: `StickySpec => StickyFromThirdTurn`.

Both are about what one entry, shared by all conversations with its opening, says
of one of them. `EntryWitnessed`, an entry is what the last turn of some such
conversation was served by, at the entry's time; `RecentKept`, a conversation
served within the TTL still has an entry that is not older, since the cleaning
drops old ones only.

### Keys

In `KeyHealthProofs`, for any keys, rounds, single checks and threshold:

- `TypeCorrect`: `Spec => []TypeOK`.
- `DisabledOnlyForCause`: `Spec => DisabledForCause`.

A check counts a refusal after a statement during which others go on, so the
invariant counts the answers under way: `CountKept`, `failureCount` and the
refusals yet to be counted are together no more than the refusals there were;
`DisableForCount`, who is about to disable has seen enough. For the streak,
checks of a key on which no two overlapped are alone (`Alone`), and the count
does not run ahead of the streak but for an acceptance that has yet to clear it
(`StreakKept`, `DisableForStreak`).

### The request log

For any requests, timers, signals (finitely many) and pool, it is proved in
`RequestLogProofs`:

- `TypeCorrect`: `Spec => []TypeOK`, with `OnePlace`: an entry is in the batch, in
  one flush, in the table or deleted, never in two.
- `LogKeepsPromise`: `Spec => KeepsPromise`, the refinement of `AccessLog`.

`OnePlace` is inductive, but does not say why a flush rejected by a closing pool,
or an exit, loses only what it may. `IInv` adds:

- `FlightInv`, only a flush between its copy and its end holds entries, so that no
  copy overwrites another;
- `LateInv` and `FlushedInv`, when a shutdown is beyond its flush the server has
  closed, and what has come to the batch since then comes from handlers that
  outlived their connection;
- `EndingInv`, the pool is ending exactly when a shutdown waits for it, and a flush
  that then waits for a connection is an excuse;
- `HastyInv`, two shutdowns at once are an excuse;
- `RoleInv`, the timer's flushes close nothing.

Each step is then matched with one of `AccessLog` (`PromiseStep`): the pushes are
`Make`, a commit is `Publish`, the clean-up `Expire`; failed and rejected flushes
and the end of the process are `Lose`, all by one lemma (`LossStep`).

### The fallback chain

In `FallbackChainProofs`, for any models, presets, tabs, writes, edits and
restarts:

- `ChainIsWhole`: `Spec => []WholeChain`, which includes `TypeOK`.
- `WriterSees`: `Spec => []WriterSeesOwn`.

`WholeChain` depends on what the pages send: a write with a model twice, or two
rows with one priority, would leave a table that no request has described. So the
invariant goes round the whole circle:

- `TableInv`, the table has distinct priorities, those of the seeds or of one
  committed write, and the switches of the seeds or of one committed save;
- `PageInv`, what a page has been shown, edits or is about to be delivered is
  `Whole`, each model once and each priority once;
- `WriteInv`, so is what a write will write, and it either sets all switches or
  keeps all of them;
- `SeenInv`, the page whose write has committed last, once it has been answered,
  has asked for the chain and then waits, has read this table, or shows it, unless it
  is in `doubt` or has been left.

The table is read as a whole chain (`ChainWhole`): distinct priorities are all
numbers up to that of the models (`EachNumberOnce`), so a row with priority n has
n - 1 before it (`BeforeCount`). A drag keeps a chain whole (`MergedWhole`): moving
an element permutes positions, the displayed and the hidden ones together are all,
and N rows without a repeated model are all models (`EachModelOnce`). A commit puts
a whole chain over the table (`WrittenTable`), whatever others have committed since
its UPDATEs began.

### Admin access

In `AdminAccessProofs`, for any passwords, configurations, limits and windows:

- `UnifiedKeyIsStored`: `Spec => []UnifiedKeyStored`.
- `ShownKeyIsAccepted`: `Spec => []ShownKeyAccepted`.
- `GuessesAreBounded`: `Spec => []GuessBound`, which includes `TypeOK`.

`KeyInv` adds to the first that a regeneration which is half-way and has not been
crossed is the only one, and that the row holds its key: so when it sets the copy,
the two agree. `ShownInv`: while nothing is in `doubt`, and no answer of a
regeneration is on its way to the tab (`Unseen`, which will make it fetch the key
again), what a page shows, or has been answered, is the key that is compared.

For the guesses, `GuessInv` follows the fixed window through its life. Without an
entry there is no recent guess (`NoWindow`). An open window has counted its
guesses, the first of them is as old as the window, and those of the window
before that are still recent are fewer than the limit (`OpenWindow`). A window
that is over has left its first guess behind, so that fewer than the limit
remain (`OverWindow`), and the next one adds at most the limit. `NotYet` says
that a password is compared once.

### Provider streams

In `ProviderProofs`, for any lines a provider may send and any length of the
answer:

- `FinishIsTold`: `Spec => []FinishSaysCalls`, which includes `TypeOK`.
- `CallsReachOnce`: `Spec => []CallsOnce`.
- `TextIsWhole`: `Spec => []TextWhole`.

A step appends to `out` whatever it writes: `Said(new, over, added)` is what the
properties need to know of the frames `new` that a step appends, of whether the
answer is then over, and of the line that it has handled. One half of the module
shows that each action that writes is such a step (`NextLineSaid`, `BodyEndSaid`,
which serves the end of the body and the idle timer, `InterruptedSaid`), by the
frames that a line makes: at most a chunk of content, a finish, an error and
`[DONE]` (`GeminiFrames`, `PassedFrames`). The other half shows that such a step
preserves each part of `IInv`, whose parts besides the properties are:

- `OpenInv`, as long as the answer goes on, no line that was handled has ended it,
  and all that was written are chunks, of Gemini without a finish;
- `MemoryInv`, what the generator remembers (`seenToolCallKeys`, `sawToolCalls`) is
  what the client has been sent;
- `FrameInv`, what is written is a chunk, the error or `[DONE]`.

So a finish that is written says the truth at that moment, and nothing follows it;
a call that is filtered out has reached the client before. For the text, the
order-preserving map from lines to frames is extended by one line at a time
(`TextStep`). `Unseen`, the filter of calls, is stated by the ranks of those that
pass it; that it drops none and doubles none follows from `NthElement`: the n-th
element of a finite set of numbers exists, for every n up to its size.

### Conversations with tools

Also in `ProviderProofs`, for any calls that Gemini and the others may make, any
forms of what the user says and any number of answers:

- `CallsComeBack`: `ChatSpec => []CallsReturned`, which includes `ChatTypeOK`.
- `ResultsAreNamed`: `ChatSpec => []ResponsesNamed`.
- `AnswersComeBack`: `ChatSpec => []AnswersAccepted`.

The properties relate a request to what the models have said; the invariant `ChatInv`
relates the history, out of which requests are made, to it:

- `AnswersPlaced`: there is an increasing map from answers to positions of the
  history, onto those of the assistant. The message at such a position has the calls
  as they were made (`Faithful`), and their ids are of this answer (`IdsOf`: the
  place in it, or a time within it) and pairwise different, unless there was a clash.
- `OnlyModelsCall`, no other message has calls, and `ResultsPlaced`, each message of a
  tool has the id and the name of a call that stands before it.
- `RequestMade`, a request to Gemini is made of the history as it is now: the client
  says nothing while it waits.
- `AllAccepted`, the schema accepts every message, unless a model was mute, and
  `RefusedForCause`.

`ReplyPreserves` extends the map by an answer; what it needs of one is shown for Gemini
by `ExtractedCalls` (the ids that are made up differ, and so `Distinct` drops nothing)
and for the others by `PassedCalls`. That an id finds one call of the whole history is
`IdsDiffer`. From the history to the request, `CallsSent` and `ResultsSent` say which
parts its turns have, at the ranks of the messages that are kept; the maps that the two
properties ask for are those of answers to positions and of positions to ranks, one
after the other.

### Only model-checked

Every safety property that a run checks is proved. What is left to TLC is liveness:
`EventuallyAnswered`, `UnusableRetired`, `EveryEntrySettles`, `ShutdownEnds`,
`WritesAnswered`, `SignsIn` and `StreamEnds`, under the fairness named above, are
beyond the prover.

## Not modelled

- Formats: HTTP, the providers' JSON but for the fields above, validation schemas
  but for the one of assistant messages, the text matching of `isRetryableError`
  (an error is retryable or not, by choice), parsing of budgets, token counts,
  translation of tool schemas, AES-GCM, the signature of tokens.
- The decay of penalties in time (`getPenalty`): in `ChatProxy` a penalty may
  shrink at any time. The round-robin index only permutes keys that come in no
  particular order; keys are tried in any order.
- Code that only reads: `getRateLimitStatus`, the summary of `GET /api/health`,
  the model catalog, token usage, the analytics queries. The last make three
  SELECTs without a transaction, so that their figures may be of different
  moments.
- The pages of the dashboard that show what they fetch and keep nothing:
  analytics, playground, the list of keys.
- `ROLLBACK` that fails, and clients of the pool that die while idle.

`PROJECT.json` gives the status of every component.

## Plan

1. `Penalties`: decay against `lastHit` in time, with the round-robin index, and
   `ChatProxy` composed with it.
2. An abstract limiter (`Admission`: a counter that admits while it is below its
   limit plus a slack), implemented by `RateLedger`, with its proof.
