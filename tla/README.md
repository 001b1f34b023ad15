# Verification of the Qwen gateway

The gateway is one Python process with an asyncio event loop. It accepts
OpenAI-style chat completions, chooses one of several upstream credentials,
calls the provider with it, and fails over to another credential when the call
fails. An operator edits credentials, models, API keys and settings while it
runs; an SQL database (SQLite by default) keeps everything but a little hot
state.

This directory holds TLA+ models of that process, the TLC configurations that
check them on small instances, and proofs that TLAPS checks for every instance.
Paths below are relative to `src/app/`.

## 1. Inventory

| component | state it keeps | operations | what makes it correct |
|---|---|---|---|
| credential scheduler (`gateway/scheduler.py`) | rows of `qwen_credentials`; in memory `_leases`, `_last_selected`, `_cursor`, `_tick`, `_lock` | acquire, release, mark_success, mark_failure, persist_rotation, stats | counts are the load; only eligible rows are given; least loaded first; a failing row rests |
| completion service (`services/completion_service.py`) | per request: attempts, tried, last error, emitted_any | complete, stream, _acquire, _handle_failure | bounded attempts, no credential twice, no failover after a chunk, every request ends, the error is the real reason |
| public API (`api/public.py`) | the recorder of a request | create_chat_completion, list_models, health | what is recorded is what happened |
| recorder and metrics (`services/metrics.py`) | `request_logs`, counters of API keys, active streams | persist, gather_stats, purge | one entry per request, counters add up |
| credential administration (`services/credential_service.py`) | rows of `qwen_credentials` | create, update, delete, test | an edit is not undone by a request in flight |
| rate limiter (`api/middleware.py`) | a deque of hits per client and area | one check per request | at most `limit` admitted per minute |
| normalizer, stream formatter (`gateway/normalizer.py`, `gateway/streaming.py`) | one response being assembled | add, finish, chunk order | streamed and complete answers agree |
| Qwen parser (`providers/qwen/{parser,markup,tools}.py`) | text held back, open tags, tool calls | feed, close | chunk boundaries do not matter |
| SSE codec (`utils/sse.py`) | half a character, unfinished frame | push, close | chunk boundaries do not matter |
| Qwen client (`providers/qwen/{client,auth}.py`) | none of its own; rotated tokens are returned | authenticate, stream_completion with its chat, list models | a refreshed token is not lost; a broken or empty answer fails over |
| router, catalogue (`gateway/router.py`, `services/model_service.py`) | rows of `provider_models` | resolve, catalogue, upsert, delete, discover, seed | a listed name is served by name; no edit is taken back unseen |
| API keys (`services/api_key_service.py`, `auth/api_key.py`) | rows of `api_keys` | create, update, revoke, delete, authenticate | a revoked key stays out |
| settings (`services/settings_service.py`, `config.py`) | process settings, rows of `gateway_settings` | load, update | the process and the database agree |
| gateway errors (`gateway/errors.py`) | none | classification of statuses, exceptions, error events | upstream's failures are laid to upstream and retried elsewhere |
| lifecycle (`main.py`) | retention task | start, stop, purge loop | a start takes over what was committed |
| secrets, logging, admin cookie, CLI, mock provider | none | pure functions, one-shot commands, a test double | not modelled |

How they interact. A request passes the middleware, the API key check and the
router, then the completion service. The service calls the scheduler, which
opens a database session of its own per operation, and the provider, which
does HTTP. The scheduler's lock covers the choice of a credential and the
commit that follows it, and each release; the reports of success and failure
take no lock. A streaming response is a generator driven by the client's
connection: when the client leaves, the generator is cancelled at the await it
stands at. The operator's calls touch the same rows in sessions of their own.

What is hard. Every await is a point where another request, the operator, the
clock or a disconnection may come in between: a row read before an await is
written after it, a lease is counted in one function and given back in
another, a cancelled generator skips what follows. `PROJECT.json` lists these
hazards one by one, at their lines, with the properties that cover them.

## 2. Plan

| order | module | what it models | status |
|---|---|---|---|
| 1 | `CredentialScheduler` | the pool and its operations | done |
| 2 | `CompletionService` | the requests over the pool | done |
| 3 | `RequestProtocol` | abstract: what one request may do | done, implemented by 2 |
| 4 | `SchedulerScan` | the selection loop against its declarative form | done |
| 5 | `CredentialSchedulerProofs`, `CompletionServiceProofs` | proofs about 1 to 4 | done: types, ledger, choice, rest, log, error, refinement, the scan and the rotation |
| 6 | `MarkupSplitter`, `ToolCallText`, `QwenParser` | one upstream response, in every cut | done |
| 7 | `ChatStream` | a turn as stream() and as complete() tell it | done |
| 8 | `SSEDecoder` | bytes to frames | done |
| 9 | `TokenRotation` | secrets: refresh, rotation, probe, operator | done |
| 10 | `RateLimiter`, `RequestLedger` | admission, keys, streams, request log | done |
| 11 | `DatabaseProofs` | about 10: types, revocation, the count of streams, the limiter, the counters | done |
| 12 | `ModelRouter`, `GatewaySettings`, `ModelCatalogue` | resolution and listing; overrides; discovery, edits, seeding, restarts | done |
| 13 | `DatabaseProofs` | about 12: settings, listing, upserts | done |
| 14 | `UpstreamErrors`, `QwenExchange` | which failures are retried and as what; one call upstream, with the web mode | done |
| 15 | the death of the process in `TokenRotation`, `RequestLedger`, `ModelCatalogue` | what is in memory is lost, what is committed stays | done |
| 16 | `TokenRotationProofs` | the refresh token; the probe; the expiry | done |
| 17 | `InductionLemmas` | that functions recursive over the naturals exist, and what flattening a sequence gives | done |
| 18 | `StreamProofs` | proofs about 8 and 14 | done: cuts, frames against the format, broken and empty bodies, who is blamed |
| 19 | `StreamProofs` | proofs about 7 | done |
| 20 | `MarkupProofs`, `QwenParserProofs` | proofs about 6 | done: the seven properties of a response, leaks where no tag is torn |

2 and 9 extend 1 and drive its actions; `RequestLedger` over `RateLimiter`,
`ModelCatalogue` over `GatewaySettings` and `QwenExchange` over 8 are built in the
same way; 6 is a tower of three. `ModelRouter` and `UpstreamErrors` hold functions
without a state of their own: the state machines that use them are
`ModelCatalogue` and `QwenExchange`, and `MCCompletion` takes the faults of a
request from `UpstreamErrors`. `MCCompletion` also adds 4 to 2.

## 3. The modules

### CredentialScheduler

| TLA+ | code |
|---|---|
| `live`, `row` | the table and what a row holds that scheduling reads; secrets are reduced to `readable` |
| `leases`, `lastSelected`, `tick`, `cursor` | the hot state (0 for an absent key) |
| `now` | `utcnow()`; only `Tick` advances it |
| `IsEligible`, `Eligible` | `_eligible` |
| `RoundRobinPick`, `LeastRecentPick`, `RoundRobinCursor` | `_choose` |
| `Lease`, `Touch` | `acquire`, before and at its commit |
| `Unlease` | `release` |
| `MarkSuccess`, `MarkFailure`, `CooldownFor`, `StatusFor`, `Backoff` | the outcome reports |
| `SetEnabled` ... `CreateCredential` | `credential_service` update, delete, create |
| `Bucket` | the counters of `stats` |

`Edits` says which edits the operator makes in a run. `StrategiesAssumption`,
`TimesAssumption`, `CredsAssumption` and `RowsAssumption` are what the proofs
use.

### CompletionService

`pc[p]` is the await request `p` stands at. One action is what the request does
from one await to the next, everything the code does in between included:
for instance `WriteRow` is the commit of `mark_failure` with the bookkeeping of
`_handle_failure` that follows it. `complete()` and `stream()` share the
actions; they differ in `Deliver` (a chunk reaches the client), in
`FinishExhausted` (who records the error of an empty pool) and in
`Disconnect`. `RejectUnknown` is the request whose model names a provider that is
not registered: `complete()` records the error, a stream ends before anything
hears of it. Identifiers follow the code: `tried`, `attempts`, `emitted`,
`lastError`, `authError`. `why` says which path led to a report or a release,
`orphans` is a history variable that counts leases left behind.

### RequestProtocol

The promise made about one request: one credential at a time, none twice, at
most `MaxAttempts` calls, no failover after a chunk. `CompletionService`
instantiates it with a refinement mapping (`Stage`, `Spent`, `Calls`) and the
run `core` checks `FollowsProtocol`.

### SchedulerScan

The loop of `_choose` written as it is in the code (a walk over the sorted
candidates that keeps the best so far) next to `RoundRobinPick` and
`RoundRobinCursor`. `Ordered` is the sorted list, `Look` one pass of the loop and
`Scan` the passes in a row; a pass that has found an idle candidate is what the
later ones leave alone, as the `return` does. `At` is the pool under another load
and cursor, so that the run `core` compares the two for every candidate set, every
load of up to two and every cursor; `RotationServesAll` starts from the cursors
the requests leave.

### MarkupSplitter, ToolCallText, QwenParser

A response's answer is a sequence of pieces (`"<"`, `"details"`, `"attr"`,
`"prose"`, ...): a chunk boundary may fall between any two. Buffers hold
positions of that text, so a property can say what became of each piece.

| TLA+ | code |
|---|---|
| `NextSegments`, `Segments` | `segment_text`, on a complete text |
| `Step`, `Steps`, `Fed`, `SafeBoundary`, `Flushed` | `StreamingMarkupSplitter._step`, its loop and `feed`, `_safe_emit_boundary`, `close` |
| `TakeMarker`, `TakeBlocks`, `ToolFed`, `ToolFlushed` | `ToolCallTextParser.feed`, `close` |
| `NextItems`, `Items` | the blocks of a complete text, the reference for `TakeBlocks` |
| `AnswerFrame`, `ThoughtsFrame`, `ToolFrame`, `FinishFrame`, `OtherFrame` | `QwenEventParser` on one frame |
| `Push`, `FinalCalls` | `_ToolAccumulator` |
| `Closing`, `EndOfStream` | `QwenEventParser.close`, the end of `_consume_sse` |

Each loop is a function recursive over the rounds, as many as the text can hold
tags or markers; a round that finds nothing to take changes nothing.

`Responses` says what the upstream may send in a run and where it may cut. The
reasoning channel passes a second splitter of the same class; it is reduced to
the list of thoughts that enters it.

### ChatStream

The events of a turn go through `StreamFormatter` (`ChunksOf`, `ToolChunks`,
`FinalChunk`), the loop of `stream()` (`Handle`, `EndOfTurn`, `Break`) and
`sse_response_body` (`ErrorEnd`), and beside it through `ResponseAggregator` as
`complete()` would (`Complete`, `CompleteVerdict`). `Reassembled` is the message
a client puts together from the chunks. `Complete` and `Reassembled` are recursive
functions over the events and over the chunks. A turn may hold any calls, any
number of times; `ToldApart` says of one that `_merge_tool_call` takes no two of them
for the same. `TurnAssumption` says that a call
comes with arguments: the parser puts `{}` where the upstream gives none.

### SSEDecoder

`Push` and `Close` are the methods of the same names; `Drain`, `FindBoundary`
and `FrameOf` are `_drain`, `_find_boundary` and `parse_frame`. `Cut` is one round
of the loop of `_drain`; `Drain` makes as many rounds as a text can hold blank
lines, and a round that finds none changes nothing. A byte is an end
of line, half of a character, or stands for a text (`"data"`, `"event"`,
`"json"`, `"odd"` for JSON that the parser raises on, `"done"` for `[DONE]`). `Lines` reads the lines of a frame character by
character (`ReadOn`): an end of line ends the line that is open, if there is one, so
that a CR LF counts once and an empty line not at all. `Reference` reads a whole body
in the same way (`ReadFormat`) and gives a frame at each empty line, instead of
searching for blank lines. `MixedBlank` names the one case
where the two differ: a blank line whose end is of another kind (LF then CR LF),
which the decoder does not take for a blank line. The decoder has no steps of its
own: `QwenExchange` drives it.

### UpstreamErrors and QwenExchange

`UpstreamErrors` is `gateway/errors.py` as functions: an error is its category,
whether it is retried and its Retry-After (`FromUpstreamStatus`, `FromException`
by the classes of httpx and of the operating system, `FromErrorEvent`). A
`Header` is a Retry-After as `float()` reads it: absent or no number, a number, or
`Endless`, of which `int()` raises OverflowError; `Refusal` is the error that comes
of a refusing status with such a header. `QwenExchange` is one call of `stream_completion`:

| TLA+ | code |
|---|---|
| `stage` | the await the call stands at: "chat", "post", "stream", "document", or its end |
| `ChatAnswered`, `ChatLost` | `_create_web_chat`: only 401, 403, 429 end the call |
| `Answered`, `PostLost` | the answer to the completion request, or none |
| `ReadChunk`, `BodyEnds`, `BodyBreaks` | the loop over the bytes, the flush after it, the handler around it |
| `ReadDocument` | `_parse_json_body` |
| `ParserRaises`, `Legible` | an exception of the parser, which no handler names; the frames before the one that raises |
| `EventsOf`, `Conclude` | `_frame_to_events`; the check that some event came |

The network is external: any status, any header, any cut, an exception at each
step. `unforeseen` is a history variable: the call has met an endless header or odd
JSON.

### TokenRotation

Extends `CredentialScheduler` with the secrets. `vault` is what a row holds, a
secret is one grant of the authorization server; `accepted`, `minted` are that
server's state (external). `Restart` is the death of the process at any await: the
requests, the probe and what they hold are gone, the table and the server stay. A
request is in `_acquire` (`Take` to `Store`, `Keep`, `Refuse` or `Disconnect`);
`probe` is `test_credential`, which reads the row once
and writes, in one UPDATE, the attributes whose value has changed since
(`Written`); `TypeSecret` and `TypeRefresh` are the operator's. `lost` and
`overtaken` are histories: refresh tokens whose answer was never stored, and rows
written from a reading that an edit has overtaken.

### RateLimiter and RequestLedger

`Admit` and `TurnAway` are the two ways through `dispatch`, told apart by `Full`,
with the clearing of all deques past `MaxBuckets`; `Within` is the loop that pops old hits from the
left. `admitted` and `clears` are histories of the last window. `RequestLedger` follows an admitted request: the key check
(`Authenticate`), the completion as one step with its verdict (`Complete`,
`EndBody`), the count of active streams (`StartBody`, `StreamFinished`) and
`persist`. The two databases differ in `TakeLock`: the flush of the new entry
takes SQLite's only write lock before the key is read, on PostgreSQL nothing
keeps two requests from reading the same counters. `log` is the table in the order
of insertion; `Purge` marks an entry as `purged` instead of taking it out, so that
the counters, which outlive the entries, can be compared with all there ever
were. The operator's actions,
`Purge` and the death of the process (`Restart`: requests, windows and the count
of streams are gone, uncommitted entries too) interleave.

### ModelRouter, GatewaySettings, ModelCatalogue

`ModelRouter` is `resolve`, `catalogue` and the list of `GET /v1/models` as
functions of the table and the settings. `Fold` is `str.lower`, `Strip` is
`str.strip`, `Base` and `Suffix` are what stands before the first `#` and from it
on, as functions over the names of a run. A row's provider is any label an operator
may type (`Labels`), not one of the registered `Providers` only. `Plain` is a name
that is looked up as it is written, but for its case.

`GatewaySettings` is `update_settings`: one session, a turn of the loop per key
(`SetKey`), in which the process takes the value at once, and one commit
(`CommitPatch`) that may fail (`FailPatch`). From its second key on an update has
flushed and holds SQLite's writer's lock. `Text` and `Parse` are the conversions
between a value and its row. `contested` is a history: keys whose last updates
overlapped or failed.

`ModelCatalogue` composes the two with the table of models. `job` is the list of
upserts an actor still has to make (one for an edit, several for a discovery or
the seeding) and the row the first of them has read: `SelectRow`, then `InsertRow`
or `UpdateRow`, which writes the columns whose value differs from the one read
(`Merged`). Discovery saves the aliases the provider gives a model and those of
the environment (`Infos`), seeding the latter only (`Seeds`), both stripped
(`Trimmed`). `ProcessRestarts` ends every job and update, takes the stored overrides over
and seeds an empty table.

## 4. Runs

| run | instance | properties | what it shows |
|---|---|---|---|
| core | 2 requests (1 stream), 3 credentials, 2 attempts, rows that may not decrypt, models without a provider | `TypeOK RecordTellsOutcome ErrorIsInformative FollowsProtocol ScanAgrees RotationServesAll` | the request machine under all interleavings and disconnections; the selection loop against its formula |
| edits | 2 requests (1 stream), 1 credential, time 0-2, every edit, ids reused | `LeaseLedger HealthTellsEligible RestingIsLeftAlone FailureRests` | edits, deletions, cooldowns and stale reports at any await |
| ends | 2 requests (1 stream), 2 credentials, both strategies, fairness | `Termination` | both loops end, the lock is given back |
| response | answers of up to 4 blocks, cut anywhere but inside an opening tag (with tools, between tags), short ones among frames of every other kind | `AnswerIsWhole NothingLeaks OrderIsKept OnlyUnfinishedWaits ThoughtsOnce CallsAreReassembled EndsOnce` | the parser says of the chunks what it would of the whole |
| turn | up to 5 events, 4 calls of which two share an id and two an index and a name | `StreamedIsComplete BodyIsFramed CompleteImpliesStreamed` | where stream() and complete() agree, and where they do not; the body is framed |
| exchange | bodies of up to 6 bytes in chunks of 1 or 2, odd JSON, characters of two bytes, 12 statuses, 4 headers, every exception | `CutsDoNotMatter FramesAreThoseOfTheFormat BrokenBodyIsWhole EmptyIsMalformed FailureIsUpstreams` | frames do not depend on the cuts and are those of the format; which answers are broken, empty or refused, and whose fault each failure is told to be |
| renewal | 2 requests, the probe, 1 credential, 3 grants, time 1-2, naive dates, restarts | `TypeOK RefreshTokenIsKept ExpiryIsNotPromised ProbeMendsWhatItSaw` | writers of one row from readings of different age |
| admission | 2 requests (1 stream), 2 clients, 1 key id, both databases, restarts | `TypeOK RateHolds RefusalIsDeserved CountersFollowLog RevocationIsFinal StreamsAreCounted` | the limiter, the keys, the log |
| control | 2 operators, 3 settings, 7 names (one in two cases, one with a space, one with a `#`), 3 labels, 4 calls, restarts | `SettingsAgree ListedIsServed UnseenEditsSurvive` | settings and models under overlapping, failing and interrupted edits |
| lease_leak | 1 stream | `LeasesExact` is violated | finding 1 |
| cooldown_cut | 2 requests, 1 credential | `RetryAfterIsHonoured` is violated | finding 2 |
| torn_tag | answers cut inside an opening tag | `NothingLeaks` is violated | finding 3 |

Bounds. Two requests suffice for every race on one row (a report against a
report, a report against a choice, a rotation against a rotation, two commits on
one key), two operators for every race between edits, and the seeding is a third
writer beside them. Three credentials are needed for a failover to a third after
two failed ones and for the rotation to be more than an alternation. `MaxTime`
lets a cooldown, an expiry, a window and a retention period begin and end inside
a run. `MaxGrants` 3 is an initial secret, its renewal, and a second renewal or
an edit that overtakes it. `MaxHoldback` 2 makes a wrapper too large to hold back
with three pieces. Six bytes hold a data line, a blank line of the longest kind
and the beginning of the next frame. `MaxCalls` 4 is one update against another
with a discovery and a deletion before or between; `MaxRow` 4 bounds the primary
keys these insert. `MaxEntries` bounds the entries logged before a request
arrives, so that both requests in flight may still add theirs; `MaxClears` the
times the windows are dropped, by the cap or by a restart, `MaxEvents` the events
of a turn, `MaxFailures` the failure counter. The statuses of `exchange` are those
the code tells apart and one of each range it does not; the body of a broken
stream ends with one exception, since its class decides the error alone. No byte of
the run is an `event` field, which decides no property but that of the frames: a
byte more would double the bodies, and the proofs hold with it.
`Symmetric` permutes the requests of `renewal` and the operators of `control`,
which check safety only. No constraint cuts the state graphs. `CHECK_DEADLOCK` is
off everywhere: requests, bodies, calls and time are finite in a run, so the
process comes to rest.

Fairness is assumed in `ends` only.

Fairness. `FairSpec` assumes weak fairness of each request's own steps: each
await ends, because the provider's calls have timeouts, the database answers,
and the lock is only held across a commit. Arrivals, disconnections, the
operator and the clock get none.

## 5. Proofs

`CredentialSchedulerProofs` proves that the `CHOOSE`s of the selection are
defined: a non-empty set of naturals has a least element (well-founded
induction on `<`), so a least loaded candidate exists, and among those one of
least rotation offset, or of least last use. `ChoiceIsLeastLoaded` follows for
both strategies. `HealthyIsEligible` compares `stats` with `_eligible`. The type
lemmas of the pool's operations are here too, for the modules that extend it.

`ScanIsPick` says that the loop of `_choose` returns what the formula says, for
every set of candidates, load and cursor. The candidate at distance `k` from the
cursor (`Turn`) and the distance of a candidate (`Ahead`) are inverse to each
other, since ranks are a bijection (`OrderedIs`) and remainders can be taken back
(`ThereAndBack`). `ScanFinds` then goes through the passes: before the one that
reaches the candidate the formula names, the best so far carries more leases;
from there on nothing beats it, and if it is idle the cursor stays behind it.
`RotationServes` follows an idle pool: each selection serves the credential at the
cursor and moves it on by one (`Onward`), so that as many as there are credentials
reach every rank. `RotationHolds` needs of the requests only that the cursor is a
natural number.

`CompletionServiceProofs` proves `Spec => []TypeOK` first. `TypeOK` is not
inductive: `Unlease(cred[p])` and `Touch(cred[p])` need a credential where
`cred[p]` may be 0. `ControlOK` adds which phases go with a credential and with
a cause, and `IInv == TypeOK /\ ControlOK` is inductive; the lemma for a
request's step has one case per action.

`LedgerHolds` (`Spec => []LeaseLedger`) classifies every step: it moves one
request, and that one keeps its lease, takes one, gives it back or leaves it
behind (`KeepsLease`, `TakesLease`, `GivesLease`, `LeavesLease`). `LedgerMove`
then compares the set of holders before and after with the cardinality
theorems for adding and removing one element. The hard case is `release`, which
drops the key when the count is at most one: the holder itself shows the count
is at least one.

`HealthHolds`, `RestingHolds` and `FailureRestsHolds` prove
the invariant and the action properties of the same names from `IInv`. All of
them hold for any finite sets of requests and credentials, any faults, any
durations and any number of attempts, under the named assumptions of the two
modules.

The refinement needs another invariant, `StoryOK`, one conjunct per thing a
request goes through: its attempts stay in range (`AttemptsOK`), a chunk is
only out during and after the call of the attempt (`EmittedOK`), the credential
of a call is in `tried` (`TriedOK`), whoever has tried something remembers an
error (`ErrorsOK`), and the recorder says `success` exactly from `_finish_success`
on (`RecordedOK`). `RecordHolds` and `ErrorHolds` follow from it. For
`ImplementsProtocol` every step of `CompletionService` is shown to be one step
of `RequestProtocol` or to change nothing it sees (`Same`, `Starts`, `Takes`,
`CallsOnce`, `StreamsOne`, `GivesUp`, `Ends`); it needs `StoryOK` to know that
a retry follows a call that delivered nothing, and that the credential taken
is not in `tried`.

`DatabaseProofs` proves the six properties of `admission`, all under
`LimiterAssumption` and `LedgerAssumption`, and through `Restart`.

- `RevocationHolds` needs `KeyInv`: a barred key still has its row (`BarredOK`), a
  request that is recorded has a key (`CallerOK`), and the rows keep their types
  (`RowsOK`), or else nothing is known of a row after an update of one of its
  columns.
- `StreamsHold` is inductive with the type of `at`; the body that ends keeps the
  count above zero, so that the `max` of `stream_finished` never hides a miscount.
- `RatesHold` and `RefusalsHold` rest on `LimiterInv`. A deque and the history of
  its bucket end alike, and what the deque has more is too old (`SameEnd`), so
  whenever a deque is full once its old hits are dropped, which is when a client
  would be turned away, the history of the window holds its limit. What the history has more was let
  through before the deques were last dropped; of this part no more than one
  limit falls between two drops (`Spread`). The bound alone is not inductive:
  when the oldest drop leaves the window, what was let through before it must
  leave too, which the second conjunct of `Spread` says of every drop. Both
  rest on `WithinIs`: popping from the left drops exactly the hits that are too
  old, as the history is in order of time (`InOrder`).
- `LedgerTyped` is `TypeOK`, with the bound on the number of deques.
- `CountersHold` rests on `CounterInv`. A row's counters are at most the number of
  its entries (`RowOK`), and so are those a request has read and will write one
  higher once its own entry is in (`TallyOK`). On SQLite both are exact, because
  what was read is what the row still has: one request at a time is between its
  reading and its commit, the one that holds the lock (`LockOK`). `KnownOK` says
  that an id an entry names is in the table or was deleted, so that a new key
  starts with no entries unless its id was in use before, the case the property
  excepts. `Entered` counts places of the log, and the lemmas say that an appended
  entry adds one place and a purge none.

`DatabaseProofs` also proves the three properties of `control` for any names,
models, settings, patches and operators. `SettingsAgree` is not inductive: that
the commit of an update will leave what the process has is known only while the
update is open. `Sound` says it for every open update: of the keys it has set,
those no other update has touched since (`alone`) are either to be written with a
text that reads back as the value of the process, or need no write because the
stored text already does (`WillAgree`), and nobody else has them; all others are
contested. `TextReadsBack` is the lemma that `Parse` inverts `Text`. `RowsInv`
keeps the types of the table and of the jobs, `IInv` is both (`Inductive`).
`ListedHolds` follows from it by the cases of a listed name that is looked up as it
is written (`Plain`): the id of an enabled row, an alias of one, an alias of the
environment, the fallback list over an empty table. Of the other names it is false
(section 6). `UnseenHolds` needs the types only.

`TokenRotationProofs` proves `TokensTyped`, from `TypesInv`: `TypeOK` and where a
worker stands (`PhasesOK`), the requests and the probe being the workers. For
`RefreshKept` it sees the state through six functions and sets: the refresh token
of each row (`RowTokens`), what each worker works with, has in hand and has spent
(`HeldFor`, `InHand`, `Spent`), and the sets `accepted` and `lost`.
`RefreshTokenIsKept` (`Kept`) is not inductive: nothing in it says that a token
spent for one row is not another row's. `Good` adds that no token is from the future
(`Granted`), that a row's token is in no other row and with no worker of another
row (`Owned`), and that the successor of a spent token is accepted and nobody else
has it yet (`Undelivered`). One lemma per kind of step (take, spend, lose, drop,
store, type) keeps `Good`, and every action is one of these. The initial state
assumes that no two rows hold the same refresh token; where an operator enters one
twice, the first refresh makes the other row's stale. `ProbeMendsHolds` needs the
types, and that no row is created or deleted.

`ExpiryHolds` is `ExpiryIsNotPromised`. A row is written from a reading
that may be old by then, so `ExpiryInv` follows every credential in hand: as long
as no edit has overtaken the row, what was read is not past the secret stored now
(secrets are only replaced by longer-lived ones), and neither is the expiry to be
written (`Truthful`). It takes `LifetimeAssumption`: a new access token is not due
for renewal at once, and a JWT in the initial rows has an expiry.

`StreamProofs` proves `CutsHold` for bodies of any length and any cut. The
incremental UTF-8 decoder keeps all it needs (`DecodeConcat`: decoding a text in
two parts gives the text in one). The first blank line of a text stays its first
whatever follows (`FirstStays`), since a CR LF CR LF that the end of the text cuts
holds no shorter blank line that only shows later; so a text can be drained in two
parts (the frames of the first part, then those of its rest with the second), and
a number of rounds beyond the number of blank lines changes nothing. `DecoderInv`
says of the state what `CutsDoNotMatter` says of the body.

`FormatHolds` compares two ways to find the frames: the decoder searches for blank
lines, `Reference` reads characters. It goes by induction on the length of the text
(`ReferenceIsDrained`), one blank line at a time. A blank line ends a frame and reading
begins anew (`BlankLineEnds`), so the reference of a text is that of what stands
before its first blank line, then that of what follows (`ReferenceFirst`). A text
without blank lines is one frame for both (`CalmIs`: between two ends of line there is
a line, except at the beginning, where empty lines are skipped). The hypothesis of the
property, no blank line of mixed ends, is not inherited by what follows a blank line;
`Soft` is: an LF comes before a CR at the beginning only, or inside CR LF CR LF.
`ClosedInv` says that a closed decoder has returned what draining the whole body
gives.

`BrokenBodiesHold` adds
`ShownInv`: while a body is read, and where it broke, what has been shown is the
events of the frames returned. `MalformedHolds` needs `EndedInv`: once the decoder is
closed, the call has failed with a parse error if the frames held no event, and
succeeded otherwise, or met a frame the parser raises on. `BlameHolds` adds to its
property that a body is read only after an answer below 400, and that nothing
unforeseen has happened while the call goes on (`BlameInv`).

`StreamProofs` also proves the three properties of `turn` for turns of any length.
`FramesHold`: until the turn ends, the body begins with the role as soon as
anything was emitted, nothing in it is final, and every id in `_tool_started` has
had its call frame under its index (`OpenInv`). `StreamsAccept` needs that what
`stream()` has aggregated is what `complete()` would have (`VerdictInv`), that it
holds text or a call exactly if an event brought one (`Answers`), and that a turn in
which nothing was emitted has neither. `StreamsTell`
compares messages: `StoryInv` says that what a client has read from the chunks so
far is what has been aggregated, each call under the index of its id (`Numbered`),
and call for call (`Listed`) as long as no two calls of the turn are taken for one
(`ToldApart`). No turn is excluded: in the others text, reasoning and finish reason
agree all the same, and every call of the complete answer is one the stream began,
while the calls differ. That they do, whatever comes later, is what `Weighed` is for:
it compares the length of all arguments the client has with that of the arguments
aggregated (`Weighs`). Each call adds its own to both, unless it is taken for an
earlier one, whose arguments it replaces in the aggregate only (`MergeWeighs`): from
then on the client has more.

`MarkupProofs` is about the splitter and the tool parser, for any text and any
`MaxHoldback`.

- A state of the splitter is given by three places of the answer: where the body of
  the open wrapper begins, where the buffer begins, where it ends. A step takes an
  opening or a closing tag, gives up a wrapper too large, holds back, or passes text
  on (`StepIs`, one lemma per case). `Moves`: the places stay in order and the body
  within `MaxHoldback`. `Says` is the meaning of "incremental": what a step returns,
  followed by what is still ahead, is what `segment_text` makes of what was ahead,
  for every continuation of the answer, if no tag is torn by the cut (`Clean`) and no
  wrapper given up. The loop and `feed` inherit it, as does `segment_text` itself
  (`Inner`: what it says when it starts inside of a wrapper).
- The tool parser is followed through the text it is fed: `Tells` says that the text
  and the calls it has returned, with those of its buffer followed by any further
  text, are those of all it was fed, and that positions stay in order.

`QwenParserProofs` composes them. The properties of `response` speak of events, none
of which says what is held back, so none is inductive. `ParserInv` is: types
(`ParserTypeOK`); `AnswerInv`, that the answer so far has been cut into segments which
say it together with what is ahead (`Told`), that the events say these segments
together with what the tool parser holds (`Voiced`), and that this is no more than a
beginning of a marker or an open block (`ToolRested`); `CallsInv`, that the
accumulator has of each index the arguments of its fragments (`Reassembled`).
`OnlyTheUnfinishedWaits` follows. `ThoughtsAreSaidOnce`, `NativeCallsAreWhole` and
`TextKeepsItsOrder` add what the end of the response changes. `TurnEndsOnce` has
`EndInv`: until then no event is "done", `sawCall` is true exactly if there was a call
or a fragment, and without one the reason is the upstream's. `AnswerArrivesWhole` and
`NothingLeaksBetweenTags` have `AnswerEnd`: what a closed response shows is the text
of the whole, short of a beginning of a marker where tools are parsed.
`NothingLeaksBetweenTags` is `NothingLeaks` for answers cut between their tags. For
one cut inside an opening tag it is false (finding 3). For one cut inside a closing
tag the run `response` checks it without tools, and no theorem could say it of every
text: the splitter misses the end of the wrapper and takes what follows for its
contents until another closing tag, and if among this is the opening marker of a tool
block, or an opening tag that is ended by the `>` of that closing tag, it shows what
the whole text does not. `CallsAreReassembled` holds for fragments of any number, order and index.

`InductionLemmas` holds what these rest on: from `LeastNatural`, that a function
recursive over the naturals exists and has the values its equation says. A
recursive function is a `CHOOSE` in TLA+, and each recursive definition of the
models gets a lemma that one element more is one step more.

Only model-checked:

- `Termination`: liveness under fairness.
- `NothingLeaks` for answers cut inside a closing tag (run `response`): true of the
  texts of that run only.
- The three runs that find a violation.

## 6. Findings

1. `lease_leak`. A lease is counted in `_acquire` (`gateway/scheduler.py:91`) and
   released by a `finally` that starts later
   (`services/completion_service.py:190, 253`). A client that leaves in between
   leaves the count up for the life of the process.
2. `cooldown_cut`. `mark_success` clears `cooldown_until` whoever set it
   (`gateway/scheduler.py:203`): an answer in flight ends the sleep another
   request's 429 has just started, against README.md:54.
3. `torn_tag`. An opening tag with attributes that is cut after its name is
   longer than what `_safe_emit_boundary` holds back
   (`providers/qwen/markup.py:265`), so the tag and the wrapper's contents are
   shown, against README.md:136.

Also seen while modelling, and not the subject of a run. Where one touches a
property, the property states what the code does:

- `acquire` raises `no_credentials` when the credential it chose does not decrypt
  (`gateway/scheduler.py:106-115`). A request that has tried nothing ends with it
  though others are eligible, against the docstring at :72; `ErrorIsInformative`
  names the case.
- What follows a `<tool_call>` marker is kept until its end comes, without a limit
  (`providers/qwen/tools.py:171-174`): an answer whose block stays open is buffered
  whole, against README.md:622; `OnlyUnfinishedWaits` names the case.
- Blocks may name their id (`providers/qwen/tools.py:145`). Of two with one id a
  stream makes one call with the arguments of both (`gateway/normalizer.py:206`),
  where `complete()` keeps the later arguments; two with the same index and name are
  one in `complete()` and two in the stream (:127). README.md:689 says that tool
  semantics are never invented. `StreamedIsComplete` says that these are all the turns
  in which the calls differ.
- A turn with neither text nor call is a success for `stream()` and a parse error for
  `complete()` (`services/completion_service.py:211` against the comment at :129);
  `CompleteImpliesStreamed` says that these are all the turns the two judge
  differently.
- `int(float("inf"))` raises OverflowError, which `_retry_after` does not catch
  (`providers/qwen/client.py:513-515`): a 429 with such a Retry-After becomes an
  internal error and rests nothing, against README.md:54; `FailureIsUpstreams` names
  the case.
- An event the parser raises on, as by `int(index)` (`providers/qwen/parser.py:67`),
  passes the handler of `_consume_sse` (`client.py:460`) and becomes an internal error
  that is not retried, against README.md:645 and :734; `FailureIsUpstreams` names it.
- A model id may hold a `#` or a space at its ends (`admin_schemas.py:147`), but
  `resolve` strips and cuts the name it is asked for (`gateway/router.py:47-56`): such
  a model is listed and never matched. `ListedIsServed` speaks of the other names.
- An update of settings puts its values in force before its commit
  (`services/settings_service.py:75`). One that fails leaves the process with a value
  while the table keeps another, until the next start, against the docstring at :3-5.
  `SettingsAgree` excepts its keys.
- `MAX_FAILOVER_ATTEMPTS` does not bound the credentials a request tries:
  pre-flight rejections are free (`services/completion_service.py:313` against
  README.md:425).
- README.md gives 300 s as the cooldown after a generic failure; the code starts
  at 15 s and doubles up to it (`gateway/scheduler.py:244-248`).
- An expired row is not eligible even when it holds a refresh token, so traffic
  never renews it (`gateway/scheduler.py:175` against README.md:466-467, 732).
- Two requests that refresh with the same single-use token: the second is
  refused and puts to rest a credential the first has just renewed.
- A rotation in flight, or a probe, overwrites the secret the operator has typed
  since it read the row. This is why `ExpiryIsNotPromised` excepts `overtaken`.
- On SQLite, whose dates come back without a zone, the probe always writes
  `expires_at`, also over a newer one (`services/credential_service.py:193`);
  and its success clears a cooldown that replaced the one it had read, while one
  that began on a row without any survives it.
- On PostgreSQL two requests of one key that end together count as one
  (`services/metrics.py:141`), and the entry of a key deleted meanwhile is lost.
- The end of a wrapper is searched in the newest chunk only: a closing tag cut in
  two is missed and the rest of the answer is taken for the wrapper
  (`providers/qwen/markup.py:210, 213` against :159). If the opening marker of a tool
  block is swallowed with it, the contents of the block are shown.
- A response with nothing but native tool calls is refused as having no event
  (`providers/qwen/client.py:463`, `parser.py:266`, against README.md:683-684).
- Two updates that overlap on a key may leave the process with the value of one and
  the database with the other's, until the next start
  (`services/settings_service.py:63-77`).
- `GatewaySettings` takes values one by one: a request reads `default_provider`
  before its await and `default_model` after it (`gateway/router.py:46, 82`) and
  may see half of an update.
- The docstring of the router puts aliases before exact names
  (`gateway/router.py:3-8`); the code tries exact names first (:60).
- Discovery sets `enabled` and the aliases of every model it finds, so it turns
  disabled rows on again and replaces aliases the operator has typed
  (`services/model_service.py:80-128`). What it does not undo is an edit made
  between its read and its commit (`UnseenEditsSurvive`).
- A process that dies in the middle of seeding leaves a partial table that no
  later start completes (`services/model_service.py:131-162`).
- With every row disabled, `GET /v1/models` shows the fallback list while `resolve`
  sends its names to the default model: `ListedIsServed` excepts it. A disabled
  default model, or the target of an alias, is still served.
- A 400 or 404 of upstream is not retried, yet it rests the credential like any
  failure (`gateway/errors.py:72-74`, `credential_fault`, is read nowhere).
- A Retry-After that is a date is ignored (`providers/qwen/client.py:509-516`); an
  error event inside a 200 answer carries none.
- A model may be saved for a provider that does not exist (`admin_schemas.py:151`),
  or for the mock while it is switched off: its requests end with `invalid_request`,
  and the log of a stream stays at `pending` (`services/completion_service.py:161`).
- Native fragments that never get a name make the finish reason `tool_calls` without
  a call (`providers/qwen/parser.py:199-201, 265-267`): `EndsOnce` says so.
- The success of a request in flight, and an internal error, make a credential
  healthy again that was marked invalid meanwhile (`gateway/scheduler.py:203, 253`).
  `RestingIsLeftAlone` and `FailureRests` except them.
- `from_exception` names TimeoutError after OSError, whose subclass it is: it is
  classified as a network failure.
- A probe renews an expired credential whose new token is no JWT and whose answer
  names no `expires_in`, but leaves the old `expires_at`: the row stays out of the
  rotation (`services/credential_service.py:193`). `ProbeMendsWhatItSaw` therefore
  asks for a known expiry.

## 7. What the models leave out

- The operator's edits are atomic: their read and their commit are one step. The
  probe, which is not, is in `TokenRotation`.
- Database failures other than a row that is gone, a foreign key and the waiting
  for SQLite's lock (not its timeout after 30 s).
- The lease is counted after the read of the rows and before the commit; both
  are under the lock, and the model takes the read and the count as one step.
- Two uses within one clock tick: `used` holds the tick of the selection, so
  the order of `last_used_at` is the order of selections.
- Requests of `CompletionService` arrive once. A client that retries is another
  request. In `RequestLedger` they come again.
- `CompletionService` knows secrets only as readable or not, `TokenRotation`
  knows requests only inside `_acquire`, `RequestLedger` takes a completion for
  one step with any verdict. Each is over-approximated where another has the
  detail.
- In `TokenRotation`: `base_url` and the auth mode (a web cookie is never
  refreshed), creation and deletion of rows (in `CredentialScheduler`), the row
  that `mark_failure` reads anew.
- In the parser: the reasoning splitter, the layout of metadata, warnings, the
  prompts built for tools. In `ChatStream`: warnings and the layout of a chunk.
- In `RequestLedger`: `gather_stats`, which counts in separate queries, the
  body-size check, and the second key or client of the same digest or address.
- `CompletionService` has no restart: its rows start in any state an earlier run
  leaves (`InitialRows`), and everything else it keeps is in memory.
- In `ModelCatalogue`: deletion is one step (what comes between its read and its
  commit changes nothing it does), columns no route depends on, the provider call
  before a discovery. Settings other than `bool` stand for their own text.
- In `QwenExchange`: the payload and headers sent, the chat id that is received,
  `list_models`; a JSON frame from which the parser makes no event counts as one
  without data. `id` and `retry` fields of a frame have no reader.
- Hashing, encryption, the admin cookie, logging, the CLI and the mock provider
  keep no state that other components read.
