# TLA+ models of cline-proxy

cline-proxy is a local gateway: it speaks the OpenAI chat, OpenAI Responses and
Anthropic Messages protocols to coding agents and forwards their requests to
one upstream with a pool of API keys. The modules here model the parts of it
that keep state, run concurrently or have to survive failures, check them with
TLC on small instances, and prove the most important facts about the key pool,
its state file, the shadow store, the log writer, the search loops, the stream
timers, the catalog's refresh and the way of a request for every size with
TLAPS. Paths below are relative to the repository (`src/src/pool.rs` is the
crate's `pool.rs`).

## 1. The system

| component | state | operations | works with |
|---|---|---|---|
| key pool (`pool.rs`) | per key: cooldown deadline, probe flag (one mutex each); the atomic sticky `active` index; a `Notify` for the writer | `select`, `mark_http_429`, `mark_success`, probe leases, `persisted_state`, `restore` | every request; the writer |
| failover loop (`upstream.rs`) | per request: attempted keys, the selected key, its lease | `send_chat` | pool; HTTP client |
| persistence (`server.rs`, `state.rs`) | the state file, `persistence_healthy`, the debounce of the writer task | flush, store, load, shutdown | pool; file system |
| rate limit classification (`rate_limit.rs`) | none | is an answer an effective 429, which cooldown does it carry | failover loop |
| reasoning shadow store (`reasoning_shadow.rs`) | per session: entries, charged bytes; a queue; a total (one mutex) | `store`, `restore`, `clear_session`, `enforce_limits` | all three frontends |
| model catalog (`model_catalog.rs`) | list, age, `refresh_in_flight` (one async mutex) | `free_model_ids` | `/v1/models` handlers; upstream |
| stream watch (`stream_watch.rs`) | four timers of one stream | `on_*`, `check`, `next_deadline` | the stream loops |
| context guard (`context_guard.rs`) | none | `evaluate`, `well_below_window` | Messages handler; token count |
| request conversion (`anthropic.rs`, `responses/request.rs`) | of one pass: calls that may be answered or wait for their message | `convert_request`, `build_chat_request` | handlers |
| Responses pump (`responses_pump.rs`) | round, search budget, line buffer | pump, aggregate | converter, watch, search, shadow store |
| Responses converter (`responses/stream.rs`) | output items, indices, tool calls, usage | `feed_chunk`, `finish` | pump |
| Anthropic stream (`anthropic.rs`) | content blocks, tools, rounds | stream, aggregate, request conversion | watch, search, shadow store |
| web search (`websearch.rs`) | budget of a request | classify a round, run it, append results | both streams; upstream |
| GLM policy (`optimize.rs`, `glm53/`) | none | epochs, thinking, prompt rendering, token counts | handlers |
| prefix stability (`cache.rs`) | none | normalise system prompts, canonical arguments, session identity | handlers; shadow store |
| request handlers (`server.rs`) | of one request: body, policy, reserve | convert, restore, prepare, guard, send, answer | all of the above |
| log writer (`obs.rs`) | bounded queue, segments and their sizes, log files | `emit`; receive, rotate, write, clean, flush, report | everything |
| server, configuration, redaction, console, proxy route | configuration | routing, authentication, start and stop | |

Components interact through calls, with four exceptions, which are where the
hard behaviours lie: requests share the **pool** without a common lock; verdicts
reach the **writer** through a permit of `Notify`; the **shadow store** and the
**catalog** are shared under a lock, the catalog's held across an await; and a
**stream** is driven by a `select!` over client, timers and upstream.

### What is hard here, and what makes each part correct

* *Pool.* `active` is loaded, compared and exchanged without a lock, keys are
  locked one at a time, and a request's verdict arrives any time after its
  selection. Correct means: a usable key is never refused; failover ends; a
  probe flag always has an owner who clears it; every key follows its
  documented life cycle; the active key is left only when it is not healthy.
* *Persistence.* The snapshot reads keys one by one while verdicts arrive; a
  permit is consumed before the debounce; stores fail; the process crashes,
  drains, or is shut down under load. Correct means: whenever the writer is at
  rest and reports success, the file agrees with memory.
* *Shadow store.* Limits are enforced through a queue and totals kept beside
  the map, through long mixes of calls. Correct means: they never drift apart.
* *Catalog.* Any handler may be dropped inside its fetch.
* *Stream watch.* The deadline that is slept to and the check that is made must
  agree; a stall that is reported must be the upstream's.
* *Streams.* An upstream sends calls in fragments, in parallel, with their names
  late, breaks anywhere, and is continued after searches; the client is slow or
  leaves. Correct means: what the client reads is a word of its protocol,
  nothing of the answer is lost, the streamed answer and the whole one are the
  same, and the session's reasoning ends as the answer requires.
* *Requests.* Four modules look at a history in turn, and two of them find the
  boundary of the reasoning epoch by themselves, over different
  representations. Correct means: what is sent is a conversation; its reasoning
  is that of one epoch; the count says what is sent; a prompt extends the one
  before it; the window is kept.
* *Log writer.* Retention is kept in memory, over a directory that outlives the
  process and holds other files. Correct means: the two stay in step through
  failures and restarts, only the oldest files go, and drops are reported.

## 2. Modules

| module | models | notes |
|---|---|---|
| `KeyPool` | `pool.rs`, `send_chat` | the core; one action per atomic access |
| `KeyLifecycle` | the documented states of one key | abstract; `KeyPool` refines it |
| `StickyRouting` | the strictly sticky router of ADR 0002 | abstract; `KeyPool` with one request at a time refines it |
| `SelectHistory` | `KeyPool` with a history variable | states that `select` refuses nothing usable |
| `MCKeyPool` | `KeyPool` without races of threads | `CoarseSpec`, for a counterexample; also runs the sequential instance |
| `PersistentPool` | `KeyPool` + writer, file, shutdown, crash, restart | extends `KeyPool` |
| `FlushHistory` | `PersistentPool` with a history variable | states what the final flush stores |
| `PoolProofs` | | theorems about the five modules of the pool above, except `MCKeyPool` |
| `Collections` | | sums, removal and choice in sequences, partial maps: the operators several modules share |
| `CollectionLemmas` | | what those operators compute, for the proofs |
| `ReasoningShadow` | `reasoning_shadow.rs` | |
| `ReasoningShadowProofs` | | theorems about `ReasoningShadow` |
| `ModelCatalog` | `model_catalog.rs` | |
| `StreamWatch` | `stream_watch.rs` and its drivers | |
| `SearchRounds` | the web search loops of `anthropic.rs`, `server.rs`, `responses_pump.rs`; `websearch.rs` | |
| `SearchRoundsProofs` | | theorems about `SearchRounds` |
| `TimerProofs` | | theorems about `StreamWatch` and `ModelCatalog`, the two that live by a clock |
| `ResponsesEvents` | the events of the Responses protocol | abstract; `ResponsesStream` refines it |
| `ResponsesStream` | `responses/stream.rs`, the rest of `responses_pump.rs` | |
| `MessagesEvents` | the events of the Messages protocol | abstract; `AnthropicStream` refines it |
| `AnthropicStream` | `StreamState`, `stream_body` and the aggregation of `anthropic.rs` | |
| `AnthropicStreamProofs` | | theorems about `AnthropicStream` |
| `ChatMessages` | the chat messages all frontends convert to | operators only |
| `AnthropicRequest`, `ResponsesRequest` | the two conversions | instances in `RequestPath` |
| `PromptPolicy` | `optimize.rs`, `glm53/reasoning.rs`, `context_guard.rs`, `cache.rs`, `restore_into` | operators only |
| `RequestPath` | the handlers of `server.rs` | composes the four modules above with the shadow |
| `MCRequestPath` | | the clients of the run |
| `RequestPathProofs` | | theorems about `RequestPath` and the modules it composes |
| `LogWriter` | the sink and the writer thread of `obs.rs` | |
| `MCLogWriter` | | the directories of the run |
| `LogWriterProofs` | | theorems about `LogWriter` |

### KeyPool

Each slot of `Request` is one `send_chat` at a time; `pc` is the place in the
code between two accesses to shared memory.

| `pc` | code | leaves by |
|---|---|---|
| `idle` | no call | `Arrive` |
| `select` | before `active.load` | `SelectStart` |
| `scan` | the loop of `scan`, one key (one lock) per step; `wide` marks the second pass | `ScanSkip`, `ScanWiden`, `ScanReject`, `ScanTake` |
| `switch` | before the compare-and-exchange of `set_active` | `SelectSwitch` |
| `send` | waiting for the upstream | `EndWithoutVerdict`, `MarkSuccess`, `MarkHttp429` |
| `advance`, `candidates`, `promote` | `advance_if_active`: load, one candidate per step, exchange | `AdvanceIfActive`, `AdvanceScan`, `AdvanceSet` |
| `notify`, `notifySuccess` | before `notify_one` | `NotifyDirty`, `NotifySuccess` |
| `drop`, `dropRetry` | before the drop of the `ProbeLease`, at the end of the call or of the iteration | `DropLease` |

`until`, `probing` and `active` are the fields `cooldown_until`,
`probe_in_flight` and `active`; `dirty` is the permit of the `Notify`. `seen`
and `at` are what `select` (or `mark_http_429`) captured: the index it loaded
and its `Instant::now()`. An error, an answer that is neither a success nor an
effective 429, and a client that goes away are all `EndWithoutVerdict`.

Left out: counters and the metadata of the last 429 (`rate_limit_kind`,
messages, timestamps), which nothing in the pool reads back; `active_since`;
log lines; the cap of 366 days (a cooldown is drawn from `Cooldowns`, which
stands for the values after it; 0 is possible, from `Retry-After: 0`).
`mark_http_429` reads the clock just before it takes the lock; the model does
both in one step.

### PersistentPool

`writer` is the place of the writer task (`waiting` for the permit, `debounce`,
`snapshot` with the key it has come to in `cursor`, `store`), `process` that of
`serve`. `Store` succeeds or fails; `Crash` may come anywhere, also between the
steps of a flush, and forgets all but the file and the clock; `Restart` is
`with_log_sink` with `restore`.

The signal stops the listener and nothing else. A handler accepted before it may
still come to its `send_chat`, and the pump of a Responses stream is a task of
its own that outlives the drain of the HTTP server and calls `send_chat` when it
continues after a search (`responses_pump.rs:186` and `332`). So `Serve` lets
calls begin and end as long as the process lives: while it drains and beside its
final flush, which comes after the writer is aborted (`FinalFlush`; an abort
takes effect where the writer awaits, never inside a flush). `FlushHistory`
records what every key is while that flush runs.

Left out: what changes between the last store and the exit of the process, which
is lost like everything in memory (the last `Store` ends the process); a corrupt
file (it is set aside and the pool starts fresh); keys that were added, removed
or renamed between two starts; and a wall clock that moves against the monotonic
one.

### ReasoningShadow

`store` is the record `ShadowInner`; every method runs under its lock and is
one step. Texts are sizes. `Evict` is both loops of `enforce_limits`: they pop
the same queue, so together they pop its shortest prefix that satisfies both
limits. `restore` changes the store only when it finds an entry that is too
old. Any session may call at any time: nothing is assumed of the frontends.

### ModelCatalog

`queue` is the fair queue of the tokio mutex, its head the holder.
`Disconnect` drops a handler where it awaits, in the queue or in the fetch.
`fetched_at` is a set with no or one instant. `rest` is a history variable.
`CatalogInit`, `CatalogNext`, `CatalogSpec` and `CatalogTypeOK` carry their prefix
because `TimerProofs` extends `StreamWatch` as well.

### StreamWatch

Instants are kept as ages, which makes the clock finite without a bound on the
length of a stream; ages beyond `MaxAge`, which is larger than every timeout,
are not told apart. `chunkFirst`, fixed by `Init`, is the order of the biased
`select!`: true for both loops of `anthropic.rs`, false for the Responses pump. `blocked`
is the wait for a client that does not read. `quiet` and `made` are history
variables that say what the upstream really did. `aggregate_responses` uses a
`select!` that is not biased: each time it may take either order, while a
behaviour of the model has one of them throughout.

### SearchRounds

One request, since requests meet only in the pool and the shadow store. A
generation is reduced to what it ends with (`Round`): the search calls in
order, each with arguments that are accepted or refused, whether there is a
call of a client tool, and the finish reason. How it ends is the choice of an
action: `StreamBreaks`, `ErrorEvent`, `StreamTruncated`, or one of the answers.

| `pc` | code | leaves by |
|---|---|---|
| `reading` | the loop over the upstream body | `GenerationEnds` |
| `searching` | between two calls of `search_web` | `Search`, `MixedRoundEnds`, `Ground` |
| `continuing` | awaiting `send_chat` | `Continue`, `ContinueFails` |
| `closing` | the last frames, before the shadow is settled | `Deliver` |
| `done` | the request has ended | `AnswerRead`, for the client |

`uses_left` belongs to the request in the Messages loops and is refilled in
every round of the Responses loops, which count rounds (`rounds_left`)
instead. `shadow` is the effect on the session's reasoning. A client that
leaves drops the future wherever it awaits, except that the pump is a task of
its own and must notice (`PumpNotices`).

`Deliver` hands the end of the answer over and settles the shadow; it does not
bring it to the client. The pump's last `tx.send` puts a batch into a channel of
64 (`responses_pump.rs:181` and `403`) and `commit_shadow` (416) follows at once;
a whole answer goes to the server below the handler. So `client` stays `there`,
and `AnswerRead` decides whether it reads what was handed over (`answered`) or
leaves without (`missed`). `gone` is a client that left before.
`DisconnectKeepsShadow` is about `gone` only; of a `missed` client it would be
false (section 4).

Left out: what a search finds, or whether it fails (both are `searched`), the
text around the calls, and turns whose reasoning is empty, which store nothing.

### ResponsesEvents, ResponsesStream

`conv` is the `ResponsesConverter` with the events it has appended (`out`);
`FeedChunk` is one choice of a chunk, and what follows it in the code (finish,
error, a round of searches) is an operator on `conv` of the same name. `pc` is
the place of the pump.

| `pc` | code | leaves by |
|---|---|---|
| `polling` | the `select!` over the upstream | `FeedUpstream`, `StreamBreaks`, `StreamEnds`, `SearchRound`, `PumpNotices` |
| `sending`, `showing`, `closing` | `tx.send` of a batch, in the stream, after the searches, at the end | `Send`, `PumpNotices` |
| `searching` | `execute_search_round` | `ShowSearches` |
| `continuing` | `start_continuation` | `Continue`, `ContinueFails` |

`channel` is the bounded channel to the body of the answer, and `ClientReads`
takes one event out of it: `phase`, `items` and `output` are what a client makes
of the events. A client drops events for items it does not know, so that a
missing or misplaced event shows. `ResponsesEvents` is the protocol that the
head of `responses/stream.rs` lists; the refinement maps three of its variables
to the client's. `said` is a history variable: what the upstream has said, kept
without looking at the converter.

The list is kept with two exceptions, which the converter needs and section 4
has as disagreements. Text of a message may come after its item is done
(`Delta`). And a call may be added without its name if the upstream has begun it
without one: `late`, the fourth variable of `ResponsesEvents`, counts such calls
in `said`, and `Added` allows no more nameless items than that. A call that the
upstream names in its first part never appears without its name.

Left out: the texts (a text is the number of its deltas), usage numbers, ids,
and the timers, which are in `StreamWatch`.

### MessagesEvents, AnthropicStream

`state` is `StreamState` with the frames that are being yielded; `Handle` is
`handle` for one event, and `whole` is the `NonStreamAccumulator` fed with the
same events, so that the two ways of answering can be compared (`Converted` is
`convert_response`). The body of a Messages answer is pulled: the code goes on
only when every frame has been taken (`At`), and `ClientLeaves` drops it where
it is. `pc` follows `stream_body`: `polling`, `ended` after the body of the
upstream, `searching`, `mixed`, `pausing`, `grounding` around the searches, and
`completing` or `closing` before the shadow and the telemetry are settled.

Left out as in `ResponsesStream`; limits on sizes are one way to break
(`StreamBreaks`).

### RequestPath and what it is made of

One client sends its growing history again and again, as an agent does. A
message is a record of what its preparation tells apart (`ChatMessages`):
contents are of six kinds, texts and arguments are not kept, and `turns` says
which of the client's messages a chat message came from.

| `phase` | code | leaves by |
|---|---|---|
| `reading`, `refused` | conversion, one message, block or item per step | `ReadHistory`, `Submit` |
| `shadow` | the choice between a new epoch and a restore | `ClearEpoch`, `BeginRestore` |
| `restoring` | `restore_into`, one message (one lock) per step | `RestoreMessage`, `EndRestore` |
| `preparing` | policy, strip, compaction, canonical arguments | `Prepare` |
| `guarding` | the context guard of the Messages handler | `GuardPasses`, `GuardCounts` |
| `sending` | `send_chat` | `SendChat`, `SendFails` |
| `answering` | the answer, and what it leaves in the shadow | `StreamedAnswer`, `WholeAnswer`, `ResponsesAnswer`, `RelayedAnswer` |

`Leave` drops the handler where it waits, and `RefuseRequest` answers with an
error from the policy, the guard or the upstream. `Forget` takes any entries
from the shadow at any moment: it stands for pressure, age and other requests
of the session, all of which `ReasoningShadow` has in detail. `conv` goes on
from request to request, which says that the conversion of a history begins
with that of its prefix; that holds because the code converts in one pass.

`AnthropicRequest` and `ResponsesRequest` convert one message, block or item
per action. What no action takes is `Refuse`, which can come anywhere.
`CountsTokens` and `CountedThinking` are `anthropic_count_tokens`, which finds
the epoch over the client's own messages while the handler finds it over the
converted ones.

A count in the guard is an arbitrary number of `Tokens`: exact, or short of the
truth when the counting passes over calls or reasoning (`Overlooked`), and
missing when the body is not countable (`CountKnown`, which takes the reasoning
effort for one the counter accepts).
`glm53.telemetry.exact_input_tokens` is taken to be on, its default.

Left out: tools, `tool_choice` and sampling parameters, the text of contents,
the hashes of `cache.rs`, authentication, body limits and telemetry.

### LogWriter

`queue` is the bounded channel, `Emit` is `LogSink::emit`. `pc` is the place of
the thread: `waiting` for a record, `writing`, `cleaning` (`enforce_quota`),
`flushing`, `reporting`, `exiting`. `segments`, `total` and `active` are the
fields of the same names in the file writer; `buffer` is the `BufWriter`. `disk`
is the directory: the size of each file and the run of the process that made
it. A file is its number; 0 is a file somebody else put there. A new file has
the number after the highest one in `segments`, or the next that the directory
does not have (`Fresh`). A line and its newline go to the `BufWriter` one after
the other, so that any part of what is buffered may have reached the file
(`Buffered`). A roll-over, a write, a flush and a deletion can each fail: a
write that fails may leave a part of a record in the file that `segments` does
not count (`WriteFails`), and from then on the writer neither writes nor cleans
(`degraded`). `Crash` can come anywhere, `Exit`
is the end of `main`, which does not join the thread; both forget all but the
directory.

Left out: the contents of records, sampling and the levels of detail, and the
flight recorder; that the last drain of a writer that ends skips the runtime
records (`obs.rs`, the loop over `try_recv`); and that names are compared as
strings, so that a number beyond 999999 (`{:06}`, `obs.rs:411`) would sort before
smaller ones, while the model compares numbers.

## 3. Runs

| run | instance | shows |
|---|---|---|
| `pool_races` | 2 keys, 2 requests, cooldowns 0 and 1, 3 instants | type, `NoStrandedProbe`, `NeverRefusesUsable`, refinement of `KeyLifecycle` |
| `pool_sequential` | 3 keys, 1 request, cooldowns 0 to 2, 5 instants | refinement of `StickyRouting`; `Terminates`, `ProbeReleased` |
| `persist_durability` | 2 keys, 1 request, cooldown 1, 2 instants | `PersistInv`, `FinalFlushIsCurrent`, `CooldownsReachDisk` |
| `shadow_limits` | 3 sessions, 2 calls, 2 sessions and 5 bytes allowed | `ShadowInv`, `WithinLimits`, `NewSessionSurvives` |
| `catalog_refresh` | 3 handlers, time to live 2 (1 when empty) | type, `Answered`, `RestsBetweenFetches` |
| `watch_timers` | both orders, every choice of disabled timers | `WatchInv`, `StallIsReal`, `NothingHangs` |
| `search_rounds` | 4 loops, caps of 2 searches and 3 generations, 3 calls each | type, `WithinCaps`, `CallsAnswered`, `PausesOnlyAtALimit`, `DisconnectKeepsShadow`, `RequestEnds` |
| `responses_stream` | 4 chunks, 2 calls in parallel, 1 round of searches, a channel of 1 | `ResponsesInv`, refinement of `ResponsesEvents` |
| `anthropic_stream` | 4 events, 2 calls, 1 search, 2 generations | `AnthropicInv`, `ShadowFitsAnswer`, refinement of `MessagesEvents` |
| `request_path` | 7 clients, histories of up to 8 blocks, 1 call id, a window of 24 | `PathInv`, `CountAgrees`, `EpochReasoning`, `WindowKept`, `PrefixStable` |
| `guard_tool_loop` | 1 client with tools | the guard lets a request pass that does not fit (section 4) |
| `log_writer` | 3 records of 1 and 3 units, a queue of 1, 2 runs of the process, quota 4 | `LogInv`, `QuotaKept`, `OldFilesIntact`, `OldestGoesFirst`, `DropsReported` |

Some invariants are conjunctions of a type invariant and of what belongs with it.

* `PersistInv`: types, and `RestCostsNothing`: the file of a writer at rest
  agrees with memory.
* `ShadowInv`: types, `QueueIsSessions` and `TotalIsExact`: the queue and the
  totals never drift from the sessions.
* `WatchInv`: types, and `DeadlineIsExact`, the sleep agrees with the check.
* `NothingHangs`: `SilenceEnds`, and `HeartbeatsEnd` for the order of the pump.
* `ResponsesInv`: types, and `NothingLost`: a complete answer has all the text,
  the reasoning that was asked for, and every call with all its arguments.
* `AnthropicInv`: types, and `StreamAndWholeAgree`: without a search, the
  stream shows what the aggregation of the same events answers, if the upstream
  says the id and the name of a call first.
* `PathInv`: types, and `AnswersFollowCalls`: what is sent is a conversation.
* `LogInv`: types, and `AccountsForDirectory`: `segments` and `total` are what
  the directory holds, but for a part of the record a writer has failed over.
* `QuotaKept` speaks of a writer that has not failed: a degraded one cleans no
  more.

Bounds. Two requests are what it takes for one to act between two steps of
another; a third is needed only to have two probes in flight beside the request
that clears the flag, and `MCKeyPool_SingleFlightProbe.cfg` has it. Two keys give
a full ring and one way out of it; the sequential run has three, so that the
first candidate can be skipped. Cooldowns of 0 and 1 with a clock of three
instants let a cooldown elapse while a request is between two steps, and be set
anew. The persistence run needs one request: the interleavings that matter
there are those of its verdicts with the writer, the crash and the shutdown, and
when one call has ended the next begins, also beside the final flush.
The shadow store needs three sessions to be over the limit of two, and sizes on
both sides of `MaxEntryBytes`. The clock of the pool stops at `MaxTime`; no
liveness property depends on time going on.

The caps of the search loops are small enough for every limit to be reached
with calls left over, and the number of generations is larger than the number of
searches, as in the code, so that both can be the first to run out.

Four chunks are enough for reasoning, text and two calls in one generation, for
a call in three pieces beside another part, and for a call, its search and an
answer after it. A channel of one batch makes the pump wait for the client
after every batch. The refinements are checked over every such stream.

In `request_path` the histories are long enough for a call, its result, a new
human turn and another call with a result (8 blocks for the client that asks for
thinking). One call id is enough, because a history may use it in two turns.
The window of 24 puts the lengths 0, 20 and 24 below a quarter of it, where
input and output need a smaller bound, and beyond it. The clients differ in
what they send, so that no combination has to be larger than its behaviour.

The log's files and the buffer hold two units, the quota is twice that, and a
record has one or three: it fits, or fills a file to its end, or is larger than
a file and than the buffer and passes the latter by. Files are found at the first
start both below and above the quota.

The runs of `SearchRounds`, the streams, `RequestPath`, `StreamWatch` and
`LogWriter` do not check for deadlock: a stream ends, a history reaches its
bound, and the process stays down after its last start. `KeyPool`,
`PersistentPool`, `ReasoningShadow` and `ModelCatalog` never stop.

### Fairness

* `KeyPool`, `PersistentPool`: weak fairness of each request's own steps
  (`SendChat`) and of the writer task. The runtime schedules every task; the
  wait for an answer ends because the HTTP client has a connect and a read
  timeout (`upstream.rs:127-130`) and the configuration refuses zero for both
  (`config.rs:531`). Arrivals, the clock, shutdown and crashes owe nothing.
* `ModelCatalog`: weak fairness of each handler; the lock is granted in order
  and the fetch has a timeout of its own (`upstream.rs:332`).
* `SearchRounds`: weak fairness of the gateway. Generations end, by a stall at
  the latest when a timer is enabled; searches have a timeout
  (`websearch.rs:25`) and `send_chat` returns (`Terminates`). The client reads or
  leaves.
* `StreamWatch`: weak fairness of the clock and of the loop's two branches. The
  upstream and the client owe nothing: a client that never reads holds the
  stream open, and the properties say so. `HeartbeatsEnd` is stated for the pump
  only: a loop that polls the upstream first never looks at its timer while
  chunks are always ready.
* `LogWriter`: weak fairness of the thread, which waits with a timeout and never
  for anybody, and of the end of a process that shuts down. Handlers, starts and
  crashes owe nothing.

## 4. Where the code and its documents disagree

One disagreement has a run. "When set, input+output+margin must fit"
(`docs/adr/0008-stall-timeouts-and-observability-recovery.md:56`), but
`count_optimized_request` (`server.rs:1614`) hands the chat body to a counter of
Messages requests, for which a message of role `tool` is an error. There is no
count, and the guard lets the request through: in every turn of a tool loop
that ends with a result, however long it is (`guard_tool_loop`). `WindowKept`
says what the guard does keep.

Twelve more are stated as properties which TLC violates under the configuration of
the same name, without a run of their own. No document promises
`UnreadKeepsShadow`; it is there because the code around it takes care of the
disconnects that it can see.

| configuration | what a document says | what the code does |
|---|---|---|
| `MCKeyPool_SingleFlightProbe` | "at most one in-flight probe per key" (`pool.rs:9`) | a 429 of another request clears the flag of a probe in flight |
| `ModelCatalog_ServesFresh` | "on expiry triggers one bounded refresh" (`model_catalog.rs:75`) | a handler dropped inside its fetch leaves `refresh_in_flight` set, and nothing refreshes the list any more |
| `StreamWatch_IdleIsUpstreams` | "upstream stream was idle (no bytes)" (`stream_watch.rs:67`) | the pump, back from a slow client, ends a stream whose bytes are waiting |
| `SearchRounds_SearchesCapped` | the cap on "searches per logical request" (`websearch.rs:15`) | it holds per round in the Responses loops |
| `SearchRounds_UnreadKeepsShadow` | nothing (see above) | a client that leaves with the end of its answer unread has its shadow stored or cleared all the same (`responses_pump.rs:403-416`) |
| `SearchRounds_TruncatedIsError` | "truncated upstream streams produce one Anthropic error event" (`README.md:451`) | an answer that is not streamed takes a missing finish reason for `stop` (`anthropic.rs:1404`) |
| `ResponsesStream_NamesComeFirst` | the converter "never emits an item-added without `call_id`/`name`" (`responses/stream.rs:30-32`) | the item of a call is emitted at its first part, whatever that holds (`responses/stream.rs:466-511`) |
| `ResponsesStream_NoLateText` | an item is done once | text after a call, or after a search, is added to the message that is already done (`responses/stream.rs:392`) |
| `ResponsesRequest_ItemsKeepOrder` | "ordering is replayed conversation state - never reordered" (`responses/request.rs:11`) | a message between a call and its output comes out before the call, which waits for its message |
| `AnthropicStream_FailureKeepsShadow` | "Final answers clear the session's shadow state" (`anthropic.rs:2968`) | so does an error event before any tool call |
| `MCLogWriter_CleansToTarget` | "oldest segments deleted to `cleanup_target_percent` (85%) of quota" (`docs/OBSERVABILITY.md:87`) | the loop stops as soon as the quota itself is kept |
| `MCLogWriter_DrainedAtExit` | "a bounded drain (≤2 s) and exit" (`obs.rs:1102`) | `main` returns without joining the thread |

Of `NamesComeFirst`: if the upstream sends the name of a call after its first
part, `output_item.added` has an empty name, and `feed_tool_call_arguments`
patches it for `output_item.done` and the terminal event only. The same holds of
a late id. A comment says that the upstream sends the name first "in practice"
(`responses/stream.rs:522-523`). `FollowsProtocol` allows such an item, and no
other without a name.

Smaller ones are visible in the models only.

* An old key "never steals active back from a healthy key" (`pool.rs:7-8`), but
  a request that has tried the healthy key steps past it and takes `active`
  along (`ScanSkip`, `SelectSwitch`). `FollowsStickyRouting` therefore speaks of
  one request at a time.
* "Healthy requests never touch the disk" (`server.rs:2188`), but every success
  signals the writer (`pool.rs:333`, `NotifySuccess`).
* The writer persists "the active key" (`README.md:26`), but `select` moves it
  without a signal (`SelectSwitch`), so the file names the old one until the
  next verdict.
* "Evict least-recently-touched sessions first" (`reasoning_shadow.rs:321`), but
  the queue is in order of first insertion (`Insert`).
* A mixed Responses round does not run its searches (`responses_pump.rs:291-293`),
  although the comment on `has_client_tools` says that they execute
  (`responses/stream.rs:743`).
* The searches of the Responses loops use the key that is active at that moment
  (`responses_pump.rs:96`), not that of the chat request.
* A call whose name comes late is a client's call for good, even when the name
  is that of the search (`responses/stream.rs:476`).
* The end of a stream that comes with the last event of a body without an empty
  line is yielded, but neither the shadow nor the telemetry learns of it
  (`anthropic.rs:1771`, `TrailingTerminal`).
* Calls that come in no order of their own are taken in the order of a hash map
  (`anthropic.rs:2742`).
* The shadow of a session is cleared before the policy or the guard may refuse
  the request that begins the epoch (`server.rs:718`, `ClearEpoch`).
* A whole answer is remembered even for a client that asked for thinking, while
  a streamed one is not (`WholeAnswer`, `StreamedAnswer`).
* For a model outside the GLM family the guard reserves no output
  (`server.rs:823`, `Reserve`), and it is not asked again for the continuations
  of a search.
* `x-grok-conv-id` and `x-grok-session-id` take part in a session's identity in
  a comment only (`server.rs:399-401`).
* "Periodic reconciliation will correct drift" (`obs.rs:469-470`): there is
  none, and a file that cannot be deleted is forgotten until the next start
  (`stuck`).
* "Warn at most once a minute" (`obs.rs:498`): the first warning is suppressed as
  well, when the writer fails within the first minute.

## 5. Proofs

`PoolProofs` proves, for any number of keys and requests, any set of
cooldowns and any clock, from the assumptions named in `KeyPool`
(`KeyCountAssumption`, `CooldownsAssumption`, `MaxTimeAssumption`) and nothing
else:

* `TypeCorrect`: `Spec => []TypeOK`.
* `Invariant` and `ProbeFlagsOwned`: `NoStrandedProbe` and `OnlyHalfOpenProbed`.
* `RejectsOnlyUnusable`: `HistorySpec => NeverRefusesUsable`.
* `KeysFollowLifecycle`: `Spec => FollowsLifecycle`.
* `SticksToKeys`: `Spec => FollowsStickyRouting` when there is one request slot.

The inductive invariant `IInv` adds two facts to the properties.
`LeaseLifetime` says a lease is held only between the selection of its key and
its drop: without it a new selection could change `target` under a held lease,
and the flag would lose its owner. `CapturedInPast` says no request has an
instant ahead of the clock: a flag is set because `until[k] <= at[r]`, and
`OnlyHalfOpenProbed` needs `until[k] <= now`. The flag survives no verdict
(`SetCooldown` clears it), which is why it lies on an elapsed cooldown only.

`NeverRefusesUsable` is an action property. Its invariant is `ScanCoverage`: in
the second pass, every key passed over was tried or was not usable; since the
offsets go through the whole ring (`RingIsOnto`), at its end all keys are
covered. The history variable is what makes this inductive: between two steps a
key that was passed over may cool down and heal again.

The refinement maps `phase[k]` to `PhaseOf(k)`; `PhaseStep` goes through the
actions and shows which abstract step each is: `ScanTake` a `StartProbe`,
`MarkSuccess` a `Heal`, `MarkHttp429` a `RateLimit`, `DropLease` a
`ReleaseProbe`, `Tick` an `Elapse` of all keys whose deadline comes.

The refinement of `StickyRouting` holds for one request at a time only. Its
invariant `AloneInv` says that such a request keeps what it has found: the keys
it was refused by stay rejected, and the active key is still the one it saw, so
that neither compare-and-exchange of the code loses (`SelectSwitch`,
`AdvanceSet`). Leaving the active key is therefore always a step away from
a rejected key to one that is not cooling.

`SearchRoundsProofs` proves, for any caps, declarations and number of calls, from
`FrontendAssumption` and `LimitsAssumption` of `SearchRounds`:

* `TypeCorrect`: `Spec => []TypeOK`; no budget falls below zero.
* `CapsHold`, `CallsAreAnswered`, `PausesAtALimit`, `GoneKeepsShadow`: the four
  safety invariants of the run.

They follow from one invariant. `BudgetsAgree` says that a round of searches
under way leaves room for one more generation, which is what a continuation
needs. `CallsMatch` ties the outcomes to the calls of the round. `VerdictLast`
says that nothing is settled before the answer is handed over, nor for a client
that had gone by then, and that a verdict was justified when it was given.

Of the pool with its state file, `PoolProofs` proves, under the same
assumptions:

* `RestIsDurable`: `PersistentSpec => []PersistInv`.
* `FinalFlushHolds`: `FlushSpec => FinalFlushIsCurrent`.

The inductive invariant `FileFollows` has one obligation per key. Either the
writer owes the key another round (`Owed`: a permit is stored, or a request is
between its write to this key and its signal), or what has been read of the key
so far, in the draft or in the file, means the same as its deadline in memory
(`Recorded`). A verdict in the middle of a snapshot tears it, but it creates the
debt in the same step (`RequestOwes`); the permit is taken only before a
snapshot begins. "Means the same" is equality after `restore`, which is kept as
the clock goes on (`RecordedIsKept`) and established by a restart.

`FinalFlushIsCurrent` has an invariant of its own, `FlushInv`. While the process
flushes, what every key is belongs to what it has been during the flush, and so
does what the snapshot has read of it: of the keys before `cursor`, then of all
(`DraftIsCurrent`). Requests beside the flush only add to that history. What the
file holds afterwards is therefore no older than the beginning of the flush,
which needs that the writer was not inside a flush of its own when it was
aborted: an unfinished draft of the writer would be older.

Of the model catalog `TimerProofs` proves, for any handlers and times to live,
from `TtlAssumption`:

* `OneFetches`: `CatalogSpec => []CatalogTypeOK`, whose last part is the lock: only the head
  of the queue fetches, nobody waits twice, and a handler that is dropped leaves
  the queue in order.
* `FetchesRest`: `CatalogSpec => RestsBetweenFetches`. The invariant `PauseIsKnown` says
  that the pause the history variable asks for is the one that can be read off
  `fetched_at`, also for an empty list, which is dated back.

`ReasoningShadowProofs` proves, for any sessions, calls, texts and limits, from
`LimitsAssumption` of `ReasoningShadow`:

* `ShadowInvHolds` and `LimitsHold`: `ShadowInv` and `WithinLimits` always hold.
* `NewSessionIsKept`: `Spec => NewSessionSurvives`.

The inductive invariant (`BooksAreKept`) is that the books are kept (`Books`:
the queue is the sessions, each once; the total is the sum of the charges; every
session is charged at least what it holds) and that the limits are met
(`Fits`). Each method is a lemma about `Books` alone, so that `store` can be
taken apart as the code is: an insertion, then an eviction. `Evict` is
there shown to pop a prefix of the queue, and to leave the books kept however
long the prefix is. `NewSessionSurvives` needs them: the newest session is last
in the queue, hence the last to be popped, and alone it fits.

`LogWriterProofs` proves, for any sizes of records, files, buffers and queues,
any quota and any directory at the first start, from `LimitsAssumption` and
`FoundAssumption`:

* `BooksBalance` and `QuotaHolds`: `LogInv` and `QuotaKept` always hold.
* `OldFilesAreIntact` and `OldestIsTaken`: `Spec => OldFilesIntact` and
  `Spec => OldestGoesFirst`.

The inductive invariant (`Accounted`) has two parts beside the types. `Directory`
is `AccountsForDirectory` with what it rests on: the segments stand in the order
of their numbers (`Ordered`), and the active file was made by this run and is
the last (`Writing`). Without `Ordered` a deletion could take another file than
the oldest, and a fresh number could be an old file's. `Control` says which
fields each place of the thread leaves free, and that the quota is met or one
segment is left whenever the thread waits (`WithinQuota`). `QuotaKept` follows
because the directory's bytes are at most the segments', file by file.

`CollectionLemmas` has the facts about sums and queues those proofs cite. They
are inductions over finite sets and sequences. The library's induction theorems
take a predicate as a parameter, which the provers cannot instantiate, so
`SubsetInduction` and `CountingInduction` are stated over a set of good elements
and follow from the well-founded order of finite subsets; and a recursive
function is known to the provers only as a chosen one, so that there is one is
proved first. This is how `SumOver` is shown not to depend on the order in which
elements are chosen, to grow with its elements (`SumMonotone`), and to stay the
same under a change of names (`SumRenamed`).

Of the stream watch `TimerProofs` proves, for any timeouts and either order of
polling, from `AgesAssumption` and `OrdersAssumption`:

* `DeadlineAgreesWithCheck`: `Spec => []WatchInv`. `DueIsOver` and `CheckIsOver`
  bring the minimum of `next_deadline` and the cascade of `check` to the same
  four conditions.
* `StallsAreReal`: `Spec => []StallIsReal`. The invariant `KnowsUpstream` says
  that a loop which polls the upstream first knows all the upstream has done
  but for one chunk, which it takes before it looks at a timer.

`RequestPathProofs` proves, for any clients, histories of any length, bounds,
prompts and limits that satisfy `WindowAssumption` (`Config::validate`),
`InputsAssumption` and `IdAssumption`, all the properties the run `path` checks:

* `GuardKeepsWindow`: `Spec => []WindowKept`. The lemmas `WellBelowFits` and
  `AllowedFits` are the arithmetic of `well_below_window` and `evaluate`; the
  invariant adds that a request is not counted before the guard counts it, and
  that its bound is positive there if the configuration allows any output.
* `OneEpoch`: `Spec => []EpochReasoning`. The invariant `EpochInv` says what the
  restore has put back up to the position it has reached (`PutBack`), that only
  assistants call and reason (`Made`, `Plain`), and, after the strip, that
  nothing before the boundary reasons (`NoOlder`). The boundaries of the restore
  and of the strip are computed over different bodies; they agree because every
  step of the preparation keeps the `Shape` of a list: its length and each
  message's role, turns, calls and answer (`PreparedShape`,
  `ShapeKeepsPositions`).
* `PathIsConversation`: `Spec => []PathInv`. The two conversions have an invariant
  each. `MessagesInv` says of a Messages history that is still being read which
  calls may be answered: an id in `pending` or `asked` was `Offered` by an
  assistant of this turn or of the one before with nothing but results since,
  and the results of the turn so far answer ids already seen (`Given`).
  `ItemsInv` orders the items of a Responses history. `Shape` carries both
  through the preparation.
* `PrefixIsStable`: `Spec => PrefixStable`. `MadeOf` says field by field what the
  preparation makes of a message, depending only on the message, on its side of
  the boundary and on whether another fixed message follows. The body in
  progress and the prompt sent last are both `MadeOf` the history (`Whole`,
  `Base`), and a history only grows (`HistoryGrows`). What remains is the
  reasoning: a message sent without any must get none later. `SentInv` keeps
  this: what the shadow holds was in the prompt (`PutBack`), what was put into
  it is still held (`FromShadow`, while `intact`), and no answer can name a call
  that is in the history (`AnswersAreNew`).
* `CountsWhatIsSent`: `Spec => []CountAgrees`. `CountInv` relates what
  `reasoning_epoch_boundary` sees in the blocks of the client's messages
  (`humans`, `thinks`) to the converted ones, in the middle of a message too;
  `BoundariesAgree` concludes that the two boundaries name the same turn.

`AnthropicStreamProofs` proves, for any indexes of calls and any number of events,
searches and generations, from `BoundsAssumption`, the three safety properties of
the run:

* `Follows`: `Spec => FollowsMessages`, the refinement of `MessagesEvents`.
* `AnthropicInvariant`: `Spec => []AnthropicInv`, whose second part is that the
  stream and the whole answer agree.
* `ShadowFits`: `Spec => []ShadowFitsAnswer`.

A handler emits several frames at once and the client reads them later, one by
one, or never. So the invariant is not about what the client has seen but about
what it will have seen: there is a view `v` such that the frames in `state.out`
lead from what is seen to `v` by steps that the protocol allows (`Path`, `Legal`,
`After`), and the state fits `v` (`Promised`). Each handler then has a lemma of
two parts, that what it adds to `out` leads on (`Leads`) and that its state fits
where it leads, and `ClientReads` only walks along the path. `Fits` relates the
blocks the code keeps to those of the view: as many, closed where they are
stopped (`Matched`), and each block of a call belongs to a call that knows it
(`Called`). Without `Hidden`, that no call is shown before the end when the
request declares search, `ShadowFitsAnswer` would fail at the first continuation,
which forgets the calls. `Agrees` adds, for a request without search whose calls
begin with their heads, that the sizes of the blocks are the texts of the
aggregation, that the blocks of calls stand in the order in which the
aggregation met them, and that the finish reason is the same. When the message
has stopped nothing is left in `out` (`StoppedIsSeen`), so the view is what the
client has, and `Chosen` takes its blocks by kind in the order of `convert_response`
(`ThinkingAgrees`, `TextAgrees`, `CallsAgree`).

The operators that run over all blocks or calls (`StopAll`, `StartAll`, `Show`) are
recursive functions. What they do is proved by `CountingInduction` over the
numbers up to which they have run (`StopAllLeads`, `StartAllFits`), where the
prefix already done is part of the statement. `StartAllFits` holds for every order of
the calls, as `finalize` takes them in the order of a HashMap.

Only model-checked: of `ResponsesStream` everything, that is `ResponsesInv` and the
refinement `FollowsProtocol` of `ResponsesEvents`; all liveness and ENABLED, which
are out of reach of the prover.

## 6. Not modelled

`PROJECT.json` lists every component with its reason.

* *Rate limit classification*: which answers are effective 429s and what they
  carry are functions of text and headers without state; `KeyPool` takes every
  verdict and every cooldown as possible.
* *Configuration*: it is read once; what `Config::validate` guarantees appears as
  assumptions.
* *Redaction, console, proxy routes, authentication*: stateless.
* *Templates and tokenizer* (`glm53/template.rs`, `tokenizer.rs`): they render and
  count text; a count is an arbitrary number here.
* *Of the conversions*: tools, `tool_choice`, sampling parameters and texts.
* *Of `obs.rs`*: the fields of a record, sampling, and the flight recorder.

## 7. What is left

1. `ReasoningShadow` composed with two clients that begin and end epochs of one
   session concurrently, in place of `Forget` of `RequestPath`.
2. `RateLimit`: the classification of answers, composed with `KeyPool` in place
   of its nondeterministic verdicts.
3. The flight recorder and the summary of a request, whose fields are written
   from several places (`slow_duration` after `error_kind`, usage of the last
   generation only).
4. Proofs about `ResponsesStream`: its invariant and the refinement of
   `ResponsesEvents`, along the argument of `AnthropicStreamProofs`.
