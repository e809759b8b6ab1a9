# A verification of Relay in TLA+

Relay is a proxy between SDKs and Sentry. It accepts envelopes over HTTP, looks up the
configuration of the project they belong to, filters, normalises and rate limits them, and
forwards them to an upstream (another Relay, or Sentry) or to Kafka. The code is of two kinds,
and so is this directory.

*Actors* decide *when* something happens: a dozen actix actors in `relay-server/src/actors` send
each other messages, keep caches and queues, batch and retry queries, and give up after
deadlines. They are modelled as state machines, checked with TLC on small instances with their
failures, timeouts and interleavings, and for each of them the main invariants are proved with
TLAPS for all sizes.

*Sequential algorithms* decide *what* happens to a payload: formats that are written by one Relay
and read by the next, rules for sampling, filtering and personal data, trimming, normalization,
configuration. They are modelled as operators, and TLC evaluates them on every input up to a
bound, against what their callers rely on. For the formats and decisions that several Relays must
agree on, and for what is stored of an event, this is proved for all inputs.

Contents: [inventory](#1-inventory) · [plan](#2-plan) · [modules and how they correspond to the
code](#3-the-modules) · [runs](#4-the-runs) · [proofs](#5-the-proofs) ·
[disagreements between code and comments](#6-where-code-and-comments-disagree) ·
[limits](#7-limits)

## 1. Inventory

All paths are below `src/`. An actor handles one message, or polls one ready future it has
spawned, at a time. So a handler is atomic up to the point where it returns a future, and the
continuation of the future (`and_then`, `map`, `then`) is a separate atomic step that finds a
state changed by whatever was handled in between. This is the concurrency of the program,
and the grain of the actions in every module here.

| Component | State it keeps | Operations | Talks to |
| --- | --- | --- | --- |
| **UpstreamProjectSource** `actors/project_upstream.rs` | `state_channels` (one per key, with deadline and `no_cache`), `backoff` (also the flag for "a fetch is pending or running") | `FetchProjectState`, `fetch_states` on a timer, joined answers, retry | UpstreamRelay |
| **ProjectCache, Project** `actors/project_cache.rs`, `project.rs` | `projects`: per key a state with its age, an open channel with `no_cache`, an aggregator, cached rate limits, `last_no_cache`, `last_updated_at` | `GetProjectState`, `GetCachedProjectState`, `CheckEnvelope`, `UpdateProjectState`, `UpdateRateLimits`, `InsertMetrics`, `MergeBuckets`, `FlushBuckets`, eviction | local, Redis and upstream sources, Aggregator, EnvelopeManager |
| **UpstreamRelay** `actors/upstream.rs` | two queues, `num_inflight_requests`, `auth_state`, `first_error`, `outage_backoff`, `auth_backoff` | `SendRequest`, `SendQuery`, `PumpHttpMessageQueue`, `TrackedFutureFinished`, `Authenticate`, `CheckUpstreamConnection`, responses | HTTP client; used by every actor that talks to the upstream |
| **RelayCache** `actors/relays.rs` | `relays` with expiry, `relay_channels`, `backoff` | `GetRelay`, `GetRelays`, `fetch_relays` | UpstreamRelay |
| **LocalProjectSource, RedisProjectSource** `actors/project_local.rs`, `project_redis.rs` | states read from a directory; none | polling; `FetchOptionalProjectState` | file system, Redis |
| **EnvelopeManager** `actors/envelopes.rs` | `active_envelopes`, captures | `QueueEnvelope`, `HandleEnvelope`, `SendMetrics`, `CaptureEnvelope` | ProjectCache, EnvelopeProcessor, UpstreamRelay, StoreForwarder, outcomes |
| **Aggregator** `relay-metrics/src/aggregation.rs` | `buckets`, `queue` of flush times | insert, merge, `try_flush`, merge back | ProjectCache |
| **Rate limits and quotas** `relay-quotas`, `relay-server/src/utils/rate_limits.rs` | cached limits with expiry; counters in Redis | merge, check, `EnvelopeLimiter`, the Lua script | Redis |
| **Outcome producers** `actors/outcome.rs` | `unsent_outcomes`, flush timer | `TrackOutcome`, flush | UpstreamRelay, Kafka |
| **Controller, server, healthcheck** `actors/controller.rs`, `server.rs`, `healthcheck.rs` | subscribers, timeout, `is_shutting_down` | `Subscribe`, signals, `Shutdown`, `IsHealthy` | everyone who subscribes |
| **Store forwarder** `actors/store.rs` | producers | `StoreEnvelope`: attachment chunks, messages | Kafka |
| **Endpoints, extractors, middlewares** `relay-server/src/endpoints`, `extractors`, `body`, `utils` | none that outlives a request | authorization, bodies, forms, minidumps, `handle_store_like_request` | ProjectCache, EnvelopeManager |
| **Envelope format** `relay-server/src/envelope.rs` | - | parse, complete, serialize, split | every Relay on the way |
| **Dynamic sampling** `relay-sampling` | - | conditions, rules, decisions | endpoint, EnvelopeProcessor |
| **Filters** `relay-filter` | - | inbound filters in their order | EnvelopeProcessor |
| **Event protocol** `relay-general/src/protocol`, `types` | values with their meta data | reading, writing, conversions, security reports | every Relay on the way |
| **Normalization and trimming** `relay-general/src/store` | - | clock drift, attributes, tags, breakdowns, limits of sizes | EnvelopeProcessor |
| **Personal data** `relay-general/src/pii`, `processor` | compiled rules | selectors, redaction in events, attachments and minidumps, older settings | EnvelopeProcessor, project states |
| **Authentication** `relay-auth`, `endpoints/public_keys.rs`, `project_configs.rs` | key pairs | registration by challenge, signatures, access to projects | other Relays |
| **Configuration and CLI** `relay-config`, `relay/src` | a folder with two files | `init`, `credentials`, `run`, overrides | - |
| Logging and statistics, C ABI and Python bindings | - | - | - |

**Hard behaviours.**
*Interleaving*: requests join a channel while a fetch of it runs, fails and is put back;
several updates of one project run at a time and end in any order; responses and the
notification that a request is no longer in flight are separate events.
*Double use*: a `RetryBackoff` is at once the delay of the next attempt, the flag that an
attempt is under way (`UpstreamProjectSource`, `RelayCache`) and the flag of a network outage
(`UpstreamRelay`), and it is reset in several places.
*Failure and time*: upstream failures, outages, permanent denial of authentication, closed
mailboxes; deadlines of channels, grace periods, lease renewal, eviction.
*Wake-ups*: nobody polls the queues; each way to become able to send must lead to a pump.
*Split ownership*: an envelope is split in two with one capture, buckets travel through three
actors and come back, limits are learnt from a response and outlive the counter they are about.
*Several Relays*: what one writes the next reads, with an older or newer version, a clock of its own
and its own copy of the configuration.
*Fields that depend on each other*: an address is taken from the request, the user or a report; a
timestamp is corrected before it is checked; sizes are estimated in one way and trimmed in
another.

**What makes the components correct.**
- Sources (UpstreamProjectSource, RelayCache): at most one fetch at a time; no channel without
  a fetch to come; no request whose channel has been lost; each answered once, eventually;
  queries no larger than configured; `no_cache` reaches the upstream.
- ProjectCache: whoever waits has an open channel, and an open channel has an update that
  will be let through; `no_cache` is not satisfied by an older, cached update; everyone is
  answered; a usable state is not thrown away; the aggregator follows the project.
- UpstreamRelay: the in-flight count is exact and respects its limit; a request is in one
  queue, once; high before low; an outage is always being checked; one authentication at a
  time and never a forgotten one; no wake-up is lost; every request is answered.
- EnvelopeManager: every envelope ends in exactly one way (sent, stored, outcome), also when
  a timeout races the answer; the buffer limit holds; split envelopes are counted.
- Aggregator: no value is lost or counted twice between insertion, flush and merge back.
- Quotas: no more is accepted than the limit, up to what the optimistic check allows; limits
  expire; the strictest limit wins.
- Outcomes: each outcome is sent in one batch. Controller: shutdown ends, and waits for its
  subscribers no longer than the timeout.
- Formats: what a Relay writes, the next one reads, with nothing lost, moved or added; what a
  consumer of Kafka is told of has been written before, and where the consumer has read it.
- Rules: an older Relay that forwards decides as the newer one would; rules that are compiled
  reach what their selectors name and nothing else; what is redacted is accounted for by remarks;
  data that is scrubbed in place keeps its length.
- Normalization: stored events have sane times, unique tags with keys and values that fit, attributes that
  belong together; a value that is dropped leaves an error.
- Configuration: what is set is obeyed, and no command loses what there was.

The hazards of the code are listed with their lines in `PROJECT.json`, each with the
properties that would catch it.

## 2. Plan

1. *(done)* `FetchService`, `UpstreamProjectSource`, `ProjectCache`: how a project state gets to
   whoever waits for it. Every envelope depends on it, and it has the most intricate
   interleavings. `UpstreamProjectSource` is shown to implement `FetchService`, and
   `ProjectCache` is composed with `FetchService` instead of with the source itself.
2. *(done)* `UpstreamRelay`: queues, outage, authentication. `RelayCache`: the second client with
   batching, without deadlines.
3. *(done)* `Envelope`, `EnvelopeProcessor`, `EnvelopeManager`: the way of an envelope from the endpoint
   to its end, with the timeout, the buffer at its limit and split envelopes.
4. *(done)* `MetricsDelivery`, `Aggregator`: buckets, the flush queue, failed flushes that are merged
   back, refining "a value that was taken is held until it is delivered or dropped".
5. *(done)* `RateLimiter`: several Relays with the Lua script in Redis, and the limits that Relays in
   front of them learn.
6. *(done)* `OutcomeProducer` and `Controller`: batches against the flush timer, signals, shutdown.
7. *(done)* The sequential algorithms, with `MCAlgorithms`.
8. `LocalProjectSource`: the actor blocks until the first successful read.
9. *(done)* Proofs of the safety properties of all actors and of the two refinements, and of what the
   algorithms do for every input where no tree is walked (section 5).

The number of runs is kept small: each component has one run, with another only where a
property needs other bounds. Configuration that does not change, such as the relay mode, is a
variable chosen in `Init`, so that one run covers its values. Invariants that need each other are
named parts of one property.

## 3. The modules

| Module | Code | What |
| --- | --- | --- |
| `FetchService` | messages `FetchProjectState` of `project_cache.rs` | abstract specification: every request is answered once, and an answer to `no_cache` comes from a `no_cache` query |
| `UpstreamProjectSource` | `project_upstream.rs` | the implementation with channels, batches, retries, deadlines |
| `ProjectCache` | `project_cache.rs`, `project.rs` | the cache, composed with `FetchService` |
| `UpstreamRelay` | `upstream.rs`, `tracked_future.rs`, `retry.rs` | requests to the upstream |
| `RelayCache` | `relays.rs` | public keys of downstream relays |
| `MetricsDelivery` | what callers of `InsertMetrics` expect | abstract specification: a value is held until it is delivered or dropped |
| `Aggregator` | `aggregation.rs`, `project_cache.rs`, `project.rs`, `envelopes.rs` | buckets, their flushes and their way back |
| `Envelope` | `envelope.rs`, `utils/rate_limits.rs`, `utils/dynamic_sampling.rs` | items, splitting, `EnvelopeLimiter`, trace sampling |
| `EnvelopeProcessor` | `process_state` in `envelopes.rs` | what a worker can make of an envelope |
| `EnvelopeManager` | `envelopes.rs`, `endpoints/common.rs` | the way of an envelope |
| `RateLimiter` | `relay-quotas`, `is_rate_limited.lua`, `utils/rate_limits.rs` | quotas and limits, counters in Redis shared by several Relays |
| `OutcomeProducer`, `Controller` | `outcome.rs`; `controller.rs`, `server.rs`, `healthcheck.rs` | outcomes in batches; start and shutdown around them |
| `EnvelopeFormat`, `Requests`, `Extraction` | `envelope.rs`; `request_meta.rs`, bodies, DSNs, forwarding; forms, minidumps, breadcrumb files | from a request to an envelope and on to the next Relay |
| `MetricText`, `StoreForwarder` | `relay-metrics/src/protocol.rs`; `store.rs` | metrics as text; messages to Kafka |
| `Filters`, `Sampling` | `relay-filter`; `relay-sampling`, `utils/dynamic_sampling.rs` | filters in their order; conditions, rules and decisions |
| `Authentication`, `Configuration` | `relay-auth`, endpoints between Relays; `relay-config`, `relay/src` | registration and what Relays tell each other; the folder and the commands |
| `Redaction`, `Selectors`, `SelectorText`, `PersonalData`, `Attachments` | `pii`, `processor/chunks.rs`, `selector.rs`, `attrs.rs` | remarks and chunks; selectors and their text; rules and older settings; files and minidumps |
| `Trimming`, `Schema` | `store/trimming.rs`, `schema.rs`; the derives and attributes of the protocol | limits of sizes; what the types of the protocol say |
| `Metastructure`, `Conversions`, `SecurityReports` | `types`; conversions of the protocol; `security_report.rs` | values with meta data in JSON; reading of values; security reports |
| `Normalize` | `store/normalize.rs`, `clock_drift.rs`, `transactions.rs`, `breakdowns.rs` | what happens to an event before it is stored |
| `MC...` | | constants of the runs that need more than a `.cfg` can say, inputs of the algorithms, symmetry |
| `...Proofs` | | theorems |

`PROJECT.json` maps every definition to its lines. Conventions: definitions keep the names of
the code where they model a function (`fetch_states`) or a handler (`PumpHttpMessageQueue` is
`Pump`). A definition named `X_Suffix` is a *mutant* of `X`: a bug this code could plausibly
have. Replacing `X` by it must break the property listed with it, which shows that the
property depends on the code it is about.

### FetchService and UpstreamProjectSource

A `ProjectStateChannel` is a `shared` one-shot: one sender, any number of receivers. It is named
after the request that created it. `stateChannels` is the `HashMap`; `inflight[f]` are the channels that
fetch `f` has moved out of it; `waitsOn[r]` is the channel whose receiver request `r` holds. A dropped
sender is an error for its receivers (`Close`).

| Action | Code |
| --- | --- |
| `Fetch` | `Handler<FetchProjectState>`: schedule unless the backoff has started, join or open the channel, set `no_cache` |
| `fetch_states` | the timer: take `TotalCount` keys in any order, drop expired channels, cut the rest into batches |
| `Reply` | one query of a fetch is answered (by `UpstreamRelay`) |
| `fetch_joined` | the `and_then` after `join_all`: answer, `extend`, reschedule or reset |
| `fetch_dropped`, `UpstreamStops` | a `MailboxError` discards the fetch |
| `DeadlinePasses`, `Take` | time; the caller's future is polled |

Names of requests and fetches are used again once they are free, so behaviours are unbounded
although the sets are small.

### ProjectCache

An entry is a record (`Projects`): the state, told apart by `check_disabled` and its source, its age
(`Outdated`), the channel, the aggregator, and two flags for clocks (`throttled` for the second after a
`no_cache` request, `stale` for the eviction age). An update goes through the stages of the
future in `Handler<UpdateProjectState>`: queued in the mailbox, local, redis, upstream. The upstream
stage is a `FetchService` request of the same name.

| Action | Code |
| --- | --- |
| `GetProjectState` | `Handler<GetProjectState>`, and `CheckEnvelope` with `fetch`: `get_or_fetch_state` |
| `Preload` | `CheckEnvelope` without `fetch`, `FlushBuckets` |
| `Touch`, `InsertMetrics` | handlers that only create the entry, or its aggregator |
| `CheckEnvelope` | the continuation that looks the entry up again |
| `UpdateProjectState`, `LocalHit`, `LocalMissUnmanaged`, `LocalMissManaged`, `RedisHit`, `RedisMiss`, `SourceClosed`, `UpstreamHit`, `UpstreamFailed` | the future of an update, ending in `update_state` with `update_aggregator` |
| `Ages`, `SecondPasses`, `BecomesStale`, `Evict` | clocks, `evict_stale_project_caches` |

What an envelope is checked for is part of `EnvelopeManager`, what becomes of metrics part of
`Aggregator`, and the rate limits that an entry caches are part of `RateLimiter`.

### UpstreamRelay

`stage[x]` follows an exchange with the upstream: a request, a check of the connection, or one of
the two requests of the authentication. The `TrackedFuture` around a request notifies the actor
(`finished`) when response headers arrive; `handle_http_response` runs in the same poll if the status needs
no look at the body, and after the body of an error response has been read (`BodyRead`)
otherwise. Queues are sequences in the order in which they are popped.

| Action | Code |
| --- | --- |
| `SendRequest` | `Handler<SendRequest>`, `Handler<SendQuery>`, `enqueue` at the front |
| `Pump` | `Handler<PumpHttpMessageQueue>` with its loop; requests that cannot be built fail at once |
| `TrackedFutureFinished` | its handler |
| `Respond`, `RespondStatus`, `BodyRead` | `send_request`, `handle_response`, `handle_http_response` with `handle_network_error`, `reset_network_error` and `enqueue` of a retry at the back |
| `CheckUpstreamConnection`, `CheckDone` | the handler, and the continuation of its request |
| `Authenticate`, `AuthChallenge`, `AuthRegistered`, `AuthFailed` | the handler, and the continuations |
| `GracePasses` | `http_outage_grace_period` |

### RelayCache

As `UpstreamProjectSource`, with one query per fetch and no deadlines. A `GetRelays` message asks for a set
of ids and joins what the configuration, the cache and channels answer; it fails with the
first that fails. `running` holds the maps of channels that were moved into queries.

### MetricsDelivery and Aggregator

A bucket says how often each report is merged into it: every metric type keeps a digest of the values
merged, and merging two digests is the digest of both. That the order matters to the last value of a
gauge is noted in section 6. `queue` counts the entries of the
flush queue for each key, `elapsed` are the keys whose time has come. A flush is a future with the
buckets it carries and its stage. `delivered`, `dropped` and `submitted` are history.

| Action | Code |
| --- | --- |
| `InsertMetrics` | `Handler<InsertMetrics>`, `insert` and `merge_in` |
| `Elapses`, `try_flush` | the flush time of a bucket; `try_flush` takes what has elapsed and spawns the future |
| `FlushBuckets` | `Handler<FlushBuckets>` of ProjectCache: send, drop or give back |
| `SendMetrics`, `Sent`, `SendFails` | `Handler<SendMetrics>` of EnvelopeManager in its three modes; a failure after the upstream has received it too |
| `FlushDone` | the continuation in `try_flush`: `merge_all` of what came back |
| `StateFetched`, `StateExpires` | the project's entry in ProjectCache |

### Envelope, EnvelopeProcessor, EnvelopeManager

`requests[e]` is the HTTP handler of envelope `e`. A *part* is what `HandleEnvelope` handles: an envelope or one of
the two that `QueueEnvelope` splits it into. `parts[p]` is its future with the message that it waits for,
which may still be handled after the future has timed out. `fates` is the history of the *units* that
outcomes are about: the event, and each attachment. `EnvelopeProcessor` gives the set of results that the
pipeline of a worker can have, since what it does depends on payloads and configuration.

| Action | Code |
| --- | --- |
| `HandleRequest` | `handle_store_like_request`: cached check, trace sampling, rate limits, response |
| `QueueEnvelope` | its handler: buffer limit, `split_by`, one or two `HandleEnvelope` |
| `HandleEnvelope`, `CheckEnvelope`, `Checked` | the future up to the answer of ProjectCache |
| `SampleTrace`, `GetProjectState` | sampling by the project of the trace; the state for the worker |
| `ProcessEnvelope`, `Processed` | a worker; rate limits it reports; what is left to send |
| `Upstream`, `Answered` | store, capture or request; its answer with new limits |
| `Timeout` | the timeout of the future, at any stage |

### RateLimiter

Time is the clock of Redis; `skew` is how far the clocks of the Relays that process are off. A worker reads
its clock (`Prepare`), calls the script later (`Invoke`), and merges what it returns into the cached limits
(`Respond`): of limits with the same categories and scope the longest stays. An edge Relay is rejected with a header (`Reject`) and learns from it later (`Learn`).

| Action | Code |
| --- | --- |
| `CheckEnvelope` | `check_with_quotas` with the cached limits; a worker begins |
| `Prepare`, `Invoke`, `InvokeFails` | `RedisQuota`, the Lua script for all quotas at once, an error of Redis |
| `Respond` | limits of the script, `UpdateRateLimits` |
| `Reject`, `Learn` | `format_rate_limits` and `parse_rate_limits` |
| `Evict`, `Refund`, `Tick` | eviction of the project; Sentry's refunds (external); time with the expiry of keys |

### OutcomeProducer and Controller

`Controller` extends `OutcomeProducer`, since nothing but the timing of the shutdown protects the last batch.

| Action | Code |
| --- | --- |
| `TrackOutcome`, `ForwardOutcome`, `CollectOutcome` | handlers of `OutcomeProducer` and `HttpOutcomeProducer`; a full batch is sent at once |
| `FlushOutcomes`, `BatchEnds` | the flush timer (also one that should have been cancelled); the answer to a batch |
| `Configure`, `Subscribe`, `Signal` | messages of the start, which may be late; `handle_signal` and `shutdown` |
| `HealthcheckShutdown`, `ServerShutdown`, `ServerAnswers`, `ServerStops` | the subscribers, and the HTTP server |
| `ScheduleStop`, `Stop` | after all subscribers have answered; `System::stop` 100 ms later |
| `Tick` | time, when no message is left and no timer is due |

### The algorithms

In `MCAlgorithms` a state is one input: the first step chooses an algorithm and the next ones make the input
longer, or apply one command after the other. Results that are expensive to compute are part
of the state. The properties compare an algorithm with a reference definition, with its inverse,
or with the same algorithm in the next Relay:

- `EnvelopeFormat`: the text of an envelope as newlines, headers and bytes; parsing, completion, writing.
- `Requests`: authorization in header, query and the first line of an envelope; bodies with their
  limits; DSNs as text; the request that forwards an envelope, and what the next Relay reads of it.
- `Extraction`: multipart and form fields, chunked payloads, event ids, minidumps, breadcrumb files.
- `MetricText`, `StoreForwarder`: lines of metrics; chunks, sessions (also such that cannot be read) and events for
  Kafka, with a producer that fails at any message. `PartitionKey` is `KafkaMessage::key`: the id, or for a nil
  id a random one for each message.
- `Filters`, `Sampling`: legacy browsers; rules as an older Relay reads them that does not know a condition.
- `Authentication`: versions, challenge and response with clocks, signatures, the projects that a
  Relay is told of, and what it accepts with a state that is up to date, soft or hard outdated. Cryptography is symbolic: a signature names its key and its text.
- `Configuration`: commands in any order on a folder, writes that are cut off, overrides.
- `Redaction`, `Selectors`, `SelectorText`, `PersonalData`, `Attachments`: chunks, rules and remarks on texts; paths; the text
  of selectors; compilation of rules and of older settings; users; suggestions; binary data.
- `Trimming`, `Schema`: databags, frames, and the limits and personal data attributes of the protocol.
- `Metastructure`, `Conversions`, `SecurityReports`: values and meta data written by one Relay and read by the next;
  conversions that may lose a value; reports of four kinds.
- `Normalize`: clock drift, timestamps, attributes, addresses, breakdowns, and tags as a list of entries that may be
  null or lack a key or a value. Texts are empty, too long for a key, too long for a value, or fit.

A statement that is proved as well (section 5) is an operator at the end of the module of its algorithm
(`RoundTrips`, `Completes`, `Reassembles`, `Exact`, `RegistersInTime`, `AgreesOn`, `ForwardsAlike`, `HasSaneTimes`,
`HasFittingAttributes`, `HasResolvedAddresses`, `HasUniqueTags`): the run and the theorem speak of the same formula.

## 4. The runs

| Run | Instance | States | Shows |
| --- | --- | --- | --- |
| `source` | 3 keys, 3 requests, 2 batches of 2, the end of the upstream | 160,165 | one fetch at a time, which finds work, and no channel without one (`Scheduled`: `OneFetch`, `TimerFindsWork`, `NoForgottenChannel`); no stranded request, no channel owned twice (`ChannelsOwned`); query sizes (`QueryBounds`); refinement of `FetchService`; every request is answered |
| `cache` | 1 key, 2 clients, 2 updates, managed with Redis and static | 309,089 | whoever waits has a channel with an update (`WaitersServed`); `NoCacheHonoured`; everyone is answered |
| `relay_safety` | 3 requests (high; low with retry; low that cannot be built), 1 slot, 3 faults, managed and proxy | 573,283 | exact count, limit and queues (`QueuesExact`), outage checks, authentication, wake-ups, priorities |
| `relay_answers` | 2 requests with retry, no grace period, managed and proxy | 263,547 | every request is answered unless the relay is denied |
| `relays` | 2 ids and a static one, 2 requests | 39,704 | one fetch, waiters have a fetch, channels owned once, everyone is answered |
| `metrics` | 3 reports for one name with two types, 2 flushes, 2 faults, 3 modes, 4 kinds of states | 168,900 | the queue and the buckets agree and no value is counted twice (`BucketsExact`); refinement of `MetricsDelivery`; values leave the aggregator |
| `envelopes` | a transaction with attachment and session, and a minidump with metrics; buffer of 1; 3 modes | 223,565 | the count of active envelopes is exact and bounded (`BufferExact`); everything in an envelope ends once (`EndsOnce`); envelopes end even if nobody answers |
| `quotas` | 2 Relays with Redis, 1 edge, quota a (organization, errors, 1 in 2) and b (project, errors and attachments, 2 in 3), drift 1, delay 1 | 1,488,729 | no window takes more than its limit (`WindowBound`); counters are exact (`CountedExactly`); limits have a reason and end with its window (`LimitJustified`; quotas without a limit cause none, and nothing is said of them) |
| `shutdown` | 3 outcomes, 2 batches of 2, 2 signals, interval and timeout 1 | 307,954 | no outcome lost or sent twice (`OutcomesKept`); an orderly stop that leaves time to flush (`OrderlyStop`); signals stop the process; outcomes are sent |
| `algorithms` | every input up to the bounds of `MCAlgorithms.cfg` | 1,040,452 | see below |
| `metrics_missing`, `envelope_outcomes` | as `metrics` and `envelopes` | | violations, see section 6 |

The properties of `algorithms`, with their parts:

| Property | Parts |
| --- | --- |
| `EnvelopeExact` | an envelope reads the same after it was written (`EnvelopeRoundTrip`, `EnvelopeComplete`); events with errors, meta data and collections reach the next Relay (`ErrorsTravel`, `ReadTheSame`); forms, ids, minidumps, breadcrumbs and crashes (`FormExact`, `EventIdAgrees`, `MinidumpKept`, `BreadcrumbsLatest`, `CrashIsError`); requests and their bodies (`RequestExact`); metrics in their order (`MetricsInOrder`) |
| `AttachmentsReassemble` | all chunks of what a consumer is told of are written before, whole and in order, and with the same topic and key unless the event id is nil |
| `RelaysAgree` | registration in time (`RegisteredInTime`); a Relay behind another takes the same decisions, but for what it leaves to the upstream while its state is hard outdated (`ChainAgrees`); settings and the folder (`SettingsObeyed`, `FolderKept`); forwarded requests and selectors mean the same (`ForwardedAlike`, up to first lines that only the first Relay accepts; `SelectorsTravel`) |
| `RulesAgree` | a Relay that does not know a condition leaves the decision to the next (`OldRelayAgrees`); the default of legacy browsers (`LegacyDefault`) |
| `RedactionExact` | remarks, lengths, selectors (`RemarksExact`, `TrimBound`, `SelectorExact`, `PersonalBelow`); compiled rules and older settings (`RulesCompiled`, `DataScrubbed`, `UserKept`, `SuggestionsUsable`); binary data in place (`ScrubbedInPlace`, `MinidumpUsable`) |
| `TrimmingBounds` | databags, frames, free-form data and the limits of the protocol (`BagBound`, `FrameBound`, `FreeFormBounded`, `LimitsApply`) |
| `EventNormalized` | times, attributes, addresses, tags, breakdowns (`TimestampsSane`, `AttributesFit`, `AddressResolved`, `TagsUnique`, `TimeOnce`); losses are reported (`LossReported`, `UnreadReported`, `PairsKept`); security reports (`SameViolation`, `ReportExact`) |

**Bounds and why they are enough.** In the sources the properties relate at most three requests:
one that is in flight, one that arrives meanwhile, and one after a retry. With batches of 2 a query
mixes `no_cache` with other channels, and three keys need two queries. One key suffices for
`ProjectCache`, whose entries do not interact except in `Evict`, which treats each by itself; the theorems
are for any number. In `UpstreamRelay` one slot makes requests compete; three faults are two network
errors that begin an outage (one within the grace period, one after it) and a failed check.
`MaxBacklog` bounds the internal messages (pumps and notifications) beyond which no new request, check
or authentication is taken: with 2, and with 1 for liveness, a pump and a notification can be in
either order; the mailbox of the code has no such bound, but more messages of the same kind only
repeat their effect. `MaxFaults` bounds how often the upstream fails, so that liveness asks what happens
once it has stopped failing.
In `Aggregator` the first and the third report share a bucket, so one can be merged back into a bucket
created meanwhile, by two overlapping flushes that both fail. In `EnvelopeManager` one envelope is split, the
other competes for a buffer of one. In `RateLimiter` the windows of the two quotas have different lengths, time
runs through the end of each, an attachment of two units meets a quota of two, and drift and delay
add up to the grace period of the keys (`TimesAssumption`). In `Controller` a batch can be full, or be flushed
by its timer, before, between and after two signals.
Texts, bags, paths and stacktraces of the algorithms are just long enough for two neighbours of
the thing in question: six symbols of an envelope hold two items, five bytes of a file a run of
letters, its surroundings and a wide character, six frames two beyond a limit. Numbers are
scaled: a second has two ticks, an integer four bits, a kilobyte three bytes, so that rounding and
overflow happen within the bounds.
Deadlock is checked except where the system really may stop: all requests answered and no timer
left, a denied relay, a stopped upstream or process, and inputs that are complete.

**Fairness.** Weak fairness on message handlers, timers and ready futures is what actix and
tokio provide to a live process. Weak fairness of the answer to a query or request stands for
the HTTP client, whose timeouts end every request. Time passes. No fairness is assumed of clients,
of the grace period, or of success. Some liveness statements need more from the environment and
say so: `relay_answers` and `metrics` let the upstream fail `MaxFaults` times only; `relays` has strong fairness of successful
queries, since channels of `RelayCache` have no deadline and an upstream that fails each time keeps its
requests waiting for ever; `metrics` has weak fairness of a state being fetched while it is outdated.
`EnvelopeManager` assumes its own handlers and timeouts only, so that envelopes end although no other actor
answers. `RateLimiter` states safety only.
The run of the source has no more keys than a fetch takes: with more, the order of a `HashMap` may
starve a key.

## 5. The proofs

All theorems hold for every value of the constants under the `ASSUME`s of the modules (types of
constants, non-zero sizes, names distinct from each other), and are checked by TLAPS.

| Module | Theorem | Statement |
| --- | --- | --- |
| `UpstreamProjectSourceProofs` | `TypeCorrect` | `TypeOK` |
| | `OneFetchAtATime` | `Scheduled`: `OneFetch`, `TimerFindsWork`, `NoForgottenChannel` |
| | `NobodyStranded` | `ChannelsOwned`: `ReceiverHasSender`, `OwnedOnce` |
| | `Refinement` | `UpstreamProjectSource` implements `FetchService` (its safety part) |
| | `QueriesBounded` | `QueryBounds` |
| `ProjectCacheProofs` | `TypeCorrect` | `TypeOK` |
| | `NobodyForgotten` | `WaitersServed`: `WaiterHasChannel`, `ChannelHasUpdate` |
| | `NoCacheKept` | `NoCacheHonoured` |
| `UpstreamRelayProofs` | `OutageChecked`, `SingleAuthentication`, `QueuePumped` | `OutageIsChecked`, `OneAuthentication`, `QueueIsPumped` |
| | `QueuesAreExact` | `QueuesExact`: `TypeOK`, `QueuedOnce`, `InflightExact`, `InflightLimit` |
| | `HighPriorityFirst` | `HighFirst`, an action property |
| | `EnvelopesForwardedAlike` | `ForwardsAlike` for every request that is accepted |
| `RelayCacheProofs` | `TypeCorrect`, `OneFetchAtATime`, `NobodyStranded` | `TypeOK`; `OneFetch`; `WaitersServed`: `WaiterHasFetch`, `OwnedOnce` |
| | `RegistrationsInTime` | `RegistersInTime` for every Relay, key, secret, clock and age |
| | `SignedByWhomItNames` | what `SignedJson` accepts, for all headers and bodies |
| | `ChainsAgree` | `AgreesOn` for every state of a project, Relay and request |
| `AggregatorProofs` | `BucketsStayExact` | `BucketsExact`: `TypeOK`, `QueueExact`, `CountedOnce` |
| | `Refinement` | `Aggregator` implements `MetricsDelivery` |
| `EnvelopeManagerProofs` | `BufferStaysExact` | `BufferExact`: `TypeOK`, `ActiveExact`, `BufferBound` |
| | `EverythingEndsOnce` | `EndsOnce`: `OneEnd`, `NothingForgotten` |
| | `EnvelopesRoundTrip`, `EnvelopesComplete` | `RoundTrips` and `Completes` for every text of an envelope |
| | `ProducedReassembles` | `Reassembles` for every envelope, size of a chunk and failure |
| | `SelectorsAreExact` | `Exact` for every path and selector |
| | `EventsAreNormalized` | `HasSaneTimes`, `HasFittingAttributes`, `HasResolvedAddresses`, `HasUniqueTags` for every event |
| `RateLimiterProofs` | `CountersStayExact`, `WindowsStayBounded`, `LimitsStayJustified` | `CountedExactly`, `WindowBound`, `LimitJustified` |
| `ControllerProofs` | `OutcomesAreKept` | `OutcomesKept`: `FlushScheduled`, `OutcomeOnce`, `BatchBound` |
| | `StopIsOrderly` | `OrderlyStop` |

A theorem about an actor rests on an inductive invariant, shown to hold initially and to be preserved
by each action, in a lemma of its own where it takes more than a few lines.

- *UpstreamProjectSource.* The type invariant, `OneFetch` with `TimerFindsWork` and `NoForgottenChannel` (they need each other:
  that a timer finds work is what keeps the backoff an exact flag), and ownership. Ownership
  is inductive only together: that a channel has one owner is what lets `Close` drop the replaced
  one without stranding the receivers of another. The refinement adds that requests with
  `no_cache` wait on channels with `no_cache`, so that any query that contains them has the flag.
  The bound of the queries rests on `FetchBound`, a fetch holds at most `TotalCount` channels, and on the
  arithmetic of the chunks: `TotalCount` is a multiple of `NumBatches`, so no batch is left over.
- *ProjectCache.* Types, `WaiterHasChannel`, `ChannelHasUpdate`, and `Asked`: an update in the upstream stage, and no
  other, has a request with the same `no_cache`. `NoCacheKept` then follows from
  `Accepts`: the update that answers a `no_cache` client has `no_cache` itself, and `FetchService` answers it with a
  fresh state. This is the point at which the refinement above is used.
- *UpstreamRelay.* `OutageIsChecked` alone is not inductive: a check whose answer has already ended the
  outage does not count for an outage that begins before its continuation runs. `OutageInv` asks for
  a pending check or one that is *undecided* (sent, body being read, or failed). `AuthInv` adds that
  while the authentication is under way the state is `Registering` or `Renewing`. `QueueIsPumped` needs both: a response
  that ends an outage wakes nobody, and it is the check left over from the outage that does.
  `QueuesInv` is added for the queues: each is a sequence without repetition of the requests of its priority in stage
  `queued`, and the requests in flight, finitely many, are counted up to notifications not handled yet.
  What the pump takes is then a prefix of the high queue followed by one of the low queue, from which `HighFirst` follows.
- *RelayCache.* Types, at most one query, that it has channels, that queued channels imply a
  started backoff, and ownership.
- *Aggregator.* That no value is counted twice is not inductive for one bucket: a flush that is merged back could
  bring a value again. `OnePlace` says that a report is in the buckets of the aggregator or in one flush under way,
  at its own key (`Sound`), once; `Accounted` adds that it has a place until it is delivered or dropped. The
  refinement maps a report to `held` exactly while it has a place.
- *EnvelopeManager.* The counter equals the size of the set of open futures, which is finite whatever the set of envelopes is,
  because an envelope that is not queued yet has no future (`NotYetQueued`). Nothing of this depends on what is in
  an envelope or on what a worker makes of it. `EndsOnce` does, and neither of its parts is inductive: they speak of ends
  met, and not of who may still bring one about. `Ledger` says that for every moment. A unit is *owned*: by the
  request until its envelope is queued (`Requested`), then by at most one of the two parts (`Separate`), through the summary of the
  future while it is open and through the envelope in the message it left behind afterwards. `Answerable` gives, for an owned unit and
  the stage of its owner, the ends that it can have met by then: none while a handler has still to look at it, the timeout alone when
  the future is gone, the limit or quota that the answer on its way reports. `Covered` says that a unit without an end is owned.
  The steps then rest on lemmas about the operators: what `enforce` takes from an envelope and reports, and what stays
  counted in it, share its units and have none in common (`TakesUnits`); so do the two halves of `split_by` (`SplitUnits`); taking metrics
  takes no unit (`QueuedUnits`, for which `TakeItems` says what the gaps that `swap_remove` leaves are filled with); and no step of the pipeline of a worker
  adds a unit that the envelope had not, except the contents of a crash report. Those are units nobody counted before, which
  is what `ContentAssumption` is for: it says that the names the model invents for them (`NewName`) are not names of
  items that a client has sent. In the code items have no names, so this restricts the naming and not the program.
- *RateLimiter.* Redis forgets a counter when it expires, so exactness needs to know that nobody will use it again:
  `CounterOK` says that a counter that is missing was never used, or that its window ended more than `Grace` ago, and
  `JobOK` that a call under way was made with the relay's own time at most `MaxDelay` ago. With `TimesAssumption` (drift
  and delay fit into the grace period) the two exclude that a late call starts a second counter for a window.
  `LimitJustified` compares with the clock; the invariant says instead when a limit expires, which passing time does not change,
  for limits that are cached, in the answer of the script, and in headers on their way to an edge.
- *OutcomeProducer and Controller.* `ProducerInv`: a timer is armed exactly while outcomes wait, an outcome is in one place,
  a waiting batch is smaller than the limit. `ControllerInv` adds for each shutdown who is through with it (`Through`) and
  `Flushed`: after the moment at which the stop is scheduled, outcomes seen by it are out of the mailboxes, and a timer
  that they wait for fires before the stop.

A theorem about an algorithm is about all its inputs. Where the code loops, the model is a
recursive function, and two things have to be shown of it: that there is a function which satisfies the
recursive equation, and what its values are. Both are proved by *least counterexample*. The set of
positions up to which the claim fails is a subset of `1 .. n`, so if it is not empty it has a least element
(`Least`, from the finiteness of `1 .. n`); its predecessor satisfies the claim, and one step of the
loop carries it on. This needs no induction schema.

- *Envelopes as text.* What `parse_items` has read at any position is a list of items, and what is left of the
  text is its end. For the round trip the argument runs backwards, from the end of the text that `serialize` writes: if
  the parser stands at the beginning of the text of item `j`, it reads exactly that item, for its header
  has the length of its payload, and stands at the beginning of the next. Completing headers that were completed before
  changes nothing, as their DSN is that of the request by then.
- *Messages to Kafka.* `FlattenSeq` puts the messages of an item at an offset that is the sum of the lengths before
  it, so the chunks of an attachment are consecutive, numbered and add up to its size; whatever is announced by a
  later message was written before, and a producer that fails leaves a prefix. All these messages have the id of the
  envelope and, as an attachment makes the event slow, one topic; with an id that is not nil they have one key.
- *Selectors.* `Path::matches_selector` compares what follows the deep wildcard with the end of the path, then takes the first state
  that matches the first item, and compares the items in front of the wildcard from there on. A match gives the states that the
  wildcard stands for (`FoundIsSelected`). The other direction (`SelectedIsFound`) holds for all selectors without a deep wildcard and
  all that start with one. If other items, plain wildcards included, come before it, the code does not try a second start: `StartsFirst` says
  that they start at the first state which the first item matches, and with this `Exact` is an equivalence for every selector.
- *Registration, signatures, projects.* No loops but the parts of a version. The doubt of one second in `RegistersInTime` is
  the one that the token loses; for `ChainsAgree` the answer of the upstream is taken apart by what the
  Relay may see, and invalid, missing and disabled projects are all refused. `check_disabled` lets everything through
  with a hard outdated state; then `AgreesOn` says that the Relay decides as the upstream would if that left these checks out too.
- *Forwarded requests.* `AcceptedIsComplete` says what the meta data of an accepted request can be, whichever of the
  ways to give a key was used. `ForwardedAccepted` follows the request that `SendEnvelope` makes of it through the next Relay. The
  first attempt at the proof failed for a reason in the code: the first line of an envelope may have a
  version above 7 or an origin that is not `http`, which the first Relay does not look at and the next one refuses (section 6).
  `ForwardsAlike` states this, in both directions, and the inputs of the run contain both.
- *Events.* The stages of `NormalizeProcessor` are composed by `Alike`, which says what fields a stage may change. The
  times are shifted twice at most, by the correction of the drift and by `normalize_timestamps`; a shift moves all
  timestamps of an event and its spans by the same amount (`IsMoved`), which keeps their order and durations. Tags are
  followed through five steps: the removal of `environment` shifts positions by one, deduplication keeps the first of each
  key (`KeepsFirst`), the check empties keys and values and keeps other keys apart (`TagsAreChecked`), and the two
  insertions replace or append (`HasInserted`). Without null entries, `PairList::position` is the index of the first entry with the key
  (`TagPosition`); with them only the keys are known to stay apart. `DriftAssumption` (limits and the minimal drift are natural numbers) is all that
  is asked of the constants.

Only model-checked:
- liveness: fairness and `ENABLED` are beyond the prover;
- algorithms that walk trees are `RECURSIVE` operators, with which the prover cannot work: conditions of sampling, bags and
  frames, values with meta data, compiled rules, the text of selectors. So `OldRelayAgrees`, `RedactionExact` but for its selectors,
  `TrimmingBounds` and `SelectorsTravel` are not proved;
- `LegacyDefault`, `SettingsObeyed` and `FolderKept` are about a fixed list of browsers, settings and commands, which the run enumerates;
- the parts of `EnvelopeExact` that are not about the text of envelopes (forms, ids, minidumps, bodies that arrive in pieces, metrics),
  and of `EventNormalized` the breakdowns, conversions and security reports, are left to the run.

## 6. Where code and comments disagree

Two are runs whose property states what the comment says, and which TLC refutes.

- `metrics_missing`: the handler of `FlushBuckets` says "Only send if the project state is valid, otherwise drop
  this bucket." (`project_cache.rs:583`). A state without a project id has no `scoping()`, so the buckets of a
  project that the upstream does not know are merged back and flushed again for ever.
- `envelope_outcomes`: "for every event exactly one outcome must be emitted" (`outcome.rs:3`). A transaction
  that trace sampling removes at the endpoint leaves no outcome if its envelope keeps another item.

The others were met while modelling. The models do what the code does, and where a property
would fail because of one of them, its statement names the exception.

*Actors.*
- A failed batch is put back with `HashMap::extend`, which replaces channels pushed in the meantime
  (`project_upstream.rs:270`, and the same in `relays.rs`). Their requests fail before their deadline.
- A `no_cache` request may be answered from Redis, although "all caches should be skipped"
  (`project_cache.rs:188`, `262`).
- A failed background refresh replaces a soft outdated state by none, although events "can still
  be processed" with it (`project.rs:38`, `667`).
- A project that was disabled and is valid again keeps its aggregator `Unavailable`, because
  `get_or_create_aggregator` only creates one from `Unknown` (`project.rs:563`, `576`).
- A response that ends an outage does not "resume sending events" by itself (`upstream.rs:677`); if its
  notification was handled before, queued requests wait for the next check.
- `actual_batch_size` does not depend on the number of channels, so projects are not distributed "evenly
  across HTTP requests"; of two requests that are retried the later one is sent first, although
  "within the same priority messages are sent FIFO".
- The timeout of `HandleEnvelope` races the answer of the upstream, and a worker that fails after
  `enforce_quotas` leaves a second outcome: the two exceptions of `OneEnd`.
- An envelope with an event and a transaction loses the transaction silently; `Event` and `Security`
  items lose their type through `ty.set_value(None)`; after "only attachments can remain" other items can.
- The two parts of a split envelope share one entry of `captures`. Aggregated sessions (`Sessions`) are
  never rate limited. `process_sessions` compares timestamps in the future with the maximal age.
- A gauge that is merged back after a failed flush takes its last value from the older bucket.
- "After the timeout the system will shut down regardless of what the receivers of this message do"
  (`controller.rs:241`): `Controller` waits until all subscribers have answered.
- An envelope may have a nil event id (`event.rs:57`; the `debug_assert` at `envelopes.rs:1095` is not in a release build).
  `KafkaMessage::key` gives each of its messages a random key (`store.rs:541`), so that chunks and event may come
  to different partitions: the exception of `Reassembles`.
- `store.rs:389`: an empty attachment has no chunk, although the count "must be greater than zero".
- `Quota::matches_scope` is documented to match more than it does (`quota.rs:279`).

*Requests and envelopes.*
- `PeekLine` "places the polled chunks back into the payload" (`peek_line.rs:99`). If the body has no
  newline, the end of the payload has been seen, the flag `done` stays set, and what was put back is
  not read again: such an envelope is refused as an empty body.
- When the key comes from the first line of an envelope, the project of the URL is not compared with
  that of the DSN. A `PartialDsn` without project is written with 0, which `from_dsn` refuses.
- "we want to be as accurate as possible in the endpoint already" (`envelope.rs:629`): the version in the first line is merged
  after `handle_store_like_request` has checked that of the request, and an origin that comes with the key in the first line
  need not be `http` or `https`. Both are accepted, and refused by the next Relay.
- `event_id_from_items` documents an order of precedence (`common.rs:248`), but `event_id_from_formdata` returns at the
  first of either key. `sentry[open` without a closing bracket loses its value.
- A second `@` part of a metric's name, and all but the last list of tags, are ignored.
- With a hard outdated state, `check_disabled` returns `Ok` (`project.rs:346`): a Relay accepts requests for projects that are
  unknown or disabled and its upstream filters them, as the comment there says. `CheckEnvelope::cached` (`common.rs:432`) gets there. The
  exception of `AgreesOn`; ids, origins and keys are checked all the same.
- A project state that is invalid upstream is left out of the answer to `projectconfigs`, and read as
  missing. The time in a registration token is in whole seconds, so that a challenge may expire up
  to a second early.

*Configuration.*
- `extract_config_args` takes `port` from `--redis-url` (`cli.rs:66`): `--port` is ignored, and `--redis-url` makes `run` fail.
- `credentials set` reads the public key from the argument `secret_key` (`cli.rs:119`).
- Processing that is enabled by an override bypasses the check that it was compiled in.
- A write of `credentials.json` that is cut off makes all later commands fail, `generate --overwrite` included.

*Filters, sampling, personal data.*
- "default" among legacy browsers does not include IE 10 and 11, and hides their own settings.
- `trim_string` exceeds its limit by up to two characters. The assertion at `pii/processor.rs:316` fails for
  `ReplaceBehavior::Value`, and for a match that spans a redaction.
- Selectors with a deep wildcard do not backtrack (`a.b.**` misses `a.a.b.x`, and `*.b.**` a `b` that is not next to the first state): the
  exception of `Exact`. A selector that is one key
  named like an older word (`email`, `text`) is read again as a type. Leading spaces in quoted keys are
  skipped, and the empty key is printed as text that does not parse.
- `collect_rules` does not remember `Multiple` and `Alias` rules: a cycle of them never ends
  (`compiledconfig.rs:43`). A `Multiple` rule's own redaction applies only with `hide_inner`. `@imei:mask` hashes, and
  `@common:filter` refers to `@userpath:filter`, which does not exist.
- Children of an excluded field are still scrubbed. `pii="true"` on the reports of certificates has no
  effect on their fields.
- In wide text a trailing surrogate needs four bytes of room too, so a pair that fits exactly is cut;
  the version for bytes cuts inside a UTF-8 character. An empty match at the end of wide text covers
  its whole segment; empty groups count as a change in wide text only. Text next to a match that is
  shorter than `MIN_STRING_LEN` is not searched as wide text.
- Two modules of a minidump that share a name: the debug file of the second is not scrubbed. After a
  failure the dump is scrubbed as a plain attachment, and rules for `$heap_memory` reach nothing more.

*Events.*
- `slim_frame_data` drops the data of the middle frame when the number of frames of the application is
  odd; null frames make its count underflow. Strings in nested databags are trimmed to the inner
  bag only. `serialize_i64` ignores `flat` in the estimate of sizes.
- `max_chars` of `Frame.filename`, `abs_path` and of thread ids is never enforced; `grouping_config`, the values in `errors`,
  `ocsp_response`, data and tags of spans, `User.data` and unknown debug images have no limit.
- `ClockDriftProcessor::process_timestamp` can underflow. Timestamps before 1970 lose their fraction at each
  read. An `environment` taken from a tag is not validated, and a second such tag stays.
- `ErrorKind::parse` does not know `clock_drift`; `Meta::has_remarks` says the opposite of its name.
- The documentation of `SkipSerialization` names another default than the derive has; newtypes get
  `before_process` twice. An array leaves out empty items but numbers the meta data of all, so meta data
  moves to another item at the next Relay. A legacy alias is dropped silently when the field is there,
  even as null. `Values` with null `values` and other keys is read as a single item.
- `PairList::position` counts entries that are not null, but is used as an index of all entries: with a null entry before
  it, `normalize_event_tags` takes, removes or overwrites another tag, or loses `server_name` and `site`. The
  exception of `HasUniqueTags`. `server_name` and `site` become tags after the check of lengths and may be empty or too long.
  A key that is empty or too long is replaced by an error after the deduplication, so several tags may be without a key.
- Without an error vanish: elements of fingerprints that are null or long, measurements whose names
  become equal, a message `false`, an empty `Values` object, the original of an element of a header array.
- The inline messages of `script-src-attr` and `script-src-elem` look swapped. Two optional times of `ExpectCt` are
  required, and null is an error. `normalize_value` ignores the difference of `http` and `https`.

## 7. Limits

- In most actors time is abstract: a clock passes a limit at any moment, and lengths of delays are
  out of scope. `RateLimiter` and `Controller` count ticks. Project states, requests, signatures and bodies are opaque.
- The end of an actor is modelled where another one handles it (`MailboxError`). The error of `send_request` for
  a closed channel, metrics and logging are left out.
- `UpstreamRelay` in managed mode has credentials (the process does not start without).
- A relay that is denied keeps its queues for ever; properties except it, as the code does.
- Payloads of items are abstract in `EnvelopeManager`: a worker may find them broken, filtered or sampled at
  any time. Metrics extracted from sessions and transactions are reports to the `Aggregator`.
- Regular expressions, globs, networks and user agents are abstracted to what they match: sets of
  patterns, runs of letters. Random numbers are inputs. Cryptography is symbolic.
- Algorithms without a theorem in section 5 are only model-checked, up to their bounds.

**Not modelled**, and why:
- `LocalProjectSource` polls a directory: planned. The stop of an `Aggregator` drops it with its project and
  is part of `StateExpires` only as far as the project is concerned.
- Quotas of sessions, reason codes and `max_limit` of quotas: data that takes no other path.
- The bounded mailbox of the outcome producer; readiness checks; Unreal reports and annotations of
  Crashpad; CORS and other middlewares; the endpoint that forwards unknown requests; bodies in
  query strings of GET requests; items by index in the text of selectors.
- Independent transformations of single fields: contexts, user agents, mechanisms, legacy exceptions,
  geo lookup, the JSON schema, types with the derived conversion. A model of them would
  restate the code.
- Sub-second rounding of durations, getters of the configuration, TLS, prompts of `init`, logging and
  statistics, the C ABI and the Python bindings: input and output only.
