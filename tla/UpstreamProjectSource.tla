----------------------- MODULE UpstreamProjectSource ------------------------
(***************************************************************************)
(* The actor UpstreamProjectSource (relay-server/src/actors/               *)
(* project_upstream.rs): it batches FetchProjectState messages into        *)
(* GetProjectStates queries, joins the answers of a fetch, and retries the *)
(* batches that failed until the deadline of a channel.                    *)
(*                                                                         *)
(* A channel (ProjectStateChannel) is named after the request that created *)
(* it; the requests that share its receiver are those r with               *)
(* waitsOn[r] equal to that name.                                          *)
(***************************************************************************)
EXTENDS Integers, FiniteSets

CONSTANTS
  Keys,          \* project keys: numbers, for the order of the BTreeMap
  Requests,      \* names of the FetchProjectState messages in use
  NoChannel,     \* None, in place of a channel
  Fetches,       \* names of the futures that fetch_states spawns
  BatchSize,     \* config.query_batch_size()
  NumBatches,    \* config.max_concurrent_queries()
  MayStop        \* whether the UpstreamRelay actor may stop

ASSUME KeysAssumption    == Keys \subseteq Nat /\ IsFiniteSet(Keys)
ASSUME ChannelAssumption == NoChannel \notin Requests
ASSUME BatchAssumption   == BatchSize \in Nat \ {0} /\ NumBatches \in Nat \ {0}
ASSUME MayStopAssumption == MayStop \in BOOLEAN

VARIABLES
  reqs,           \* the callers' view of their messages (FetchService)
  waitsOn,        \* request -> the channel whose receiver it holds
  noCache,        \* channels with no_cache set
  expired,        \* channels whose deadline has passed
  stateChannels,  \* UpstreamProjectSource::state_channels
  started,        \* UpstreamProjectSource::backoff.started()
  timers,         \* pending run_later(.., fetch_states)
  running,        \* fetches between fetch_states and their and_then
  inflight,       \* fetch -> key -> channel moved into the fetch
  replies,        \* fetch -> batch -> the answer to its query
  alive           \* the UpstreamRelay actor takes messages

vars == <<reqs, waitsOn, noCache, expired, stateChannels, started, timers,
          running, inflight, replies, alive>>

Service == INSTANCE FetchService

Channels == Requests \cup {NoChannel}
Batches  == 0 .. NumBatches - 1
Replies  == {"pending", "ok", "error"}

TypeOK ==
  /\ Service!FetchTypeOK
  /\ waitsOn \in [Requests -> Channels]
  /\ noCache \subseteq Requests
  /\ expired \subseteq Requests
  /\ stateChannels \in [Keys -> Channels]
  /\ started \in BOOLEAN
  /\ timers \in Nat
  /\ running \subseteq Fetches
  /\ inflight \in [Fetches -> [Keys -> Channels]]
  /\ replies \in [Fetches -> [Batches -> Replies]]
  /\ alive \in BOOLEAN

Empty == [k \in Keys |-> NoChannel]

(* The keys that m, a map like state_channels, has a channel for.          *)
Domain(m) == {k \in Keys : m[k] # NoChannel}

Receivers(chans) == {r \in Requests : waitsOn[r] \in chans}

Init ==
  /\ Service!FetchInit
  /\ waitsOn = [r \in Requests |-> NoChannel]
  /\ noCache = {} /\ expired = {}
  /\ stateChannels = Empty
  /\ started = FALSE
  /\ timers = 0
  /\ running = {}
  /\ inflight = [f \in Fetches |-> Empty]
  /\ replies = [f \in Fetches |-> [b \in Batches |-> "pending"]]
  /\ alive = TRUE

-----------------------------------------------------------------------------
(* How fetch_states cuts the channels of a fetch into queries.             *)

TotalCount == BatchSize * NumBatches

ActualBatchSize_Undivided == TotalCount

ActualBatchSize == (TotalCount + (TotalCount % NumBatches)) \div NumBatches

(* chunks() over a BTreeMap: keys in order, ActualBatchSize at a time.     *)
BatchOf(m, k) == Cardinality({j \in Domain(m) : j < k}) \div ActualBatchSize

Batch(f, b) == {k \in Domain(inflight[f]) : BatchOf(inflight[f], k) = b}

Queries(f) == {BatchOf(inflight[f], k) : k \in Domain(inflight[f])}

QueryNoCache_All(f, b) == \A k \in Batch(f, b) : inflight[f][k] \in noCache

(* GetProjectStates { no_cache: channels_batch.values().any(..) }          *)
QueryNoCache(f, b) == \E k \in Batch(f, b) : inflight[f][k] \in noCache

-----------------------------------------------------------------------------
(* The operations. A definition with an underscore and a capitalised       *)
(* suffix is a mutant: a bug this code could have, for which TLC must find *)
(* the property it endangers violated.                                     *)

MustSchedule_Always == TRUE

(* The handler schedules a fetch if !backoff.started().                    *)
MustSchedule == ~started

(* Handler<FetchProjectState>: schedule a fetch unless the backoff says    *)
(* that one is under way, then join or create the channel of the key.      *)
Fetch(r, k, nc) ==
  LET c == IF stateChannels[k] = NoChannel THEN r ELSE stateChannels[k]
  IN  /\ Service!FetchProjectState(r, nc)
      /\ timers' = IF MustSchedule THEN timers + 1 ELSE timers
      /\ started' = TRUE
      /\ stateChannels' = [stateChannels EXCEPT ![k] = c]
      /\ waitsOn' = [waitsOn EXCEPT ![r] = c]
      /\ noCache' = IF nc THEN noCache \cup {c} ELSE noCache
      /\ UNCHANGED <<expired, running, inflight, replies, alive>>

(* The channels of `sent' deliver a state, with a no_cache query for those *)
(* of `fresh'; those of `dropped' go without one, which their receivers    *)
(* see as an error.                                                        *)
Close(sent, fresh, dropped) ==
  /\ reqs' = Service!Answered(Receivers(sent), Receivers(fresh), Receivers(dropped))
  /\ waitsOn' = [r \in Requests |->
                   IF waitsOn[r] \in sent \cup dropped THEN NoChannel ELSE waitsOn[r]]
  /\ noCache' = noCache \ (sent \cup dropped)
  /\ expired' = expired \ (sent \cup dropped)

TimerFires_Unarmed == timers' = timers - 1

TimerFires == timers > 0 /\ timers' = timers - 1

Expired_Never(c) == FALSE

(* ProjectStateChannel::expired                                            *)
Expired(c) == c \in expired

Remaining_All(projects) == stateChannels

(* state_channels once `projects' have been taken out with remove().       *)
Remaining(projects) ==
  [k \in Keys |-> IF k \in projects THEN NoChannel ELSE stateChannels[k]]

(* The timer fires and fetch_states takes up to TotalCount channels, in    *)
(* the order of a HashMap: any. Expired ones are dropped, the others sent  *)
(* in batches. Without a channel it returns at once.                       *)
fetch_states(f) ==
  /\ TimerFires
  /\ f \notin running
  /\ \E projects \in SUBSET Domain(stateChannels) :
       LET channels == [k \in Keys |->
                          IF k \in projects /\ ~Expired(stateChannels[k])
                          THEN stateChannels[k] ELSE NoChannel]
       IN  /\ Cardinality(projects) <= TotalCount
           /\ projects # Domain(stateChannels) => Cardinality(projects) = TotalCount
           /\ stateChannels' = Remaining(projects)
           /\ Close({}, {}, {stateChannels[k] : k \in {j \in projects : Expired(stateChannels[j])}})
           /\ inflight' = [inflight EXCEPT ![f] = channels]
           /\ replies' = [replies EXCEPT ![f] = [b \in Batches |-> "pending"]]
           /\ running' = IF projects = {} THEN running ELSE running \cup {f}
  /\ UNCHANGED <<started, alive>>

(* The UpstreamRelay answers one query. The outcome is the upstream's.     *)
Reply(f, b, outcome) ==
  /\ alive
  /\ f \in running
  /\ b \in Queries(f)
  /\ replies[f][b] = "pending"
  /\ replies' = [replies EXCEPT ![f][b] = outcome]
  /\ UNCHANGED <<reqs, waitsOn, noCache, expired, stateChannels, started, timers,
                 running, inflight, alive>>

(* The future of fetch f is over and with it the channels it still owns.   *)
EndOfFetch(f) ==
  /\ running' = running \ {f}
  /\ inflight' = [inflight EXCEPT ![f] = Empty]
  /\ replies' = [replies EXCEPT ![f] = [b \in Batches |-> "pending"]]

Extend_Forgets(m, f, back) == m

(* HashMap::extend: the channels of fetch f for the keys of `back' are put *)
(* into m, each in place of the one m has for its key.                     *)
Extend(m, f, back) == [k \in Keys |-> IF k \in back THEN inflight[f][k] ELSE m[k]]

MoreWork_Always(m) == TRUE
MoreWork_BeforeExtend(m) == Domain(stateChannels) # {}

(* The fetch is followed by another if state_channels is not empty.        *)
MoreWork(m) == Domain(m) # {}

(* The and_then of join_all: successful batches reset the backoff and      *)
(* answer their channels, failed ones go back to state_channels, where     *)
(* extend() replaces a channel that the key got in the meantime. Then the  *)
(* next fetch is scheduled, or the backoff is reset.                       *)
fetch_joined(f) ==
  LET back == {k \in Domain(inflight[f]) : replies[f][BatchOf(inflight[f], k)] = "error"}
      done == Domain(inflight[f]) \ back
      replaced == {k \in back : stateChannels[k] # NoChannel}
      channels == Extend(stateChannels, f, back)
  IN  /\ f \in running
      /\ \A b \in Queries(f) : replies[f][b] # "pending"
      /\ stateChannels' = channels
      /\ Close({inflight[f][k] : k \in done},
               {inflight[f][k] : k \in {j \in done : QueryNoCache(f, BatchOf(inflight[f], j))}},
               {stateChannels[k] : k \in replaced})
      /\ timers' = IF MoreWork(channels) THEN timers + 1 ELSE timers
      /\ started' = MoreWork(channels)
      /\ EndOfFetch(f)
      /\ UNCHANGED alive

(* The UpstreamRelay actor stops, as it does when the process shuts down.  *)
UpstreamStops ==
  /\ MayStop /\ alive
  /\ alive' = FALSE
  /\ UNCHANGED <<reqs, waitsOn, noCache, expired, stateChannels, started, timers,
                 running, inflight, replies>>

(* A query ends with a MailboxError: join_all fails, drop_err() discards   *)
(* the fetch with the channels of all its batches, and the backoff stays   *)
(* started.                                                                *)
fetch_dropped(f) ==
  /\ ~alive
  /\ f \in running
  /\ \E b \in Queries(f) : replies[f][b] = "pending"
  /\ Close({}, {}, {inflight[f][k] : k \in Domain(inflight[f])})
  /\ EndOfFetch(f)
  /\ UNCHANGED <<stateChannels, started, timers, alive>>

(* query_timeout passes for the channel c.                                 *)
DeadlinePasses(c) ==
  /\ waitsOn[c] = c
  /\ c \notin expired
  /\ expired' = expired \cup {c}
  /\ UNCHANGED <<reqs, waitsOn, noCache, stateChannels, started, timers,
                 running, inflight, replies, alive>>

(* The caller is done with its answer.                                     *)
Take(r) ==
  /\ Service!TakeAnswer(r)
  /\ UNCHANGED <<waitsOn, noCache, expired, stateChannels, started, timers,
                 running, inflight, replies, alive>>

Next ==
  \/ \E r \in Requests, k \in Keys, nc \in BOOLEAN : Fetch(r, k, nc)
  \/ \E f \in Fetches : fetch_states(f)
  \/ \E f \in Fetches, b \in Batches, outcome \in {"ok", "error"} : Reply(f, b, outcome)
  \/ \E f \in Fetches : fetch_joined(f)
  \/ UpstreamStops
  \/ \E f \in Fetches : fetch_dropped(f)
  \/ \E c \in Requests : DeadlinePasses(c)
  \/ \E r \in Requests : Take(r)

Spec == Init /\ [][Next]_vars

(* Timers fire, futures whose input is ready are polled, the upstream (or  *)
(* the timeout of its HTTP client) ends every query, and time passes.      *)
Fairness ==
  /\ WF_vars(\E f \in Fetches : fetch_states(f))
  /\ \A f \in Fetches :
       /\ WF_vars(fetch_joined(f))
       /\ \A b \in Batches : WF_vars(\E outcome \in {"ok", "error"} : Reply(f, b, outcome))
  /\ \A c \in Requests : WF_vars(DeadlinePasses(c))

FairSpec == Spec /\ Fairness

-----------------------------------------------------------------------------
(* The properties.                                                         *)

(* fetch_states "assumes that currently no request is running": never do   *)
(* two fetches run, nor a fetch while a timer is pending, however          *)
(* requests, replies, retries and deadlines interleave. The backoff, which *)
(* doubles as the flag for this, is started then; and while the upstream   *)
(* lives it is started only then.                                          *)
OneFetch ==
  /\ \A f, g \in running : f = g
  /\ timers = 0 \/ (timers = 1 /\ running = {})
  /\ timers = 1 \/ running # {} => started
  /\ alive /\ started => timers = 1 \/ running # {}

(* The early return of fetch_states without a reset of the backoff, which  *)
(* would leave the source deaf to all later requests, is never taken.      *)
TimerFindsWork == timers > 0 => Domain(stateChannels) # {}

(* No channel waits in state_channels without a fetch to come, unless the  *)
(* upstream is gone.                                                       *)
NoForgottenChannel ==
  Domain(stateChannels) # {} => started /\ (alive => timers > 0 \/ running # {})

(* The timer, the running fetch, the backoff and the waiting channels agree. *)
Scheduled == OneFetch /\ TimerFindsWork /\ NoForgottenChannel

(* The actor owns channel c: in state_channels, or in a running fetch.     *)
Owned(c) ==
  \/ \E k \in Keys : stateChannels[k] = c
  \/ \E f \in running, k \in Keys : inflight[f][k] = c

(* Every request that waits holds the receiver of a channel that the actor *)
(* still owns, so that it can be answered: neither a retry, nor a deadline,*)
(* nor a channel replaced by extend() strands a request.                   *)
ReceiverHasSender ==
  \A r \in Requests :
    /\ reqs[r].status = "waiting" <=> waitsOn[r] # NoChannel
    /\ waitsOn[r] # NoChannel => Owned(waitsOn[r])

(* No channel is owned twice (it can be sent to once only), and each one   *)
(* is still awaited by the request that created it.                        *)
OwnedOnce ==
  /\ \A k, j \in Keys :
       stateChannels[k] # NoChannel /\ stateChannels[k] = stateChannels[j] => k = j
  /\ \A f \in Fetches, k, j \in Keys :
       inflight[f][k] # NoChannel =>
         /\ f \in running
         /\ inflight[f][k] # stateChannels[j]
         /\ inflight[f][k] = inflight[f][j] => k = j
  /\ \A c \in Requests : Owned(c) => waitsOn[c] = c

(* Nobody is stranded, and nobody can be answered twice.                   *)
ChannelsOwned == ReceiverHasSender /\ OwnedOnce

(* No query asks for more than query_batch_size keys, and no fetch sends   *)
(* more than max_concurrent_queries of them.                               *)
QueryBounds ==
  \A f \in running :
    /\ Queries(f) \subseteq Batches
    /\ \A b \in Batches : Cardinality(Batch(f, b)) <= BatchSize

(* The source implements the service that ProjectCache relies on: every    *)
(* answer is given once, and a request with no_cache gets no state of a    *)
(* query without it, although queries mix channels with and without it.    *)
ImplementsService == Service!FetchSafety

(* Every request is answered, even if every query fails: the deadline of   *)
(* its channel ends the retries. The end of the upstream actor, with which *)
(* the process ends, is the exception.                                     *)
EveryRequestAnswered ==
  \A r \in Requests :
    (reqs[r].status = "waiting") ~> (reqs[r].status # "waiting" \/ ~alive)

=============================================================================
