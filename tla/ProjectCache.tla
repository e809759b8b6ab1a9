---------------------------- MODULE ProjectCache ----------------------------
(***************************************************************************)
(* The actor ProjectCache with the Project entries it owns (relay-server/  *)
(* src/actors/project_cache.rs and project.rs): who waits for the state of *)
(* a project key, which UpdateProjectState messages are under way for it,  *)
(* and what an answer does to the entry.                                   *)
(*                                                                         *)
(* The actor runs one handler or one ready future at a time; each action   *)
(* is one of them. A project state is told apart by what check_disabled    *)
(* sees of it and by where it comes from. Time is abstracted: a state      *)
(* passes its expiry and its grace period, an entry passes its eviction    *)
(* age, and a second without no_cache passes, whenever they like.          *)
(***************************************************************************)
CONSTANTS
  Keys,          \* project keys
  Clients,       \* senders of GetProjectState and CheckEnvelope
  Updates,       \* names of the UpdateProjectState messages in use
  RelayModes,    \* the values of config.relay_mode() to start with
  HasRedis,      \* a redis_source is configured
  MayClose,      \* whether the local and redis sources may stop
  Kinds,         \* what check_disabled tells of a state, see AllKinds
  None           \* Option::None

Modes   == {"Proxy", "Static", "Capture", "Managed"}
Sources == {"local", "mode", "redis", "upstream", "upstream_no_cache"}

(* "disabled" stands for disabled and for invalid states, which            *)
(* check_disabled rejects alike.                                           *)
AllKinds == {"enabled", "disabled"}

States == [kind : AllKinds, source : Sources]

ASSUME KindsAssumption == Kinds \subseteq AllKinds
ASSUME ModeAssumption == RelayModes \subseteq Modes /\ HasRedis \in BOOLEAN /\ MayClose \in BOOLEAN

VARIABLES
  mode,          \* config.relay_mode(), which never changes
  projects,      \* ProjectCache::projects: key -> Project or None
  clients,       \* client -> its request and the answer
  updates,       \* update -> its progress through UpdateProjectState
  reqs           \* the FetchProjectState messages, one per update

vars == <<mode, projects, clients, updates, reqs>>

Source == INSTANCE FetchService WITH Requests <- Updates

Outdated    == {"Updated", "SoftOutdated", "HardOutdated"}
Aggregators == {"Unknown", "Available", "Unavailable"}

(* Project: `age' is state.outdated(); `channel' is state_channel with its *)
(* no_cache flag; `throttled' is last_no_cache.elapsed() < 1s; `stale' is  *)
(* that last_updated_at lies further back than the eviction age.           *)
Projects ==
  [state      : States \cup {None},
   age        : Outdated,
   channel    : {"none", "cached", "no_cache"},
   aggregator : Aggregators,
   throttled  : BOOLEAN,
   stale      : BOOLEAN]

ASSUME NoneAssumption == None \notin Keys \cup States \cup Projects

Stages == {"idle", "queued", "local", "redis", "upstream"}

TypeOK ==
  /\ mode \in RelayModes
  /\ projects \in [Keys -> Projects \cup {None}]
  /\ clients \in [Clients -> [status   : {"idle", "waiting", "ok", "failed"},
                              key      : Keys \cup {None},
                              no_cache : BOOLEAN]]
  /\ updates \in [Updates -> [stage    : Stages,
                              key      : Keys \cup {None},
                              no_cache : BOOLEAN]]
  /\ \A c \in Clients : clients[c].status # "idle" => clients[c].key \in Keys
  /\ \A u \in Updates : updates[u].stage # "idle" => updates[u].key \in Keys
  /\ Source!FetchTypeOK

IdleClient == [status |-> "idle", key |-> None, no_cache |-> FALSE]

IdleUpdate == [stage |-> "idle", key |-> None, no_cache |-> FALSE]

Init ==
  /\ mode \in RelayModes
  /\ projects = [k \in Keys |-> None]
  /\ clients = [c \in Clients |-> IdleClient]
  /\ updates = [u \in Updates |-> IdleUpdate]
  /\ Source!FetchInit

-----------------------------------------------------------------------------
(* Project                                                                 *)

(* Project::new                                                            *)
NewProject ==
  [state |-> None, age |-> "HardOutdated", channel |-> "none",
   aggregator |-> "Unknown", throttled |-> TRUE, stale |-> FALSE]

(* ProjectCache::get_or_create_project                                     *)
GetOrCreate(k) == IF projects[k] = None THEN NewProject ELSE projects[k]

(* Project::get_or_create_aggregator                                       *)
CreateAggregator(p) ==
  IF p.aggregator = "Unknown" THEN [p EXCEPT !.aggregator = "Available"] ELSE p

(* ProjectState::check_disabled(..).is_ok()                                *)
CheckDisabledOk(state, age) == age = "HardOutdated" \/ state.kind = "enabled"

(* Project::update_aggregator                                              *)
UpdateAggregator(p) ==
  IF p.state = None THEN p
  ELSE IF CheckDisabledOk(p.state, p.age)
       THEN IF p.aggregator = "Unavailable" THEN CreateAggregator(p) ELSE p
       ELSE [p EXCEPT !.aggregator = "Unavailable"]

OutdatedOf(p) == IF p.state = None THEN "HardOutdated" ELSE p.age

(* At most one no_cache request per second and project.                    *)
Effective(p, nc) == nc /\ ~p.throttled

(* get_or_fetch_state answers from the cache.                              *)
Cached(p, nc) == ~nc /\ OutdatedOf(p) # "HardOutdated"

(* get_or_fetch_state sends UpdateProjectState: the state is not up to     *)
(* date, and no channel that serves the request is open.                   *)
NeedsFetch(p, nc) ==
  /\ nc \/ OutdatedOf(p) # "Updated"
  /\ p.channel = "none" \/ (nc /\ p.channel = "cached")

ChannelAfter_BornNoCache(p, nc) ==
  IF NeedsFetch(p, nc) THEN "no_cache" ELSE p.channel

(* The channel get_or_fetch_state leaves: a fetch opens it or sets its flag. *)
ChannelAfter(p, nc) ==
  IF ~NeedsFetch(p, nc) THEN p.channel ELSE IF nc THEN "no_cache" ELSE "cached"

(* The part of Project::get_or_fetch_state that changes the actor, for     *)
(* the project of key k; u names the message it sends, if any.             *)
GetOrFetchState(k, nc, u) ==
  LET p == GetOrCreate(k)
  IN  /\ projects' = [projects EXCEPT ![k] =
                        [p EXCEPT !.throttled = @ \/ nc, !.channel = ChannelAfter(p, nc)]]
      /\ IF NeedsFetch(p, nc)
         THEN /\ updates[u].stage = "idle"
              /\ updates' = [updates EXCEPT ![u] =
                               [stage |-> "queued", key |-> k, no_cache |-> nc]]
         ELSE UNCHANGED updates
      /\ UNCHANGED <<mode, reqs>>

ChannelsEnd_Reset(ks, status) ==
  [c \in Clients |-> IF clients[c].status = "waiting" /\ clients[c].key \in ks
                     THEN [IdleClient EXCEPT !.status = status] ELSE clients[c]]

(* The channels of the keys of `ks' send a state (status "ok") or are      *)
(* dropped (status "failed").                                              *)
ChannelsEnd(ks, status) ==
  [c \in Clients |-> IF clients[c].status = "waiting" /\ clients[c].key \in ks
                     THEN [clients[c] EXCEPT !.status = status, !.no_cache = FALSE]
                     ELSE clients[c]]

-----------------------------------------------------------------------------
(* Messages from the rest of the relay                                     *)

(* Handler<GetProjectState>, and Handler<CheckEnvelope> with fetch.        *)
GetProjectState(c, k, no_cache, u) ==
  LET p  == GetOrCreate(k)
      nc == Effective(p, no_cache)
  IN  /\ clients[c].status = "idle"
      /\ GetOrFetchState(k, nc, u)
      /\ clients' = [clients EXCEPT ![c] =
                       [status   |-> IF Cached(p, nc) THEN "ok" ELSE "waiting",
                        key      |-> k,
                        no_cache |-> nc]]

(* Handler<CheckEnvelope> without fetch, and Handler<FlushBuckets>: they   *)
(* do not wait for the state they ask for.                                 *)
Preload(k, u) ==
  /\ GetOrFetchState(k, FALSE, u)
  /\ UNCHANGED clients

(* Handlers of GetCachedProjectState and UpdateRateLimits.                 *)
Touch(k) ==
  /\ projects' = [projects EXCEPT ![k] = GetOrCreate(k)]
  /\ UNCHANGED <<mode, clients, updates, reqs>>

(* Handlers of InsertMetrics and MergeBuckets.                             *)
InsertMetrics(k) ==
  /\ projects' = [projects EXCEPT ![k] = CreateAggregator(GetOrCreate(k))]
  /\ UNCHANGED <<mode, clients, updates, reqs>>

(* The sender of GetProjectState takes its answer, or the sender of either *)
(* message an error.                                                       *)
ClientDone(c) ==
  /\ clients[c].status \in {"ok", "failed"}
  /\ clients' = [clients EXCEPT ![c] = IdleClient]
  /\ UNCHANGED <<mode, projects, updates, reqs>>

(* The state of a CheckEnvelope with fetch has arrived: its future looks   *)
(* the project up again to check the envelope.                             *)
CheckEnvelope(c) ==
  /\ clients[c].status = "ok"
  /\ projects' = [projects EXCEPT ![clients[c].key] = GetOrCreate(clients[c].key)]
  /\ clients' = [clients EXCEPT ![c] = IdleClient]
  /\ UNCHANGED <<mode, updates, reqs>>

-----------------------------------------------------------------------------
(* UpdateProjectState, from the mailbox to update_state                    *)

(* Handler<UpdateProjectState>: the entry evades eviction, and the message *)
(* goes to the local source.                                               *)
UpdateProjectState(u) ==
  LET k == updates[u].key
  IN  /\ updates[u].stage = "queued"
      /\ projects' = [projects EXCEPT ![k] = [GetOrCreate(k) EXCEPT !.stale = FALSE]]
      /\ updates' = [updates EXCEPT ![u].stage = "local"]
      /\ UNCHANGED <<mode, clients, reqs>>

Accepts_Any(p, no_cache) == p.channel # "none"

(* update_state takes the result unless nobody waits for one, or a request *)
(* with no_cache has superseded this one.                                  *)
Accepts(p, no_cache) == p.channel = "cached" \/ (p.channel = "no_cache" /\ no_cache)

(* The last step of u's future: Project::update_state with the result, or  *)
(* with None for an error; `age' is how outdated the state is by now (and  *)
(* counts for nothing without a state).                                    *)
UpdateState(u, result, age) ==
  LET k      == updates[u].key
      p      == GetOrCreate(k)
      loaded == UpdateAggregator([p EXCEPT !.channel = "none", !.state = result, !.age = age])
  IN  /\ result = None => age = "HardOutdated"
      /\ updates' = [updates EXCEPT ![u] = IdleUpdate]
      /\ projects' = [projects EXCEPT ![k] = IF Accepts(p, updates[u].no_cache) THEN loaded ELSE p]
      /\ clients' = IF ~Accepts(p, updates[u].no_cache) THEN clients
                    ELSE ChannelsEnd({k}, IF result = None THEN "failed" ELSE "ok")
      /\ UNCHANGED mode

(* The local source has a state for the key.                               *)
LocalHit(u, kind, age) ==
  /\ updates[u].stage = "local"
  /\ UpdateState(u, [kind |-> kind, source |-> "local"], age)
  /\ UNCHANGED reqs

(* It has none: ProjectState::allowed() or missing(), unless managed.      *)
LocalMissUnmanaged(u, age) ==
  /\ updates[u].stage = "local"
  /\ mode # "Managed"
  /\ UpdateState(u, [kind   |-> IF mode = "Static" THEN "disabled" ELSE "enabled",
                     source |-> "mode"], age)
  /\ UNCHANGED reqs

(* upstream_source.send(FetchProjectState { no_cache })                    *)
AskUpstream(u) ==
  /\ Source!FetchProjectState(u, updates[u].no_cache)
  /\ updates' = [updates EXCEPT ![u].stage = "upstream"]
  /\ UNCHANGED <<mode, projects, clients>>

LocalMissManaged(u) ==
  /\ updates[u].stage = "local"
  /\ mode = "Managed"
  /\ IF HasRedis
     THEN /\ updates' = [updates EXCEPT ![u].stage = "redis"]
          /\ UNCHANGED <<mode, projects, clients, reqs>>
     ELSE AskUpstream(u)

RedisHit(u, kind, age) ==
  /\ updates[u].stage = "redis"
  /\ UpdateState(u, [kind |-> kind, source |-> "redis"], age)
  /\ UNCHANGED reqs

RedisMiss(u) ==
  /\ updates[u].stage = "redis"
  /\ AskUpstream(u)

(* The mailbox of the local or of the redis source is closed, as it is     *)
(* when the process shuts down.                                            *)
SourceClosed(u) ==
  /\ MayClose
  /\ updates[u].stage \in {"local", "redis"}
  /\ UpdateState(u, None, "HardOutdated")
  /\ UNCHANGED reqs

(* The upstream source answers some of the messages (FetchService).        *)
UpstreamAnswers ==
  /\ Source!Answer
  /\ UNCHANGED <<mode, projects, clients, updates>>

UpstreamHit(u, kind, age) ==
  /\ reqs[u].status = "ok"
  /\ Source!TakeAnswer(u)
  /\ UpdateState(u, [kind   |-> kind,
                     source |-> IF reqs[u].fresh THEN "upstream_no_cache" ELSE "upstream"], age)

UpstreamFailed_Retries(u) ==
  /\ reqs[u].status = "failed"
  /\ reqs' = [reqs EXCEPT ![u].status = "waiting"]
  /\ UNCHANGED <<mode, projects, clients, updates>>

UpstreamFailed(u) ==
  /\ reqs[u].status = "failed"
  /\ Source!TakeAnswer(u)
  /\ UpdateState(u, None, "HardOutdated")

-----------------------------------------------------------------------------
(* Time and eviction                                                       *)

Ages(k, age) ==
  /\ projects[k] # None
  /\ projects[k].state # None
  /\ \/ projects[k].age = "Updated" /\ age \in {"SoftOutdated", "HardOutdated"}
     \/ projects[k].age = "SoftOutdated" /\ age = "HardOutdated"
  /\ projects' = [projects EXCEPT ![k].age = age]
  /\ UNCHANGED <<mode, clients, updates, reqs>>

SecondPasses(k) ==
  /\ projects[k] # None
  /\ projects[k].throttled
  /\ projects' = [projects EXCEPT ![k].throttled = FALSE]
  /\ UNCHANGED <<mode, clients, updates, reqs>>

BecomesStale(k) ==
  /\ projects[k] # None
  /\ ~projects[k].stale
  /\ projects' = [projects EXCEPT ![k].stale = TRUE]
  /\ UNCHANGED <<mode, clients, updates, reqs>>

StaleKeys == {k \in Keys : projects[k] # None /\ projects[k].stale}

EvictedChannels_Leaked == {}

(* The channels that go away with the evicted projects.                    *)
EvictedChannels == StaleKeys

(* evict_stale_project_caches                                              *)
Evict ==
  /\ StaleKeys # {}
  /\ projects' = [k \in Keys |-> IF k \in StaleKeys THEN None ELSE projects[k]]
  /\ clients' = ChannelsEnd(EvictedChannels, "failed")
  /\ UNCHANGED <<mode, updates, reqs>>

Next ==
  \/ \E c \in Clients, k \in Keys, nc \in BOOLEAN, u \in Updates : GetProjectState(c, k, nc, u)
  \/ \E k \in Keys, u \in Updates : Preload(k, u)
  \/ \E k \in Keys : Touch(k) \/ InsertMetrics(k)
  \/ \E c \in Clients : ClientDone(c) \/ CheckEnvelope(c)
  \/ \E u \in Updates : UpdateProjectState(u)
  \/ \E u \in Updates, kind \in Kinds, age \in Outdated :
       LocalHit(u, kind, age) \/ RedisHit(u, kind, age) \/ UpstreamHit(u, kind, age)
  \/ \E u \in Updates, age \in Outdated : LocalMissUnmanaged(u, age)
  \/ \E u \in Updates : LocalMissManaged(u) \/ RedisMiss(u) \/ SourceClosed(u) \/ UpstreamFailed(u)
  \/ UpstreamAnswers
  \/ \E k \in Keys, age \in Outdated : Ages(k, age)
  \/ \E k \in Keys : SecondPasses(k) \/ BecomesStale(k)
  \/ Evict

Spec == Init /\ [][Next]_vars

(* What happens to update u once it has left the mailbox.                  *)
Progress(u) ==
  \/ \E kind \in Kinds, age \in Outdated :
       LocalHit(u, kind, age) \/ RedisHit(u, kind, age) \/ UpstreamHit(u, kind, age)
  \/ \E age \in Outdated : LocalMissUnmanaged(u, age)
  \/ LocalMissManaged(u) \/ RedisMiss(u) \/ SourceClosed(u) \/ UpstreamFailed(u)

(* Mailboxes and ready futures are served, and the sources answer.         *)
Fairness ==
  \A u \in Updates : /\ WF_vars(UpdateProjectState(u))
                     /\ WF_vars(Progress(u))
                     /\ WF_vars(UpstreamAnswers /\ reqs'[u] # reqs[u])

FairSpec == Spec /\ Fairness

-----------------------------------------------------------------------------
(* The properties.                                                         *)

UnderWay(k) == {u \in Updates : updates[u].stage # "idle" /\ updates[u].key = k}

(* Whoever waits for a state waits on an open channel of an entry in the   *)
(* cache, with no_cache set if that was asked for: eviction, a failed      *)
(* fetch and a superseded one leave nobody behind.                         *)
WaiterHasChannel ==
  \A c \in Clients : clients[c].status = "waiting" =>
    /\ projects[clients[c].key] # None
    /\ projects[clients[c].key].channel # "none"
    /\ clients[c].no_cache => projects[clients[c].key].channel = "no_cache"

(* An open channel has an UpdateProjectState under way that will be let    *)
(* through by update_state, although updates overtake one another and an   *)
(* entry may have been evicted and created anew since they were sent.      *)
ChannelHasUpdate ==
  \A k \in Keys : projects[k] # None /\ projects[k].channel # "none" =>
    \E u \in UnderWay(k) : projects[k].channel = "no_cache" => updates[u].no_cache

(* Whoever waits will be answered.                                         *)
WaitersServed == WaiterHasChannel /\ ChannelHasUpdate

(* The state that client c is given in this step, if it is given one.      *)
Given(c) ==
  IF clients[c].status = "waiting" /\ clients'[c].status = "ok"
  THEN {projects'[clients[c].key].state} ELSE {}

(* A client whose no_cache request was not throttled is never given a      *)
(* state that the upstream was allowed to take from its own cache.         *)
NoCacheHonoured ==
  [][\A c \in Clients : clients[c].no_cache =>
       \A state \in Given(c) : state.source # "upstream"]_vars

(* Every request for a project state gets an answer.                       *)
EveryClientAnswered ==
  \A c \in Clients : (clients[c].status = "waiting") ~> (clients[c].status # "waiting")

=============================================================================
