------------------------- MODULE ProjectCacheProofs -------------------------
(***************************************************************************)
(* Proofs about ProjectCache for every set of keys, clients and updates,   *)
(* every relay mode and with or without Redis.                             *)
(***************************************************************************)
EXTENDS ProjectCache, TLAPS

ClientType == [status   : {"idle", "waiting", "ok", "failed"},
               key      : Keys \cup {None},
               no_cache : BOOLEAN]

UpdateType == [stage    : Stages,
               key      : Keys \cup {None},
               no_cache : BOOLEAN]

(* The parts of TypeOK, for one element each.                              *)
TypesOfParts ==
  /\ projects \in [Keys -> Projects \cup {None}]
  /\ clients \in [Clients -> ClientType]
  /\ updates \in [Updates -> UpdateType]
  /\ \A c \in Clients : clients[c].status # "idle" => clients[c].key \in Keys
  /\ \A u \in Updates : updates[u].stage # "idle" => updates[u].key \in Keys

LEMMA TypeOKParts == TypeOK <=> mode \in RelayModes /\ TypesOfParts /\ Source!FetchTypeOK
BY DEF TypeOK, TypesOfParts, ClientType, UpdateType

LEMMA NewProjectType == NewProject \in Projects
BY DEF NewProject, Projects, Outdated, Aggregators

LEMMA GetOrCreateType ==
  ASSUME TypesOfParts, NEW k \in Keys
  PROVE  GetOrCreate(k) \in Projects
BY NewProjectType, NoneAssumption DEF GetOrCreate, TypesOfParts

(* An entry that does not exist yet has no channel.                        *)
LEMMA GetOrCreateChannel ==
  ASSUME NEW k \in Keys, GetOrCreate(k).channel # "none"
  PROVE  projects[k] # None /\ GetOrCreate(k) = projects[k]
BY DEF GetOrCreate, NewProject

LEMMA UpdateAggregatorType ==
  ASSUME NEW p \in Projects
  PROVE  UpdateAggregator(p) \in Projects /\ UpdateAggregator(p).channel = p.channel
         /\ UpdateAggregator(p).state = p.state
BY DEF UpdateAggregator, CreateAggregator, Projects, Aggregators

(* The invariant about who waits for whom.                                 *)
Waiting == WaiterHasChannel /\ ChannelHasUpdate

(* No client starts to wait, and no update comes to its end.               *)
NoNewWaiter ==
  \A c \in Clients : clients'[c].status = "waiting" => clients'[c] = clients[c]

UpdatesGoOn ==
  \A u \in Updates : updates[u].stage # "idle" =>
    /\ updates'[u].stage # "idle"
    /\ updates'[u].key = updates[u].key
    /\ updates'[u].no_cache = updates[u].no_cache

LEMMA SameProjects ==
  ASSUME TypesOfParts, Waiting, projects' = projects, NoNewWaiter, UpdatesGoOn
  PROVE  Waiting'
<1>1. WaiterHasChannel'
  BY DEF Waiting, WaiterHasChannel, NoNewWaiter
<1>2. ChannelHasUpdate'
  BY DEF Waiting, ChannelHasUpdate, UnderWay, UpdatesGoOn
<1>3. QED
  BY <1>1, <1>2 DEF Waiting

(* A step that leaves the channel of the entry it changes as it is.        *)
LEMMA SameChannel ==
  ASSUME TypesOfParts, Waiting, NoNewWaiter, UpdatesGoOn,
         NEW k \in Keys, NEW p \in Projects, p.channel = GetOrCreate(k).channel,
         projects' = [projects EXCEPT ![k] = p]
  PROVE  projects' \in [Keys -> Projects \cup {None}] /\ Waiting'
<1>1. projects' \in [Keys -> Projects \cup {None}]
  BY DEF TypesOfParts
<1>2. projects'[k] = p /\ \A j \in Keys \ {k} : projects'[j] = projects[j]
  BY DEF TypesOfParts
<1>3. p # None
  BY NoneAssumption
<1>4. projects[k] # None => p.channel = projects[k].channel
  BY DEF GetOrCreate
<1>5. p.channel # "none" => projects[k] # None /\ p.channel = projects[k].channel
  BY GetOrCreateChannel
<1>6. WaiterHasChannel'
  <2> SUFFICES ASSUME NEW c \in Clients, clients'[c].status = "waiting"
               PROVE  /\ projects'[clients'[c].key] # None
                      /\ projects'[clients'[c].key].channel # "none"
                      /\ clients'[c].no_cache => projects'[clients'[c].key].channel = "no_cache"
    BY DEF WaiterHasChannel
  <2>1. clients'[c] = clients[c] /\ clients[c].key \in Keys
    BY DEF NoNewWaiter, TypesOfParts
  <2> QED
    BY <1>2, <1>3, <1>4, <2>1 DEF Waiting, WaiterHasChannel
<1>7. ChannelHasUpdate'
  <2> SUFFICES ASSUME NEW j \in Keys, projects'[j] # None, projects'[j].channel # "none"
               PROVE  \E u \in Updates :
                        /\ updates'[u].stage # "idle" /\ updates'[u].key = j
                        /\ projects'[j].channel = "no_cache" => updates'[u].no_cache
    BY DEF ChannelHasUpdate, UnderWay
  <2>1. projects[j] # None /\ projects'[j].channel = projects[j].channel
    BY <1>2, <1>5
  <2>2. PICK u \in UnderWay(j) : projects[j].channel = "no_cache" => updates[u].no_cache
    BY <2>1 DEF Waiting, ChannelHasUpdate
  <2> QED
    BY <2>1, <2>2 DEF UnderWay, UpdatesGoOn
<1>8. QED
  BY <1>1, <1>6, <1>7 DEF Waiting

(* get_or_fetch_state: the request finds an open channel that serves it,   *)
(* or opens one (or sets its flag) and sends an update for it.             *)
LEMMA GetOrFetchStateWaiting ==
  ASSUME TypesOfParts, Waiting, NEW k \in Keys, NEW nc \in BOOLEAN, NEW u \in Updates,
         GetOrFetchState(k, nc, u),
         \A c \in Clients : clients'[c].status = "waiting" =>
           \/ clients'[c] = clients[c]
           \/ /\ clients'[c].key = k /\ clients'[c].no_cache = nc
              /\ nc \/ OutdatedOf(GetOrCreate(k)) = "HardOutdated"
  PROVE  /\ projects' \in [Keys -> Projects \cup {None}]
         /\ updates' \in [Updates -> UpdateType]
         /\ \A v \in Updates : updates'[v].stage # "idle" => updates'[v].key \in Keys
         /\ Waiting'
<1> DEFINE p == GetOrCreate(k)
           channel == IF ~NeedsFetch(p, nc) THEN p.channel
                      ELSE IF nc THEN "no_cache" ELSE "cached"
           q == [p EXCEPT !.throttled = @ \/ nc, !.channel = channel]
<1>1. p \in Projects
  BY GetOrCreateType
<1>2. channel \in {"none", "cached", "no_cache"}
  BY <1>1 DEF Projects
<1>3. (p.throttled \/ nc) \in BOOLEAN
  OBVIOUS
<1>4. projects' = [projects EXCEPT ![k] = q]
  BY DEF GetOrFetchState, ChannelAfter
<1>5. q \in Projects /\ q.channel = channel
  <2> HIDE DEF p, channel
  <2> QED
    BY <1>1, <1>2, <1>3 DEF Projects
<1>6. projects'[k] = q /\ \A j \in Keys \ {k} : projects'[j] = projects[j]
  BY <1>4 DEF TypesOfParts
<1>7. projects' \in [Keys -> Projects \cup {None}]
  BY <1>4, <1>5 DEF TypesOfParts
<1>8. NeedsFetch(p, nc) =>
        /\ updates[u].stage = "idle"
        /\ updates'[u].stage = "queued" /\ updates'[u].key = k /\ updates'[u].no_cache = nc
        /\ updates' \in [Updates -> UpdateType]
        /\ \A v \in Updates \ {u} : updates'[v] = updates[v]
  BY DEF GetOrFetchState, TypesOfParts, UpdateType, Stages
<1>9. ~NeedsFetch(p, nc) => updates' = updates
  BY DEF GetOrFetchState
<1>10. UpdatesGoOn
  BY <1>8, <1>9 DEF UpdatesGoOn
<1>11. /\ updates' \in [Updates -> UpdateType]
       /\ \A v \in Updates : updates'[v].stage # "idle" => updates'[v].key \in Keys
  BY <1>8, <1>9 DEF TypesOfParts
<1>12. q # None
  BY <1>5, NoneAssumption
<1>13. /\ p.channel # "none" => channel # "none"
       /\ p.channel = "no_cache" => channel = "no_cache"
  BY DEF NeedsFetch
<1>14. /\ nc => channel = "no_cache"
       /\ nc \/ OutdatedOf(p) = "HardOutdated" => channel # "none"
  BY <1>1 DEF NeedsFetch, Projects
<1>15. projects[k] # None => p = projects[k]
  BY DEF GetOrCreate
<1>16. p.channel # "none" => projects[k] # None /\ p = projects[k]
  BY GetOrCreateChannel
<1> HIDE DEF p, channel, q
<1>17. WaiterHasChannel'
  <2> SUFFICES ASSUME NEW c \in Clients, clients'[c].status = "waiting"
               PROVE  /\ projects'[clients'[c].key] # None
                      /\ projects'[clients'[c].key].channel # "none"
                      /\ clients'[c].no_cache => projects'[clients'[c].key].channel = "no_cache"
    BY DEF WaiterHasChannel
  <2>1. CASE clients'[c] = clients[c]
    <3>1. /\ clients[c].key \in Keys
          /\ projects[clients[c].key] # None
          /\ projects[clients[c].key].channel # "none"
          /\ clients[c].no_cache => projects[clients[c].key].channel = "no_cache"
      BY <2>1 DEF TypesOfParts, Waiting, WaiterHasChannel
    <3>2. CASE clients[c].key = k
      BY <1>5, <1>6, <1>12, <1>13, <1>15, <2>1, <3>1, <3>2
    <3>3. CASE clients[c].key # k
      BY <1>6, <2>1, <3>1, <3>3
    <3> QED
      BY <3>2, <3>3
  <2>2. CASE clients'[c] # clients[c]
    BY <1>5, <1>6, <1>12, <1>14, <2>2 DEF p
  <2> QED
    BY <2>1, <2>2
<1>18. ChannelHasUpdate'
  <2> SUFFICES ASSUME NEW j \in Keys, projects'[j] # None, projects'[j].channel # "none"
               PROVE  \E v \in Updates :
                        /\ updates'[v].stage # "idle" /\ updates'[v].key = j
                        /\ projects'[j].channel = "no_cache" => updates'[v].no_cache
    BY DEF ChannelHasUpdate, UnderWay
  <2>1. CASE j = k /\ NeedsFetch(p, nc)
    <3>1. projects'[j].channel = IF nc THEN "no_cache" ELSE "cached"
      BY <1>5, <1>6, <2>1 DEF channel
    <3> QED
      BY <1>8, <2>1, <3>1
  <2>2. CASE ~(j = k /\ NeedsFetch(p, nc))
    <3>1. projects[j] # None /\ projects'[j].channel = projects[j].channel
      BY <1>5, <1>6, <1>16, <2>2 DEF channel
    <3>2. PICK v \in UnderWay(j) : projects[j].channel = "no_cache" => updates[v].no_cache
      BY <3>1 DEF Waiting, ChannelHasUpdate
    <3> QED
      BY <1>10, <3>1, <3>2 DEF UnderWay, UpdatesGoOn
  <2> QED
    BY <2>1, <2>2
<1>19. QED
  BY <1>7, <1>11, <1>17, <1>18 DEF Waiting

(* The end of a channel takes its waiters along and leaves the others.     *)
LEMMA ChannelsEndType ==
  ASSUME TypesOfParts, NEW ks, NEW status \in {"ok", "failed"}, clients' = ChannelsEnd(ks, status)
  PROVE  /\ clients' \in [Clients -> ClientType]
         /\ \A c \in Clients : clients'[c].status # "idle" => clients'[c].key \in Keys
         /\ \A c \in Clients : clients'[c].status = "waiting" =>
              clients'[c] = clients[c] /\ clients[c].key \notin ks
<1>1. \A c \in Clients :
        clients'[c] = IF clients[c].status = "waiting" /\ clients[c].key \in ks
                      THEN [clients[c] EXCEPT !.status = status, !.no_cache = FALSE]
                      ELSE clients[c]
  BY DEF ChannelsEnd
<1>2. ASSUME NEW c \in Clients
      PROVE  /\ [clients[c] EXCEPT !.status = status, !.no_cache = FALSE] \in ClientType
             /\ [clients[c] EXCEPT !.status = status, !.no_cache = FALSE].status = status
             /\ [clients[c] EXCEPT !.status = status, !.no_cache = FALSE].key = clients[c].key
             /\ clients[c] \in ClientType
  BY DEF TypesOfParts, ClientType
<1>3. clients' \in [Clients -> ClientType]
  BY <1>2 DEF ChannelsEnd
<1>4. QED
  BY <1>1, <1>2, <1>3 DEF TypesOfParts

(* update_state: a result that is let through ends the channel and all its *)
(* waiters; one that is not leaves an update behind that will be.          *)
LEMMA UpdateStateWaiting ==
  ASSUME TypesOfParts, Waiting, NEW u \in Updates, updates[u].stage # "idle",
         NEW result \in States \cup {None}, NEW age \in Outdated, UpdateState(u, result, age)
  PROVE  TypesOfParts' /\ Waiting'
<1> DEFINE k == updates[u].key
           p == GetOrCreate(k)
           base == [p EXCEPT !.channel = "none", !.state = result, !.age = age]
           loaded == UpdateAggregator(base)
           accepts == Accepts(p, updates[u].no_cache)
<1>1. k \in Keys /\ p \in Projects
  BY GetOrCreateType DEF TypesOfParts
<1>2. base \in Projects /\ base.channel = "none"
  <2> HIDE DEF p
  <2> QED
    BY <1>1 DEF Projects
<1>3. loaded \in Projects /\ loaded.channel = "none"
  <2> HIDE DEF base
  <2> QED
    BY <1>2, UpdateAggregatorType
<1>4. /\ updates' = [updates EXCEPT ![u] = IdleUpdate]
      /\ projects' = [projects EXCEPT ![k] = IF accepts THEN loaded ELSE p]
      /\ clients' = IF ~accepts THEN clients
                    ELSE ChannelsEnd({k}, IF result = None THEN "failed" ELSE "ok")
  BY DEF UpdateState
<1>5. /\ updates' \in [Updates -> UpdateType]
      /\ updates'[u].stage = "idle" /\ \A v \in Updates \ {u} : updates'[v] = updates[v]
  BY <1>4 DEF TypesOfParts, IdleUpdate, UpdateType, Stages
<1>6. \A v \in Updates : updates'[v].stage # "idle" => updates'[v].key \in Keys
  BY <1>5 DEF TypesOfParts
<1>7. accepts <=> \/ p.channel = "cached"
                  \/ p.channel = "no_cache" /\ updates[u].no_cache
  BY DEF Accepts
<1>8. p.channel # "none" => projects[k] # None /\ p = projects[k]
  BY <1>1, GetOrCreateChannel
<1>9. p.channel \in {"none", "cached", "no_cache"}
  BY <1>1 DEF Projects
<1>10. projects[k] # None => p = projects[k]
  BY DEF GetOrCreate
<1> HIDE DEF k, p, base, loaded, accepts
<1>11. /\ projects'[k] = IF accepts THEN loaded ELSE p
       /\ \A j \in Keys \ {k} : projects'[j] = projects[j]
       /\ projects' \in [Keys -> Projects \cup {None}]
  BY <1>1, <1>3, <1>4 DEF TypesOfParts
<1>12. projects'[k] # None
  BY <1>1, <1>3, <1>11, NoneAssumption
<1>13. CASE accepts
  <2>1. /\ clients' \in [Clients -> ClientType]
        /\ \A c \in Clients : clients'[c].status # "idle" => clients'[c].key \in Keys
        /\ \A c \in Clients : clients'[c].status = "waiting" =>
             clients'[c] = clients[c] /\ clients[c].key \notin {k}
    BY <1>4, <1>13, ChannelsEndType
  <2>2. WaiterHasChannel'
    BY <1>11, <2>1 DEF Waiting, WaiterHasChannel
  <2>3. ChannelHasUpdate'
    <3> SUFFICES ASSUME NEW j \in Keys, projects'[j] # None, projects'[j].channel # "none"
                 PROVE  \E v \in Updates :
                          /\ updates'[v].stage # "idle" /\ updates'[v].key = j
                          /\ projects'[j].channel = "no_cache" => updates'[v].no_cache
      BY DEF ChannelHasUpdate, UnderWay
    <3>1. j # k /\ projects'[j] = projects[j]
      BY <1>3, <1>11, <1>13
    <3>2. PICK v \in UnderWay(j) : projects[j].channel = "no_cache" => updates[v].no_cache
      BY <3>1 DEF Waiting, ChannelHasUpdate
    <3>3. v \in Updates /\ v # u
      BY <3>1, <3>2 DEF UnderWay, k
    <3> QED
      BY <1>5, <3>1, <3>2, <3>3 DEF UnderWay
  <2> QED
    BY <1>5, <1>6, <1>11, <2>1, <2>2, <2>3 DEF TypesOfParts, Waiting
<1>14. CASE ~accepts
  <2>1. clients' = clients
    BY <1>4, <1>14
  <2>2. projects'[k] = p
    BY <1>11, <1>14
  <2>3. WaiterHasChannel'
    BY <1>10, <1>11, <1>12, <2>1, <2>2 DEF Waiting, WaiterHasChannel, TypesOfParts
  <2>4. ChannelHasUpdate'
    <3> SUFFICES ASSUME NEW j \in Keys, projects'[j] # None, projects'[j].channel # "none"
                 PROVE  \E v \in Updates :
                          /\ updates'[v].stage # "idle" /\ updates'[v].key = j
                          /\ projects'[j].channel = "no_cache" => updates'[v].no_cache
      BY DEF ChannelHasUpdate, UnderWay
    <3>1. projects'[j] = projects[j] /\ projects[j] # None
      BY <1>8, <1>11, <2>2
    <3>2. PICK v \in UnderWay(j) : projects[j].channel = "no_cache" => updates[v].no_cache
      BY <3>1 DEF Waiting, ChannelHasUpdate
    <3>3. v # u
      <4>1. CASE j = k
        <5>1. p.channel = "no_cache" /\ ~updates[u].no_cache
          BY <1>7, <1>9, <1>14, <2>2, <4>1
        <5> QED
          BY <2>2, <3>1, <3>2, <4>1, <5>1
      <4>2. CASE j # k
        BY <3>2, <4>2 DEF UnderWay, k
      <4> QED
        BY <4>1, <4>2
    <3> QED
      BY <1>5, <3>1, <3>2, <3>3 DEF UnderWay
  <2> QED
    BY <1>5, <1>6, <1>11, <2>1, <2>3, <2>4 DEF TypesOfParts, Waiting
<1>15. QED
  BY <1>13, <1>14

(* Eviction takes the waiters of the evicted entries along.                *)
LEMMA EvictWaiting ==
  ASSUME TypesOfParts, Waiting, Evict
  PROVE  TypesOfParts' /\ Waiting'
<1>1. /\ projects' = [k \in Keys |-> IF k \in StaleKeys THEN None ELSE projects[k]]
      /\ updates' = updates
      /\ clients' = ChannelsEnd(StaleKeys, "failed")
  BY DEF Evict, EvictedChannels
<1>2. /\ clients' \in [Clients -> ClientType]
      /\ \A c \in Clients : clients'[c].status # "idle" => clients'[c].key \in Keys
      /\ \A c \in Clients : clients'[c].status = "waiting" =>
           clients'[c] = clients[c] /\ clients[c].key \notin StaleKeys
  BY <1>1, ChannelsEndType
<1>3. WaiterHasChannel'
  BY <1>1, <1>2 DEF Waiting, WaiterHasChannel, TypesOfParts
<1>4. ChannelHasUpdate'
  BY <1>1 DEF Waiting, ChannelHasUpdate, UnderWay
<1>5. projects' \in [Keys -> Projects \cup {None}]
  BY <1>1 DEF TypesOfParts
<1>6. QED
  BY <1>1, <1>2, <1>3, <1>4, <1>5 DEF TypesOfParts, Waiting

-----------------------------------------------------------------------------
(* The messages to the upstream source belong to updates that wait for it. *)

Asked ==
  \A u \in Updates :
    /\ reqs[u].status # "idle" <=> updates[u].stage = "upstream"
    /\ reqs[u].status # "idle" => reqs[u].no_cache = updates[u].no_cache
    /\ reqs[u].status = "ok" /\ reqs[u].no_cache => reqs[u].fresh

Inv == TypesOfParts /\ Waiting /\ Source!FetchTypeOK /\ Asked

USE DEF Source!Statuses, Source!Idle

(* A step of the part of the cache that is not upstream of it.             *)
LEMMA ReqsUnchanged ==
  ASSUME Inv, TypesOfParts', Waiting', reqs' = reqs,
         \A u \in Updates :
           \/ updates'[u] = updates[u]
           \/ updates[u].stage # "upstream" /\ updates'[u].stage # "upstream"
  PROVE  Inv'
<1>1. Asked'
  BY DEF Inv, Asked, Source!FetchTypeOK
<1>2. QED
  BY <1>1 DEF Inv, Source!FetchTypeOK

LEMMA UpdateStateInv ==
  ASSUME Inv, NEW u \in Updates, updates[u].stage \in {"local", "redis"}, reqs' = reqs,
         NEW result \in States \cup {None}, NEW age \in Outdated, UpdateState(u, result, age)
  PROVE  Inv'
<1>1. TypesOfParts' /\ Waiting'
  BY UpdateStateWaiting DEF Inv
<1>2. updates'[u].stage = "idle" /\ \A v \in Updates \ {u} : updates'[v] = updates[v]
  BY DEF UpdateState, IdleUpdate, Inv, TypesOfParts
<1>3. QED
  BY <1>1, <1>2, ReqsUnchanged

LEMMA UpstreamUpdateStateInv ==
  ASSUME Inv, NEW u \in Updates, Source!TakeAnswer(u),
         NEW result \in States \cup {None}, NEW age \in Outdated, UpdateState(u, result, age)
  PROVE  Inv'
<1>1. updates[u].stage = "upstream"
  BY DEF Inv, Asked, Source!TakeAnswer
<1>2. TypesOfParts' /\ Waiting'
  BY <1>1, UpdateStateWaiting DEF Inv
<1>3. updates'[u].stage = "idle" /\ \A v \in Updates \ {u} : updates'[v] = updates[v]
  BY DEF UpdateState, IdleUpdate, Inv, TypesOfParts
<1>4. reqs'[u].status = "idle" /\ \A v \in Updates \ {u} : reqs'[v] = reqs[v]
  BY DEF Source!TakeAnswer, Inv, Source!FetchTypeOK
<1>5. Source!FetchTypeOK'
  BY DEF Source!TakeAnswer, Inv, Source!FetchTypeOK
<1>6. Asked'
  BY <1>3, <1>4 DEF Inv, Asked
<1>7. QED
  BY <1>2, <1>5, <1>6 DEF Inv

LEMMA AskUpstreamInv ==
  ASSUME Inv, NEW u \in Updates, updates[u].stage \in {"local", "redis"}, AskUpstream(u)
  PROVE  Inv'
<1>1. /\ updates' = [updates EXCEPT ![u].stage = "upstream"]
      /\ projects' = projects /\ clients' = clients
      /\ reqs' = [reqs EXCEPT ![u] = [status |-> "waiting", no_cache |-> updates[u].no_cache,
                                      fresh |-> FALSE]]
  BY DEF AskUpstream, Source!FetchProjectState
<1>2. /\ updates'[u].stage = "upstream" /\ updates'[u].key = updates[u].key
      /\ updates'[u].no_cache = updates[u].no_cache
      /\ \A v \in Updates \ {u} : updates'[v] = updates[v]
      /\ updates' \in [Updates -> UpdateType]
  BY <1>1 DEF Inv, TypesOfParts, UpdateType, Stages
<1>3. updates[u].no_cache \in BOOLEAN
  BY DEF Inv, TypesOfParts, UpdateType
<1>4. /\ reqs'[u].status = "waiting" /\ reqs'[u].no_cache = updates[u].no_cache
      /\ \A v \in Updates \ {u} : reqs'[v] = reqs[v]
      /\ Source!FetchTypeOK'
  BY <1>1, <1>3 DEF Inv, Source!FetchTypeOK
<1>5. TypesOfParts'
  BY <1>1, <1>2 DEF Inv, TypesOfParts
<1>6. Waiting'
  <2>1. NoNewWaiter /\ UpdatesGoOn
    BY <1>1, <1>2 DEF NoNewWaiter, UpdatesGoOn
  <2> QED
    BY <1>1, <2>1, SameProjects DEF Inv
<1>7. Asked'
  BY <1>2, <1>4 DEF Inv, Asked
<1>8. QED
  BY <1>4, <1>5, <1>6, <1>7 DEF Inv

(* The answers of the upstream source keep its promise about no_cache.     *)
LEMMA UpstreamAnswersInv ==
  ASSUME Inv, UpstreamAnswers
  PROVE  Inv'
<1>0. PICK ok \in SUBSET Source!Waiting, failed \in SUBSET Source!Waiting :
        \E fresh \in SUBSET ok :
          /\ {r \in ok : reqs[r].no_cache} \subseteq fresh
          /\ reqs' = Source!Answered(ok, fresh, failed)
  BY DEF UpstreamAnswers, Source!Answer
<1>1. PICK fresh \in SUBSET ok :
        /\ {r \in ok : reqs[r].no_cache} \subseteq fresh
        /\ reqs' = Source!Answered(ok, fresh, failed)
  BY <1>0
<1>2. projects' = projects /\ clients' = clients /\ updates' = updates
  BY DEF UpstreamAnswers
<1> DEFINE Req == [status : Source!Statuses, no_cache : BOOLEAN, fresh : BOOLEAN]
<1>3. ASSUME NEW r \in Updates, NEW b \in BOOLEAN
      PROVE  /\ [reqs[r] EXCEPT !.status = "ok", !.fresh = b] \in Req
             /\ [reqs[r] EXCEPT !.status = "ok", !.fresh = b].status = "ok"
             /\ [reqs[r] EXCEPT !.status = "ok", !.fresh = b].fresh = b
             /\ [reqs[r] EXCEPT !.status = "ok", !.fresh = b].no_cache = reqs[r].no_cache
             /\ [reqs[r] EXCEPT !.status = "failed"] \in Req
             /\ [reqs[r] EXCEPT !.status = "failed"].status = "failed"
             /\ [reqs[r] EXCEPT !.status = "failed"].no_cache = reqs[r].no_cache
             /\ reqs[r] \in Req
  BY DEF Inv, Source!FetchTypeOK
<1>4. \A r \in Updates : (r \in fresh) \in BOOLEAN
  OBVIOUS
<1>5. \A r \in Updates :
        reqs'[r] = IF r \in ok THEN [reqs[r] EXCEPT !.status = "ok", !.fresh = (r \in fresh)]
                   ELSE IF r \in failed THEN [reqs[r] EXCEPT !.status = "failed"]
                   ELSE reqs[r]
  BY <1>1 DEF Source!Answered
<1> HIDE DEF Req
<1>6. Source!Answered(ok, fresh, failed) \in [Updates -> Req]
  BY <1>3, <1>4 DEF Source!Answered
<1>7. Source!FetchTypeOK'
  BY <1>1, <1>6 DEF Source!FetchTypeOK, Req
<1>8. Asked'
  <2> SUFFICES ASSUME NEW u \in Updates
               PROVE  /\ reqs'[u].status # "idle" <=> updates[u].stage = "upstream"
                      /\ reqs'[u].status # "idle" => reqs'[u].no_cache = updates[u].no_cache
                      /\ reqs'[u].status = "ok" /\ reqs'[u].no_cache => reqs'[u].fresh
    BY <1>2 DEF Asked
  <2>1. CASE u \in ok
    <3>1. reqs[u].status = "waiting"
      BY <2>1, <1>1 DEF Source!Waiting
    <3>0. PICK b \in BOOLEAN : b = (u \in fresh)
      BY <1>4
    <3>2. reqs'[u] = [reqs[u] EXCEPT !.status = "ok", !.fresh = b]
      BY <1>5, <2>1, <3>0
    <3>3. reqs'[u].status = "ok" /\ reqs'[u].fresh = b /\ reqs'[u].no_cache = reqs[u].no_cache
      <4>1. reqs[u] \in [status : Source!Statuses, no_cache : BOOLEAN, fresh : BOOLEAN]
        BY DEF Inv, Source!FetchTypeOK
      <4> QED
        BY <3>2, <4>1
    <3>4. reqs[u].no_cache => b
      BY <1>1, <2>1, <3>0
    <3> QED
      BY <3>1, <3>3, <3>4 DEF Inv, Asked
  <2>2. CASE u \notin ok /\ u \in failed
    <3>1. reqs[u].status = "waiting"
      BY <2>2, <1>1 DEF Source!Waiting
    <3> QED
      BY <1>3, <1>5, <2>2, <3>1 DEF Inv, Asked
  <2>3. CASE u \notin ok /\ u \notin failed
    BY <1>5, <2>3 DEF Inv, Asked
  <2> QED
    BY <2>1, <2>2, <2>3
<1>9. TypesOfParts' /\ Waiting'
  <2>1. TypesOfParts'
    BY <1>2 DEF Inv, TypesOfParts
  <2>2. NoNewWaiter /\ UpdatesGoOn
    BY <1>2 DEF NoNewWaiter, UpdatesGoOn
  <2> QED
    BY <1>2, <2>1, <2>2, SameProjects DEF Inv
<1>10. QED
  BY <1>7, <1>8, <1>9 DEF Inv

(* get_or_fetch_state talks to no source.                                  *)
LEMMA GetOrFetchStateReqs ==
  ASSUME Inv, NEW k \in Keys, NEW nc \in BOOLEAN, NEW u \in Updates, GetOrFetchState(k, nc, u)
  PROVE  /\ reqs' = reqs
         /\ \A v \in Updates : \/ updates'[v] = updates[v]
                               \/ updates[v].stage # "upstream" /\ updates'[v].stage # "upstream"
<1>1. reqs' = reqs
  BY DEF GetOrFetchState
<1>2. CASE ~NeedsFetch(GetOrCreate(k), nc)
  <2>1. updates' = updates
    BY <1>2 DEF GetOrFetchState
  <2> QED
    BY <1>1, <2>1
<1>3. CASE NeedsFetch(GetOrCreate(k), nc)
  <2>1. /\ updates[u].stage = "idle"
        /\ updates' = [updates EXCEPT ![u] = [stage |-> "queued", key |-> k, no_cache |-> nc]]
    BY <1>3 DEF GetOrFetchState
  <2>2. updates'[u].stage = "queued" /\ \A v \in Updates \ {u} : updates'[v] = updates[v]
    BY <2>1 DEF Inv, TypesOfParts
  <2> QED
    BY <1>1, <2>1, <2>2
<1>4. QED
  BY <1>2, <1>3

(* A request that waits or is answered at once.                            *)
LEMMA GetProjectStateInv ==
  ASSUME Inv, NEW c \in Clients, NEW k \in Keys, NEW no_cache \in BOOLEAN, NEW u \in Updates,
         GetProjectState(c, k, no_cache, u)
  PROVE  Inv'
<1> DEFINE p == GetOrCreate(k)
           nc == Effective(p, no_cache)
           client == [status |-> IF Cached(p, nc) THEN "ok" ELSE "waiting", key |-> k, no_cache |-> nc]
<1>1. nc \in BOOLEAN
  BY DEF Effective
<1>2. clients' = [clients EXCEPT ![c] = client] /\ GetOrFetchState(k, nc, u)
  BY DEF GetProjectState
<1>3. client.status = "waiting" => nc \/ OutdatedOf(p) = "HardOutdated"
  BY DEF Cached
<1>4. client \in ClientType /\ client.key = k /\ client.no_cache = nc
  <2> HIDE DEF nc, p
  <2> QED
    BY <1>1 DEF ClientType
<1> HIDE DEF client, nc
<1>5. /\ clients' \in [Clients -> ClientType]
      /\ clients'[c] = client /\ \A d \in Clients \ {c} : clients'[d] = clients[d]
  BY <1>2, <1>4 DEF Inv, TypesOfParts
<1>6. \A d \in Clients : clients'[d].status = "waiting" =>
        \/ clients'[d] = clients[d]
        \/ /\ clients'[d].key = k /\ clients'[d].no_cache = nc
           /\ nc \/ OutdatedOf(GetOrCreate(k)) = "HardOutdated"
  BY <1>3, <1>4, <1>5
<1>7. /\ projects' \in [Keys -> Projects \cup {None}]
      /\ updates' \in [Updates -> UpdateType]
      /\ \A v \in Updates : updates'[v].stage # "idle" => updates'[v].key \in Keys
      /\ Waiting'
  BY <1>1, <1>2, <1>6, GetOrFetchStateWaiting DEF Inv
<1>8. \A d \in Clients : clients'[d].status # "idle" => clients'[d].key \in Keys
  BY <1>4, <1>5 DEF Inv, TypesOfParts
<1>9. TypesOfParts'
  BY <1>5, <1>7, <1>8 DEF TypesOfParts
<1>10. /\ reqs' = reqs
       /\ \A v \in Updates : \/ updates'[v] = updates[v]
                             \/ updates[v].stage # "upstream" /\ updates'[v].stage # "upstream"
  BY <1>1, <1>2, GetOrFetchStateReqs
<1>11. QED
  BY <1>7, <1>9, <1>10, ReqsUnchanged

LEMMA PreloadInv ==
  ASSUME Inv, NEW k \in Keys, NEW u \in Updates, Preload(k, u)
  PROVE  Inv'
<1>1. GetOrFetchState(k, FALSE, u) /\ clients' = clients
  BY DEF Preload
<1>2. /\ projects' \in [Keys -> Projects \cup {None}]
      /\ updates' \in [Updates -> UpdateType]
      /\ \A v \in Updates : updates'[v].stage # "idle" => updates'[v].key \in Keys
      /\ Waiting'
  BY <1>1, GetOrFetchStateWaiting DEF Inv
<1>3. TypesOfParts'
  BY <1>1, <1>2 DEF Inv, TypesOfParts
<1>4. /\ reqs' = reqs
      /\ \A v \in Updates : \/ updates'[v] = updates[v]
                            \/ updates[v].stage # "upstream" /\ updates'[v].stage # "upstream"
  BY <1>1, GetOrFetchStateReqs
<1>5. QED
  BY <1>2, <1>3, <1>4, ReqsUnchanged

(* Steps that change one entry but not its channel, and nothing else that  *)
(* matters to those who wait.                                              *)
LEMMA EntryInv ==
  ASSUME Inv, NEW k \in Keys, NEW p \in Projects, p.channel = GetOrCreate(k).channel,
         projects' = [projects EXCEPT ![k] = p], updates' = updates, reqs' = reqs,
         clients' \in [Clients -> ClientType],
         \A c \in Clients : clients'[c] = clients[c] \/ clients'[c] = IdleClient
  PROVE  Inv'
<1>1. NoNewWaiter /\ UpdatesGoOn
  BY DEF NoNewWaiter, UpdatesGoOn, IdleClient
<1>2. projects' \in [Keys -> Projects \cup {None}] /\ Waiting'
  BY <1>1, SameChannel DEF Inv
<1>3. TypesOfParts'
  BY <1>2 DEF Inv, TypesOfParts, IdleClient
<1>4. QED
  BY <1>2, <1>3, ReqsUnchanged

LEMMA ClockInv ==
  ASSUME Inv, NEW k \in Keys, NEW age \in Outdated,
         Touch(k) \/ InsertMetrics(k) \/ Ages(k, age) \/ SecondPasses(k) \/ BecomesStale(k)
  PROVE  Inv'
<1> DEFINE p == GetOrCreate(k)
<1>1. p \in Projects /\ clients \in [Clients -> ClientType]
  BY GetOrCreateType DEF Inv, TypesOfParts
<1>2. projects[k] # None => p = projects[k]
  BY DEF GetOrCreate
<1>3. /\ CreateAggregator(p) \in Projects /\ CreateAggregator(p).channel = p.channel
      /\ [p EXCEPT !.age = age] \in Projects /\ [p EXCEPT !.age = age].channel = p.channel
      /\ [p EXCEPT !.throttled = FALSE] \in Projects /\ [p EXCEPT !.throttled = FALSE].channel = p.channel
      /\ [p EXCEPT !.stale = TRUE] \in Projects /\ [p EXCEPT !.stale = TRUE].channel = p.channel
  <2> HIDE DEF p
  <2> QED
    BY <1>1 DEF Projects, CreateAggregator, Aggregators
<1>4. updates' = updates /\ reqs' = reqs /\ clients' = clients
  BY DEF Touch, InsertMetrics, Ages, SecondPasses, BecomesStale
<1>5. PICK q \in Projects : q.channel = p.channel /\ projects' = [projects EXCEPT ![k] = q]
  <2>1. CASE Touch(k)
    BY <1>1, <2>1 DEF Touch
  <2>2. CASE InsertMetrics(k)
    BY <1>3, <2>2 DEF InsertMetrics
  <2>3. CASE Ages(k, age)
    BY <1>2, <1>3, <2>3 DEF Ages
  <2>4. CASE SecondPasses(k)
    BY <1>2, <1>3, <2>4 DEF SecondPasses
  <2>5. CASE BecomesStale(k)
    BY <1>2, <1>3, <2>5 DEF BecomesStale
  <2> QED
    BY <2>1, <2>2, <2>3, <2>4, <2>5
<1>6. QED
  BY <1>1, <1>4, <1>5, EntryInv

LEMMA ClientInv ==
  ASSUME Inv, NEW c \in Clients, ClientDone(c) \/ CheckEnvelope(c)
  PROVE  Inv'
<1>1. /\ updates' = updates /\ reqs' = reqs
      /\ clients' = [clients EXCEPT ![c] = IdleClient]
  BY DEF ClientDone, CheckEnvelope
<1>2. /\ clients' \in [Clients -> ClientType]
      /\ \A d \in Clients : clients'[d] = clients[d] \/ clients'[d] = IdleClient
  BY <1>1 DEF Inv, TypesOfParts, ClientType, IdleClient
<1>3. CASE CheckEnvelope(c)
  <2>1. clients[c].key \in Keys
    BY <1>3 DEF CheckEnvelope, Inv, TypesOfParts
  <2>2. projects' = [projects EXCEPT ![clients[c].key] = GetOrCreate(clients[c].key)]
    BY <1>3 DEF CheckEnvelope
  <2>3. GetOrCreate(clients[c].key) \in Projects
    BY <2>1, GetOrCreateType DEF Inv
  <2> QED
    BY <1>1, <1>2, <2>1, <2>2, <2>3, EntryInv
<1>4. CASE ClientDone(c)
  <2>1. projects' = projects
    BY <1>4 DEF ClientDone
  <2>2. NoNewWaiter /\ UpdatesGoOn
    BY <1>1, <1>2 DEF NoNewWaiter, UpdatesGoOn, IdleClient
  <2>3. Waiting'
    BY <2>1, <2>2, SameProjects DEF Inv
  <2>4. TypesOfParts'
    BY <1>1, <1>2, <2>1 DEF Inv, TypesOfParts, IdleClient
  <2> QED
    BY <1>1, <2>3, <2>4, ReqsUnchanged
<1>5. QED
  BY <1>3, <1>4

LEMMA UpdateProjectStateInv ==
  ASSUME Inv, NEW u \in Updates, UpdateProjectState(u)
  PROVE  Inv'
<1> DEFINE k == updates[u].key
           p == [GetOrCreate(k) EXCEPT !.stale = FALSE]
<1>1. k \in Keys
  BY DEF UpdateProjectState, Inv, TypesOfParts
<1>2. GetOrCreate(k) \in Projects
  BY <1>1, GetOrCreateType DEF Inv
<1>3. p \in Projects /\ p.channel = GetOrCreate(k).channel
  BY <1>2 DEF Projects
<1>4. projects' = [projects EXCEPT ![k] = p] /\ clients' = clients /\ reqs' = reqs
  BY DEF UpdateProjectState
<1>5. /\ updates' \in [Updates -> UpdateType]
      /\ updates[u].stage = "queued"
      /\ updates'[u].stage = "local" /\ updates'[u].key = updates[u].key
      /\ updates'[u].no_cache = updates[u].no_cache
      /\ \A v \in Updates \ {u} : updates'[v] = updates[v]
  BY DEF UpdateProjectState, Inv, TypesOfParts, UpdateType, Stages
<1>6. NoNewWaiter /\ UpdatesGoOn
  BY <1>4, <1>5 DEF NoNewWaiter, UpdatesGoOn
<1> HIDE DEF p, k
<1>7. projects' \in [Keys -> Projects \cup {None}] /\ Waiting'
  BY <1>1, <1>3, <1>4, <1>6, SameChannel DEF Inv
<1>8. TypesOfParts'
  BY <1>4, <1>5, <1>7 DEF Inv, TypesOfParts
<1>9. QED
  BY <1>4, <1>5, <1>7, <1>8, ReqsUnchanged

LEMMA LocalMissManagedInv ==
  ASSUME Inv, NEW u \in Updates, LocalMissManaged(u)
  PROVE  Inv'
<1>1. CASE ~HasRedis
  BY <1>1, AskUpstreamInv DEF LocalMissManaged
<1>2. CASE HasRedis
  <2>1. /\ projects' = projects /\ clients' = clients /\ reqs' = reqs
        /\ updates[u].stage = "local"
        /\ updates' = [updates EXCEPT ![u].stage = "redis"]
    BY <1>2 DEF LocalMissManaged
  <2>2. /\ updates' \in [Updates -> UpdateType]
        /\ updates'[u].stage = "redis" /\ updates'[u].key = updates[u].key
        /\ updates'[u].no_cache = updates[u].no_cache
        /\ \A v \in Updates \ {u} : updates'[v] = updates[v]
    BY <2>1 DEF Inv, TypesOfParts, UpdateType, Stages
  <2>3. NoNewWaiter /\ UpdatesGoOn
    BY <2>1, <2>2 DEF NoNewWaiter, UpdatesGoOn
  <2>4. Waiting'
    BY <2>1, <2>3, SameProjects DEF Inv
  <2>5. TypesOfParts'
    BY <2>1, <2>2 DEF Inv, TypesOfParts
  <2> QED
    BY <2>1, <2>2, <2>4, <2>5, ReqsUnchanged
<1>3. QED
  BY <1>1, <1>2

(* An update that ends with an error.                                      *)
LEMMA FailureInv ==
  ASSUME Inv, NEW u \in Updates, SourceClosed(u) \/ UpstreamFailed(u)
  PROVE  Inv'
<1>1. None \in States \cup {None} /\ "HardOutdated" \in Outdated
  BY DEF Outdated
<1>2. CASE SourceClosed(u)
  BY <1>1, <1>2, UpdateStateInv DEF SourceClosed
<1>3. CASE UpstreamFailed(u)
  BY <1>1, <1>3, UpstreamUpdateStateInv DEF UpstreamFailed
<1>4. QED
  BY <1>2, <1>3

(* An update that ends with a state.                                       *)
LEMMA UpdateEndsInv ==
  ASSUME Inv, NEW u \in Updates, NEW kind \in Kinds, NEW age \in Outdated,
         LocalHit(u, kind, age) \/ RedisHit(u, kind, age) \/ UpstreamHit(u, kind, age)
  PROVE  Inv'
<1>1. \A source \in Sources : [kind |-> kind, source |-> source] \in States \cup {None}
  BY KindsAssumption DEF States
<1>3. CASE LocalHit(u, kind, age)
  BY <1>1, <1>3, UpdateStateInv DEF LocalHit, Sources
<1>4. CASE RedisHit(u, kind, age)
  BY <1>1, <1>4, UpdateStateInv DEF RedisHit, Sources
<1>5. CASE UpstreamHit(u, kind, age)
  <2>1. PICK source \in Sources : UpdateState(u, [kind |-> kind, source |-> source], age)
    BY <1>5 DEF UpstreamHit, Sources
  <2> QED
    BY <1>1, <1>5, <2>1, UpstreamUpdateStateInv DEF UpstreamHit
<1>6. QED
  BY <1>3, <1>4, <1>5

LEMMA LocalMissUnmanagedInv ==
  ASSUME Inv, NEW u \in Updates, NEW age \in Outdated, LocalMissUnmanaged(u, age)
  PROVE  Inv'
<1>1. PICK kind \in AllKinds : UpdateState(u, [kind |-> kind, source |-> "mode"], age)
  BY DEF LocalMissUnmanaged, AllKinds
<1>2. [kind |-> kind, source |-> "mode"] \in States \cup {None}
  BY DEF States, Sources
<1>3. QED
  BY <1>1, <1>2, UpdateStateInv DEF LocalMissUnmanaged

LEMMA EvictInv ==
  ASSUME Inv, Evict
  PROVE  Inv'
BY EvictWaiting, ReqsUnchanged DEF Inv, Evict

-----------------------------------------------------------------------------
LEMMA InitInv == Init => Inv
<1> SUFFICES ASSUME Init PROVE Inv
  OBVIOUS
<1>1. TypesOfParts
  BY DEF Init, TypesOfParts, ClientType, UpdateType, IdleClient, IdleUpdate, Stages
<1>2. Waiting
  BY DEF Init, Waiting, WaiterHasChannel, ChannelHasUpdate, IdleClient
<1>3. Source!FetchTypeOK /\ Asked
  BY DEF Init, Source!FetchInit, Source!FetchTypeOK, Asked, IdleUpdate
<1>4. QED
  BY <1>1, <1>2, <1>3 DEF Inv

LEMMA NextInv == Inv /\ [Next]_vars => Inv'
<1> SUFFICES ASSUME Inv, [Next]_vars PROVE Inv'
  OBVIOUS
<1>1. ASSUME NEW c \in Clients, NEW k \in Keys, NEW nc \in BOOLEAN, NEW u \in Updates,
             GetProjectState(c, k, nc, u)
      PROVE  Inv'
  BY <1>1, GetProjectStateInv
<1>2. ASSUME NEW k \in Keys, NEW u \in Updates, Preload(k, u)
      PROVE  Inv'
  BY <1>2, PreloadInv
<1>3. ASSUME NEW k \in Keys, NEW age \in Outdated,
             Touch(k) \/ InsertMetrics(k) \/ Ages(k, age) \/ SecondPasses(k) \/ BecomesStale(k)
      PROVE  Inv'
  BY <1>3, ClockInv
<1>4. ASSUME NEW c \in Clients, ClientDone(c) \/ CheckEnvelope(c)
      PROVE  Inv'
  BY <1>4, ClientInv
<1>5. ASSUME NEW u \in Updates, UpdateProjectState(u)
      PROVE  Inv'
  BY <1>5, UpdateProjectStateInv
<1>6. ASSUME NEW u \in Updates, NEW kind \in Kinds, NEW age \in Outdated,
             LocalHit(u, kind, age) \/ RedisHit(u, kind, age) \/ UpstreamHit(u, kind, age)
      PROVE  Inv'
  BY <1>6, UpdateEndsInv
<1>7. ASSUME NEW u \in Updates, NEW age \in Outdated, LocalMissUnmanaged(u, age)
      PROVE  Inv'
  BY <1>7, LocalMissUnmanagedInv
<1>8. ASSUME NEW u \in Updates,
             LocalMissManaged(u) \/ RedisMiss(u) \/ SourceClosed(u) \/ UpstreamFailed(u)
      PROVE  Inv'
  <2>1. CASE LocalMissManaged(u)
    BY <2>1, LocalMissManagedInv
  <2>2. CASE RedisMiss(u)
    BY <2>2, AskUpstreamInv DEF RedisMiss
  <2>3. CASE SourceClosed(u) \/ UpstreamFailed(u)
    BY <2>3, FailureInv
  <2> QED
    BY <1>8, <2>1, <2>2, <2>3
<1>9. CASE UpstreamAnswers
  BY <1>9, UpstreamAnswersInv
<1>10. CASE Evict
  BY <1>10, EvictInv
<1>11. CASE UNCHANGED vars
  <2>1. TypesOfParts'
    BY <1>11 DEF Inv, TypesOfParts, vars
  <2>2. projects' = projects /\ updates' = updates /\ reqs' = reqs /\ NoNewWaiter /\ UpdatesGoOn
    BY <1>11 DEF vars, NoNewWaiter, UpdatesGoOn
  <2> QED
    BY <2>1, <2>2, SameProjects, ReqsUnchanged DEF Inv
<1>12. QED
  <2>1. "Updated" \in Outdated
    BY DEF Outdated
  <2> QED
    BY <1>1, <1>2, <1>3, <1>4, <1>5, <1>6, <1>7, <1>8, <1>9, <1>10, <1>11, <2>1 DEF Next

(* The mode is configured once.                                            *)
LEMMA ModeKept == Next => mode' = mode
<1>1. \A c \in Clients, k \in Keys, nc \in BOOLEAN, u \in Updates :
        GetProjectState(c, k, nc, u) => mode' = mode
  BY Zenon DEF GetProjectState, GetOrFetchState
<1>2. \A k \in Keys, age \in Outdated :
        Ages(k, age) => mode' = mode
  BY Zenon DEF Ages
<1>3. \A c \in Clients :
        ClientDone(c) \/ CheckEnvelope(c) => mode' = mode
  BY Zenon DEF ClientDone, CheckEnvelope
<1>4. \A u \in Updates : \A result, age : UpdateState(u, result, age) => mode' = mode
  BY Zenon DEF UpdateState
<1>5. \A u \in Updates, kind \in Kinds, age \in Outdated :
        LocalHit(u, kind, age) \/ RedisHit(u, kind, age) \/ UpstreamHit(u, kind, age) => mode' = mode
  BY <1>4, Zenon DEF LocalHit, RedisHit, UpstreamHit
<1>6. \A u \in Updates, age \in Outdated : LocalMissUnmanaged(u, age) => mode' = mode
  BY <1>4, Zenon DEF LocalMissUnmanaged
<1>7. \A u \in Updates :
        \/ UpdateProjectState(u) \/ LocalMissManaged(u) \/ RedisMiss(u)
        \/ SourceClosed(u) \/ UpstreamFailed(u)
        => mode' = mode
  BY <1>4, Zenon DEF UpdateProjectState, AskUpstream, LocalMissManaged, RedisMiss, SourceClosed,
     UpstreamFailed
<1>8. \A k \in Keys, u \in Updates : Preload(k, u) => mode' = mode
  BY Zenon DEF Preload, GetOrFetchState
<1>9. \A k \in Keys :
        Touch(k) \/ InsertMetrics(k) \/ SecondPasses(k) \/ BecomesStale(k) => mode' = mode
  BY Zenon DEF Touch, InsertMetrics, SecondPasses, BecomesStale
<1>10. UpstreamAnswers \/ Evict => mode' = mode
  BY Zenon DEF UpstreamAnswers, Evict
<1>11. QED
  BY <1>1, <1>2, <1>3, <1>5, <1>6, <1>7, <1>8, <1>9, <1>10 DEF Next

(* The type invariant of the project cache: in particular every update     *)
(* and every waiting client names a project key, and a message to the      *)
(* upstream source is in one of the states of FetchService.                *)
THEOREM TypeCorrect == Spec => []TypeOK
<1>1. Inv /\ mode \in RelayModes => TypeOK
  BY TypeOKParts DEF Inv
<1>2. Init => mode \in RelayModes
  BY DEF Init
<1>3. [Next]_vars => mode' = mode
  BY ModeKept DEF vars
<1>4. mode \in RelayModes /\ [Next]_vars => (mode \in RelayModes)'
  BY <1>3
<1>5. QED
  BY <1>1, <1>2, <1>4, InitInv, NextInv, PTL DEF Spec

(* get_or_fetch_state, update_state and evict_stale_project_caches never   *)
(* leave a request behind: whoever waits, waits on the channel of an entry *)
(* of the cache, and each open channel has an UpdateProjectState under way *)
(* whose result update_state will take.                                    *)
THEOREM NobodyForgotten == Spec => []WaitersServed
<1>1. Inv => WaitersServed
  BY DEF Inv, Waiting, WaitersServed
<1>2. QED
  BY <1>1, InitInv, NextInv, PTL DEF Spec

-----------------------------------------------------------------------------
(* The state a waiting client is given is the result of the update that    *)
(* ends, and a no_cache client is given the result of a no_cache update.   *)
LEMMA GivenByUpdate ==
  ASSUME Inv, NEW u \in Updates, updates[u].stage # "idle",
         NEW result \in States \cup {None}, NEW age \in Outdated, UpdateState(u, result, age),
         NEW c \in Clients, clients[c].no_cache, NEW state \in Given(c)
  PROVE  state = result /\ updates[u].no_cache
<1> DEFINE k == updates[u].key
           p == GetOrCreate(k)
           base == [p EXCEPT !.channel = "none", !.state = result, !.age = age]
           loaded == UpdateAggregator(base)
           accepts == Accepts(p, updates[u].no_cache)
<1>1. /\ clients[c].status = "waiting" /\ clients'[c].status = "ok"
      /\ state = projects'[clients[c].key].state
  BY DEF Given
<1>2. k \in Keys /\ p \in Projects
  BY GetOrCreateType DEF Inv, TypesOfParts
<1>3. base \in Projects /\ base.state = result
  <2> HIDE DEF p
  <2> QED
    BY <1>2 DEF Projects
<1>4. loaded.state = result
  <2> HIDE DEF base
  <2> QED
    BY <1>3, UpdateAggregatorType
<1>5. /\ projects' = [projects EXCEPT ![k] = IF accepts THEN loaded ELSE p]
      /\ clients' = IF ~accepts THEN clients
                    ELSE ChannelsEnd({k}, IF result = None THEN "failed" ELSE "ok")
  BY DEF UpdateState
<1>6. projects[k] # None => p = projects[k]
  BY DEF GetOrCreate
<1>7. accepts /\ p.channel = "no_cache" => updates[u].no_cache
  BY DEF Accepts
<1> HIDE DEF p, k, base, loaded, accepts
<1>8. accepts
  BY <1>1, <1>5
<1>9. clients[c].key = k
  BY <1>1, <1>5, <1>8 DEF ChannelsEnd
<1>10. projects'[k] = loaded
  BY <1>2, <1>5, <1>8 DEF Inv, TypesOfParts
<1>11. p.channel = "no_cache"
  BY <1>1, <1>6, <1>9 DEF Inv, Waiting, WaiterHasChannel
<1>12. QED
  BY <1>1, <1>4, <1>7, <1>8, <1>9, <1>10, <1>11

(* A step in which no update ends gives nobody a state.                    *)
LEMMA NothingGiven ==
  ASSUME NEW c \in Clients, clients[c].status = "waiting" => clients'[c].status # "ok"
  PROVE  Given(c) = {}
BY DEF Given

LEMMA NoCacheStep ==
  ASSUME Inv, [Next]_vars, NEW c \in Clients, clients[c].no_cache, NEW state \in Given(c)
  PROVE  state.source # "upstream"
<1>1. ASSUME NEW d \in Clients, NEW k \in Keys, NEW nc \in BOOLEAN, NEW u \in Updates,
             GetProjectState(d, k, nc, u)
      PROVE  FALSE
  <2>1. clients[c].status = "waiting" => clients'[c] = clients[c]
    BY <1>1 DEF GetProjectState, Inv, TypesOfParts
  <2> QED
    BY <2>1, NothingGiven
<1>2. ASSUME NEW d \in Clients, ClientDone(d) \/ CheckEnvelope(d)
      PROVE  FALSE
  <2>1. clients[c].status = "waiting" => clients'[c] = clients[c]
    BY <1>2 DEF ClientDone, CheckEnvelope, Inv, TypesOfParts
  <2> QED
    BY <2>1, NothingGiven
<1>3. CASE clients' = clients
  BY <1>3, NothingGiven
<1>4. CASE Evict
  <2>1. \A d \in Clients : clients[d].status = "waiting" => clients'[d].status \in {"waiting", "failed"}
    BY <1>4 DEF Evict, ChannelsEnd, Inv, TypesOfParts, ClientType
  <2> QED
    BY <2>1, NothingGiven
<1>5. ASSUME NEW u \in Updates, NEW kind \in Kinds, NEW age \in Outdated,
             LocalHit(u, kind, age) \/ RedisHit(u, kind, age)
      PROVE  state.source # "upstream"
  <2>1. PICK source \in {"local", "redis"} : UpdateState(u, [kind |-> kind, source |-> source], age)
    BY <1>5 DEF LocalHit, RedisHit
  <2>2. [kind |-> kind, source |-> source] \in States \cup {None}
    BY KindsAssumption DEF States, Sources
  <2>3. updates[u].stage # "idle"
    BY <1>5 DEF LocalHit, RedisHit
  <2>4. state = [kind |-> kind, source |-> source]
    BY <2>1, <2>2, <2>3, GivenByUpdate
  <2> QED
    BY <2>4
<1>6. ASSUME NEW u \in Updates, NEW kind \in Kinds, NEW age \in Outdated, UpstreamHit(u, kind, age)
      PROVE  state.source # "upstream"
  <2>1. reqs[u].status = "ok" /\ updates[u].stage # "idle"
    BY <1>6 DEF UpstreamHit, Inv, Asked
  <2>2. PICK source \in Sources :
          /\ UpdateState(u, [kind |-> kind, source |-> source], age)
          /\ source = "upstream" => ~reqs[u].fresh
    BY <1>6 DEF UpstreamHit, Sources
  <2>3. [kind |-> kind, source |-> source] \in States \cup {None}
    BY KindsAssumption DEF States
  <2>4. state = [kind |-> kind, source |-> source] /\ updates[u].no_cache
    BY <2>1, <2>2, <2>3, GivenByUpdate
  <2>5. reqs[u].fresh
    BY <2>1, <2>4 DEF Inv, Asked
  <2> QED
    BY <2>2, <2>4, <2>5
<1>7. ASSUME NEW u \in Updates, NEW age \in Outdated, LocalMissUnmanaged(u, age)
      PROVE  state.source # "upstream"
  <2>1. PICK kind \in AllKinds : UpdateState(u, [kind |-> kind, source |-> "mode"], age)
    BY <1>7 DEF LocalMissUnmanaged, AllKinds
  <2>2. [kind |-> kind, source |-> "mode"] \in States \cup {None}
    BY DEF States, Sources
  <2>3. updates[u].stage # "idle"
    BY <1>7 DEF LocalMissUnmanaged
  <2>4. state = [kind |-> kind, source |-> "mode"]
    BY <2>1, <2>2, <2>3, GivenByUpdate
  <2> QED
    BY <2>4
<1>8. ASSUME NEW u \in Updates, SourceClosed(u) \/ UpstreamFailed(u)
      PROVE  FALSE
  <2>1. UpdateState(u, None, "HardOutdated")
    BY <1>8 DEF SourceClosed, UpstreamFailed
  <2>2. clients' = clients \/ clients' = ChannelsEnd({updates[u].key}, "failed")
    BY <2>1 DEF UpdateState
  <2>3. CASE clients' = ChannelsEnd({updates[u].key}, "failed")
    <3>1. \A d \in Clients : clients[d].status = "waiting" => clients'[d].status \in {"waiting", "failed"}
      BY <2>3 DEF ChannelsEnd, Inv, TypesOfParts, ClientType
    <3> QED
      BY <3>1, NothingGiven
  <2> QED
    BY <2>2, <2>3, NothingGiven
<1>9. QED
  <2>1. ASSUME NEW k \in Keys, NEW u \in Updates, Preload(k, u)
        PROVE  clients' = clients
    BY <2>1 DEF Preload
  <2>2. ASSUME NEW k \in Keys, NEW age \in Outdated,
               Touch(k) \/ InsertMetrics(k) \/ Ages(k, age) \/ SecondPasses(k) \/ BecomesStale(k)
        PROVE  clients' = clients
    BY <2>2 DEF Touch, InsertMetrics, Ages, SecondPasses, BecomesStale
  <2>3. ASSUME NEW u \in Updates, UpdateProjectState(u) \/ LocalMissManaged(u) \/ RedisMiss(u)
        PROVE  clients' = clients
    BY <2>3 DEF UpdateProjectState, LocalMissManaged, RedisMiss, AskUpstream
  <2>4. UpstreamAnswers \/ UNCHANGED vars => clients' = clients
    BY DEF UpstreamAnswers, vars
  <2>5. "Updated" \in Outdated
    BY DEF Outdated
  <2> QED
    BY <1>1, <1>2, <1>3, <1>4, <1>5, <1>6, <1>7, <1>8, <2>1, <2>2, <2>3, <2>4, <2>5 DEF Next

(* A client that was let through with no_cache is never given a state      *)
(* which the upstream may have taken from its own cache, in whatever order *)
(* the updates of a project key end and whenever its entry is evicted.     *)
THEOREM NoCacheKept == Spec => NoCacheHonoured
<1>1. Inv /\ [Next]_vars =>
        [\A c \in Clients : clients[c].no_cache =>
           \A state \in Given(c) : state.source # "upstream"]_vars
  BY NoCacheStep
<1>2. QED
  BY <1>1, InitInv, NextInv, PTL DEF Spec, NoCacheHonoured

=============================================================================
