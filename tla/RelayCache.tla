----------------------------- MODULE RelayCache -----------------------------
(***************************************************************************)
(* The actor RelayCache (relay-server/src/actors/relays.rs): it answers    *)
(* which downstream relays are known, from the configuration, from a cache *)
(* or with a batched query to the upstream.                                *)
(*                                                                         *)
(* A GetRelay message is a GetRelays message with one id. A channel        *)
(* (RelayInfoChannel) is named after its id and the request that created   *)
(* it. Cached entries expire whenever they like.                           *)
(***************************************************************************)
EXTENDS Integers, FiniteSets

CONSTANTS
  Ids,             \* relay ids
  Static,          \* those of config.static_relays()
  Requests,        \* names of the GetRelays messages in use
  NoChannel,       \* None, in place of a channel
  HasCredentials,  \* config.credentials().is_some()
  MayStop          \* whether the UpstreamRelay actor may stop

ASSUME IdsAssumption == Static \subseteq Ids /\ NoChannel \notin Requests
ASSUME FlagsAssumption == HasCredentials \in BOOLEAN /\ MayStop \in BOOLEAN

VARIABLES
  relays,          \* relays: what is known of an id, and has not expired
  relayChannels,   \* relay_channels: id -> the request that created its channel
  started,         \* backoff.started()
  timers,          \* pending run_later(.., fetch_relays)
  running,         \* the maps of channels moved into queries of the upstream
  answers,         \* request -> id -> what the request knows of it
  waitsOn,         \* request -> id -> the channel whose receiver it holds
  alive            \* the UpstreamRelay actor takes messages

vars == <<relays, relayChannels, started, timers, running, answers, waitsOn, alive>>

Channels == Requests \cup {NoChannel}

(* Some(RelayInfo) and None                                                *)
Infos == {"exists", "does_not_exist"}

TypeOK ==
  /\ relays \in [Ids -> Infos \cup {"unknown"}]
  /\ relayChannels \in [Ids -> Channels]
  /\ started \in BOOLEAN
  /\ timers \in Nat
  /\ running \subseteq [Ids -> Channels]
  /\ answers \in [Requests -> [Ids -> Infos \cup {"unasked", "waiting", "failed"}]]
  /\ waitsOn \in [Requests -> [Ids -> Channels]]
  /\ alive \in BOOLEAN

Empty == [id \in Ids |-> NoChannel]
Domain(channels) == {id \in Ids : channels[id] # NoChannel}

Unasked == [id \in Ids |-> "unasked"]

Init ==
  /\ relays = [id \in Ids |-> "unknown"]
  /\ relayChannels = Empty
  /\ started = FALSE
  /\ timers = 0
  /\ running = {}
  /\ answers = [r \in Requests |-> Unasked]
  /\ waitsOn = [r \in Requests |-> Empty]
  /\ alive = TRUE

-----------------------------------------------------------------------------
(* get_or_fetch_info                                                       *)

(* Neither the configuration nor the cache knows, and there are            *)
(* credentials to ask the upstream.                                        *)
MustFetch(id) == id \notin Static /\ relays[id] = "unknown" /\ HasCredentials

(* What get_or_fetch_info replies otherwise.                               *)
Known(id) ==
  CASE id \in Static                              -> "exists"
    [] id \notin Static /\ relays[id] # "unknown" -> relays[id]
    [] OTHER                                      -> "does_not_exist"

MustSchedule_Always == TRUE

(* get_or_fetch_info schedules a fetch if !backoff.started().              *)
MustSchedule == ~started

(* No channel carries the name r any more.                                 *)
Fresh(r) ==
  /\ answers[r] = Unasked
  /\ \A channels \in running \cup {relayChannels}, id \in Ids : channels[id] # r

(* Handler<GetRelays>: get_or_fetch_info for each of ids; the futures it   *)
(* returns are joined.                                                     *)
GetRelays(r, ids) ==
  LET fetched == {id \in ids : MustFetch(id)}
      channel(id) == IF relayChannels[id] = NoChannel THEN r ELSE relayChannels[id]
  IN  /\ Fresh(r)
      /\ answers' = [answers EXCEPT ![r] =
                       [id \in Ids |-> CASE id \notin ids   -> "unasked"
                                         [] id \in fetched  -> "waiting"
                                         [] OTHER           -> Known(id)]]
      /\ waitsOn' = [waitsOn EXCEPT ![r] =
                       [id \in Ids |-> IF id \in fetched THEN channel(id) ELSE NoChannel]]
      /\ relayChannels' =
           [id \in Ids |-> IF id \in fetched THEN channel(id) ELSE relayChannels[id]]
      /\ timers' = IF fetched # {} /\ MustSchedule THEN timers + 1 ELSE timers
      /\ started' = (started \/ fetched # {})
      /\ UNCHANGED <<relays, running, alive>>

(* What the request has to wait for.                                       *)
Waiting(r) == \E id \in Ids : answers[r][id] = "waiting"

Failed(r) == \E id \in Ids : answers[r][id] = "failed"

(* join_all ends with the first error, or with all answers.                *)
Reply(r) ==
  /\ answers[r] # Unasked
  /\ Failed(r) \/ ~Waiting(r)
  /\ answers' = [answers EXCEPT ![r] = Unasked]
  /\ waitsOn' = [waitsOn EXCEPT ![r] = Empty]
  /\ UNCHANGED <<relays, relayChannels, started, timers, running, alive>>

-----------------------------------------------------------------------------
(* fetch_relays                                                            *)

TakenChannels_Kept == relayChannels

(* mem::take leaves no channel behind.                                     *)
TakenChannels == Empty

fetch_relays ==
  /\ timers > 0
  /\ timers' = timers - 1
  /\ running' = running \cup {relayChannels}
  /\ relayChannels' = TakenChannels
  /\ UNCHANGED <<relays, started, answers, waitsOn, alive>>

(* The receivers of channels get an answer, which is "failed" where the    *)
(* sender is dropped.                                                      *)
Close(channels, answer) ==
  /\ answers' = [r \in Requests |-> [id \in Ids |->
                   IF channels[id] # NoChannel /\ waitsOn[r][id] = channels[id]
                   THEN answer[id] ELSE answers[r][id]]]
  /\ waitsOn' = [r \in Requests |-> [id \in Ids |->
                   IF waitsOn[r][id] = channels[id] THEN NoChannel ELSE waitsOn[r][id]]]

AllFailed == [id \in Ids |-> "failed"]

MoreWork_Before(channels) == Domain(relayChannels) # {}

(* !relay_channels.is_empty(), for the map after the match.                *)
MoreWork(channels) == Domain(channels) # {}

Reschedule_Cancels(channels) ==
  /\ relayChannels' = channels
  /\ timers' = IF MoreWork(channels) THEN timers + 1 ELSE timers - 1

(* The query has been answered, and the channels are as given.             *)
Reschedule(channels) ==
  /\ relayChannels' = channels
  /\ timers' = IF MoreWork(channels) THEN timers + 1 ELSE timers

(* The upstream knows the relays in found. The ids of the query are        *)
(* answered, whether the response mentions them or not.                    *)
FetchSucceeds(channels, found) ==
  LET info == [id \in Ids |-> IF id \in found THEN "exists" ELSE "does_not_exist"]
  IN  /\ channels \in running /\ alive
      /\ running' = running \ {channels}
      /\ relays' = [id \in Ids |-> IF id \in Domain(channels) THEN info[id] ELSE relays[id]]
      /\ Close(channels, info)
      /\ started' = (Domain(relayChannels) # {})
      /\ Reschedule(relayChannels)
      /\ UNCHANGED alive

Extend_Forgets(channels) == relayChannels

(* relay_channels.extend(channels): a channel of the query replaces one    *)
(* that has been pushed for the same id in the meanwhile.                  *)
Extend(channels) ==
  [id \in Ids |-> IF id \in Domain(channels) THEN channels[id] ELSE relayChannels[id]]

FetchFails(channels) ==
  LET replaced == [id \in Ids |-> IF id \in Domain(channels) THEN relayChannels[id] ELSE NoChannel]
  IN  /\ channels \in running /\ alive
      /\ running' = running \ {channels}
      /\ Close(replaced, AllFailed)
      /\ Reschedule(Extend(channels))
      /\ UNCHANGED <<relays, started, alive>>

(* ScheduleFailed: drop_err ends the fetch, and nothing else happens.      *)
FetchDropped(channels) ==
  /\ channels \in running /\ ~alive
  /\ running' = running \ {channels}
  /\ Close(channels, AllFailed)
  /\ UNCHANGED <<relays, relayChannels, started, timers, alive>>

-----------------------------------------------------------------------------
(* is_valid_cache(): an entry gets older than its expiry.                  *)
Expires(id) ==
  /\ relays[id] # "unknown"
  /\ relays' = [relays EXCEPT ![id] = "unknown"]
  /\ UNCHANGED <<relayChannels, started, timers, running, answers, waitsOn, alive>>

UpstreamStops ==
  /\ MayStop /\ alive
  /\ alive' = FALSE
  /\ UNCHANGED <<relays, relayChannels, started, timers, running, answers, waitsOn>>

QuerySucceeds == \E channels \in running, found \in SUBSET Ids : FetchSucceeds(channels, found)

Next ==
  \/ \E r \in Requests, ids \in SUBSET Ids : GetRelays(r, ids)
  \/ \E r \in Requests : Reply(r)
  \/ fetch_relays
  \/ QuerySucceeds
  \/ \E channels \in running : FetchFails(channels) \/ FetchDropped(channels)
  \/ \E id \in Ids : Expires(id)
  \/ UpstreamStops

Spec == Init /\ [][Next]_vars

(* Timers fire; an upstream that is queried again and again does not fail  *)
(* each time.                                                              *)
FairSpec == Spec /\ WF_vars(fetch_relays) /\ SF_vars(QuerySucceeds)

-----------------------------------------------------------------------------
(* The properties.                                                         *)

(* The doc of fetch_relays: "This assumes that currently no request is     *)
(* running." The backoff tells: as long as the upstream takes messages     *)
(* there is one fetch, scheduled or running, exactly if it has started.    *)
OneFetch ==
  alive => timers + Cardinality(running) = IF started THEN 1 ELSE 0

(* A request waits for a channel that is queued for a fetch, or part of a  *)
(* running one; and queued channels have a fetch to come.                  *)
WaiterHasFetch ==
  /\ \A r \in Requests, id \in Ids :
       answers[r][id] = "waiting" =>
         /\ waitsOn[r][id] # NoChannel
         /\ \/ relayChannels[id] = waitsOn[r][id]
            \/ \E channels \in running : channels[id] = waitsOn[r][id]
  /\ alive /\ Domain(relayChannels) # {} => timers > 0 \/ running # {}

(* A channel is queued, or part of one running fetch: nobody is answered   *)
(* twice.                                                                  *)
OwnedOnce ==
  \A m \in running, id \in Ids :
    m[id] # NoChannel =>
      /\ relayChannels[id] # m[id]
      /\ \A n \in running : n[id] = m[id] => n = m

(* Nobody is stranded, and nobody is answered twice.                       *)
WaitersServed == WaiterHasFetch /\ OwnedOnce

(* Every request is answered, if the upstream does not stop and answers    *)
(* a query now and then.                                                   *)
EveryRequestAnswered ==
  \A r \in Requests : Waiting(r) ~> (~Waiting(r) \/ Failed(r) \/ ~alive)

=============================================================================
