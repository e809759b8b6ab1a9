-------------------------- MODULE RelayCacheProofs --------------------------
(***************************************************************************)
(* Proofs about RelayCache for every set of relays and requests, and about *)
(* what relays do with the keys it keeps: registrations, signed requests   *)
(* and the projects that they ask their upstream for (Authentication), for *)
(* all keys, times and states of projects.                                 *)
(***************************************************************************)
EXTENDS RelayCache, Authentication, FiniteSetTheorems, TLAPS

(* What OneFetch says, without counting.                                   *)
Single ==
  \/ ~started /\ timers = 0 /\ running = {}
  \/ started /\ timers = 1 /\ running = {}
  \/ started /\ timers = 0 /\ \E m \in [Ids -> Channels] : running = {m}

WaiterHasOwner ==
  \A r \in Requests, id \in Ids :
    answers[r][id] = "waiting" =>
      /\ waitsOn[r][id] # NoChannel
      /\ \/ relayChannels[id] = waitsOn[r][id]
         \/ \E channels \in running : channels[id] = waitsOn[r][id]

(* Every fetch has channels to serve: one without, if it failed, would     *)
(* leave the backoff started and never be repeated.                        *)
FetchHasWork ==
  /\ timers > 0 => Domain(relayChannels) # {}
  /\ \A m \in running : Domain(m) # {}

(* The inductive invariant: the backoff has started whenever a channel is  *)
(* queued, so that the fetch it stands for will serve the channel.         *)
Inv ==
  /\ TypeOK
  /\ alive => Single
  /\ alive /\ Domain(relayChannels) # {} => started
  /\ alive => FetchHasWork
  /\ WaiterHasOwner
  /\ OwnedOnce

LEMMA InitInv ==
  ASSUME Init
  PROVE  Inv
<1>1. Empty \in [Ids -> Channels] /\ Domain(Empty) = {}
  BY DEF Empty, Channels, Domain
<1>2. TypeOK
  BY <1>1, Zenon DEF Init, TypeOK, Unasked, Infos
<1>3. QED
  BY <1>1, <1>2 DEF Init, Inv, Single, FetchHasWork, WaiterHasOwner, OwnedOnce, Unasked

LEMMA GetRelaysInv ==
  ASSUME Inv, NEW r \in Requests, NEW ids \in SUBSET Ids, GetRelays(r, ids)
  PROVE  Inv'
<1> DEFINE fetched == {id \in ids : MustFetch(id)}
           channel(id) == IF relayChannels[id] = NoChannel THEN r ELSE relayChannels[id]
<1>1. /\ Fresh(r)
      /\ answers' = [answers EXCEPT ![r] =
                       [id \in Ids |-> CASE id \notin ids   -> "unasked"
                                         [] id \in fetched  -> "waiting"
                                         [] OTHER           -> Known(id)]]
      /\ waitsOn' = [waitsOn EXCEPT ![r] =
                       [id \in Ids |-> IF id \in fetched THEN channel(id) ELSE NoChannel]]
      /\ relayChannels' =
           [id \in Ids |-> IF id \in fetched THEN channel(id) ELSE relayChannels[id]]
      /\ timers' = IF fetched # {} /\ MustSchedule THEN timers + 1 ELSE timers
      /\ started' = (started \/ fetched # {})
      /\ relays' = relays /\ running' = running /\ alive' = alive
  BY DEF GetRelays
<1>2. /\ \A id \in Ids : channel(id) \in Channels /\ channel(id) # NoChannel
      /\ \A id \in Ids : Known(id) \in Infos
  BY IdsAssumption DEF Channels, Inv, TypeOK, Known, Infos
<1>3. TypeOK'
  <2>1. answers' \in [Requests -> [Ids -> Infos \cup {"unasked", "waiting", "failed"}]]
    BY <1>1, <1>2 DEF Inv, TypeOK
  <2>2. waitsOn' \in [Requests -> [Ids -> Channels]] /\ relayChannels' \in [Ids -> Channels]
    BY <1>1, <1>2 DEF Inv, TypeOK, Channels
  <2>3. timers' \in Nat
    BY <1>1 DEF Inv, TypeOK
  <2>4. started' \in BOOLEAN
    BY <1>1, Zenon
  <2> QED
    BY <1>1, <2>1, <2>2, <2>3, <2>4 DEF Inv, TypeOK
<1>4. alive' => Single'
  <2>1. CASE fetched = {}
    <3>1. started' = (started \/ FALSE)
      BY <1>1, <2>1, Zenon
    <3>2. started' = started
      BY <3>1 DEF Inv, TypeOK
    <3> QED
      BY <1>1, <2>1, <3>2 DEF Inv, Single
  <2>2. CASE fetched # {}
    <3>1. started' = TRUE
      BY <1>1, <2>2
    <3>2. CASE started
      <4>1. timers' = timers /\ started' = started
        BY <1>1, <3>1, <3>2 DEF MustSchedule, Inv, TypeOK
      <4> QED
        BY <1>1, <4>1 DEF Inv, Single
    <3>3. CASE ~started
      <4>1. timers' = timers + 1
        BY <1>1, <2>2, <3>3 DEF MustSchedule
      <4>2. alive => timers = 0 /\ running = {}
        BY <3>3 DEF Inv, Single
      <4>3. alive' => timers' = 1 /\ running' = {}
        BY <1>1, <4>1, <4>2
      <4> QED
        BY <3>1, <4>3 DEF Single
    <3> QED
      BY <3>2, <3>3
  <2> QED
    BY <2>1, <2>2
<1>5. alive' /\ Domain(relayChannels)' # {} => started'
  <2>1. CASE fetched = {}
    BY <1>1, <2>1 DEF Inv, TypeOK, Domain
  <2>2. CASE fetched # {}
    BY <1>1, <2>2
  <2> QED
    BY <2>1, <2>2
<1>6. WaiterHasOwner'
  <2> SUFFICES ASSUME NEW q \in Requests, NEW id \in Ids, answers'[q][id] = "waiting"
               PROVE  /\ waitsOn'[q][id] # NoChannel
                      /\ \/ relayChannels'[id] = waitsOn'[q][id]
                         \/ \E channels \in running' : channels[id] = waitsOn'[q][id]
    BY DEF WaiterHasOwner
  <2>1. CASE q = r
    <3>1. id \in fetched
      BY <1>1, <1>2, <2>1 DEF Inv, TypeOK, Infos
    <3> QED
      BY <1>1, <1>2, <2>1, <3>1 DEF Inv, TypeOK
  <2>2. CASE q # r
    <3>1. answers'[q] = answers[q] /\ waitsOn'[q] = waitsOn[q]
      BY <1>1, <2>2 DEF Inv, TypeOK
    <3>2. relayChannels[id] # NoChannel => relayChannels'[id] = relayChannels[id]
      BY <1>1 DEF Inv, TypeOK
    <3> QED
      BY <1>1, <3>1, <3>2 DEF Inv, WaiterHasOwner
  <2> QED
    BY <2>1, <2>2
<1>7. OwnedOnce'
  <2>1. \A m \in running, id \in Ids : m[id] # r
    BY <1>1 DEF Fresh
  <2>2. \A id \in Ids : relayChannels'[id] = relayChannels[id] \/ relayChannels'[id] = r
    BY <1>1 DEF Inv, TypeOK
  <2> QED
    BY <1>1, <2>1, <2>2 DEF Inv, OwnedOnce
<1>8. alive' => FetchHasWork'
  <2>1. \A id \in Ids : relayChannels[id] # NoChannel => relayChannels'[id] = relayChannels[id]
    BY <1>1 DEF Inv, TypeOK
  <2>2. fetched # {} => Domain(relayChannels)' # {}
    BY <1>1, <1>2 DEF Domain
  <2>3. fetched = {} => timers' = timers
    BY <1>1
  <2> QED
    BY <1>1, <2>1, <2>2, <2>3 DEF Inv, FetchHasWork, Domain
<1>9. QED
  BY <1>3, <1>4, <1>5, <1>6, <1>7, <1>8 DEF Inv

LEMMA ReplyInv ==
  ASSUME Inv, NEW r \in Requests, Reply(r)
  PROVE  Inv'
<1>1. /\ answers' = [answers EXCEPT ![r] = Unasked] /\ waitsOn' = [waitsOn EXCEPT ![r] = Empty]
      /\ relays' = relays /\ relayChannels' = relayChannels /\ started' = started
      /\ timers' = timers /\ running' = running /\ alive' = alive
  BY DEF Reply
<1>2. TypeOK'
  BY <1>1 DEF Inv, TypeOK, Unasked, Empty, Channels
<1>3. \A q \in Requests, id \in Ids : answers'[q][id] = "waiting" =>
        q # r /\ answers'[q] = answers[q] /\ waitsOn'[q] = waitsOn[q]
  BY <1>1 DEF Inv, TypeOK, Unasked
<1>4. WaiterHasOwner'
  BY <1>1, <1>3 DEF Inv, WaiterHasOwner
<1>5. QED
  BY <1>1, <1>2, <1>4 DEF Inv, Single, FetchHasWork, OwnedOnce, Domain

(* The channels move from the queue into the fetch.                        *)
LEMMA FetchRelaysInv ==
  ASSUME Inv, fetch_relays
  PROVE  Inv'
<1>1. /\ timers > 0 /\ timers' = timers - 1
      /\ running' = running \cup {relayChannels} /\ relayChannels' = Empty
      /\ relays' = relays /\ started' = started /\ answers' = answers
      /\ waitsOn' = waitsOn /\ alive' = alive
  BY DEF fetch_relays, TakenChannels
<1>2. Empty \in [Ids -> Channels] /\ Domain(Empty) = {}
  BY DEF Empty, Channels, Domain
<1>3. TypeOK'
  BY <1>1, <1>2 DEF Inv, TypeOK
<1>4. alive' => Single'
  <2> SUFFICES ASSUME alive PROVE Single'
    BY <1>1
  <2>1. started /\ timers = 1 /\ running = {}
    BY <1>1 DEF Inv, Single
  <2>2. started' /\ timers' = 0 /\ running' = {relayChannels}
    BY <1>1, <2>1
  <2> QED
    BY <2>2 DEF Single, Inv, TypeOK
<1>5. Domain(relayChannels)' = {}
  BY <1>1, <1>2 DEF Domain
<1>6. WaiterHasOwner'
  BY <1>1 DEF Inv, WaiterHasOwner
<1>7. OwnedOnce'
  <2>1. \A id \in Ids : relayChannels'[id] = NoChannel
    BY <1>1 DEF Empty
  <2> QED
    BY <1>1, <2>1 DEF Inv, OwnedOnce
<1>8. alive' => FetchHasWork'
  <2> SUFFICES ASSUME alive PROVE FetchHasWork'
    BY <1>1
  <2>1. timers = 1 /\ running = {} /\ Domain(relayChannels) # {}
    BY <1>1 DEF Inv, Single, FetchHasWork
  <2>2. timers' = 0 /\ running' = {relayChannels}
    BY <1>1, <2>1
  <2> QED
    BY <2>1, <2>2 DEF FetchHasWork
<1>9. QED
  BY <1>3, <1>4, <1>5, <1>6, <1>7, <1>8 DEF Inv

(* The receivers of the channels that are closed do not wait any more.     *)
LEMMA CloseStep ==
  ASSUME Inv, NEW channels \in [Ids -> Channels],
         NEW answer \in [Ids -> Infos \cup {"failed"}], Close(channels, answer)
  PROVE  /\ answers' \in [Requests -> [Ids -> Infos \cup {"unasked", "waiting", "failed"}]]
         /\ waitsOn' \in [Requests -> [Ids -> Channels]]
         /\ \A r \in Requests, id \in Ids : answers'[r][id] = "waiting" =>
              /\ answers[r][id] = "waiting" /\ waitsOn'[r][id] = waitsOn[r][id]
              /\ waitsOn[r][id] # NoChannel /\ waitsOn[r][id] # channels[id]
<1>1. answers' \in [Requests -> [Ids -> Infos \cup {"unasked", "waiting", "failed"}]]
  BY DEF Close, Inv, TypeOK
<1>2. waitsOn' \in [Requests -> [Ids -> Channels]]
  BY DEF Close, Inv, TypeOK, Channels
<1>3. ASSUME NEW r \in Requests, NEW id \in Ids, answers'[r][id] = "waiting"
      PROVE  /\ answers[r][id] = "waiting" /\ waitsOn'[r][id] = waitsOn[r][id]
             /\ waitsOn[r][id] # NoChannel /\ waitsOn[r][id] # channels[id]
  <2>1. answer[id] # "waiting"
    BY DEF Infos
  <2>2. ~(channels[id] # NoChannel /\ waitsOn[r][id] = channels[id]) /\ answers[r][id] = "waiting"
    BY <1>3, <2>1 DEF Close
  <2>3. waitsOn[r][id] # NoChannel
    BY <2>2 DEF Inv, WaiterHasOwner
  <2>4. waitsOn[r][id] # channels[id]
    BY <2>2, <2>3
  <2>5. waitsOn'[r][id] = waitsOn[r][id]
    BY <2>4 DEF Close
  <2> QED
    BY <2>2, <2>3, <2>4, <2>5
<1>4. QED
  BY <1>1, <1>2, <1>3

(* Answering the query of `channels' ends the only fetch there is.         *)
LEMMA LastFetch ==
  ASSUME Inv, alive, NEW channels \in running
  PROVE  started /\ timers = 0 /\ running \ {channels} = {}
BY DEF Inv, Single

LEMMA FetchSucceedsInv ==
  ASSUME Inv, NEW channels \in running, NEW found, FetchSucceeds(channels, found)
  PROVE  Inv'
<1> DEFINE info == [id \in Ids |-> IF id \in found THEN "exists" ELSE "does_not_exist"]
<1>1. /\ alive /\ alive' = alive /\ running' = running \ {channels}
      /\ relays' = [id \in Ids |-> IF id \in Domain(channels) THEN info[id] ELSE relays[id]]
      /\ Close(channels, info)
      /\ started' = (Domain(relayChannels) # {}) /\ relayChannels' = relayChannels
      /\ timers' = IF Domain(relayChannels) # {} THEN timers + 1 ELSE timers
  BY DEF FetchSucceeds, Reschedule, MoreWork
<1>2. channels \in [Ids -> Channels]
  BY DEF Inv, TypeOK
<1>3. info \in [Ids -> Infos]
  BY DEF Infos
<1>4. /\ answers' \in [Requests -> [Ids -> Infos \cup {"unasked", "waiting", "failed"}]]
      /\ waitsOn' \in [Requests -> [Ids -> Channels]]
      /\ \A r \in Requests, id \in Ids : answers'[r][id] = "waiting" =>
           /\ answers[r][id] = "waiting" /\ waitsOn'[r][id] = waitsOn[r][id]
           /\ waitsOn[r][id] # NoChannel /\ waitsOn[r][id] # channels[id]
  <2>1. info \in [Ids -> Infos \cup {"failed"}]
    BY <1>3
  <2> HIDE DEF info
  <2> QED
    BY <1>1, <1>2, <2>1, CloseStep
<1>5. started /\ timers = 0 /\ running' = {}
  BY <1>1, LastFetch
<1>6. started' \in BOOLEAN /\ (started' <=> Domain(relayChannels) # {})
  BY <1>1, Zenon
<1>7. TypeOK'
  <2>1. relays' \in [Ids -> Infos \cup {"unknown"}]
    BY <1>1, <1>3 DEF Inv, TypeOK
  <2>2. timers' \in Nat
    BY <1>1, <1>5
  <2> QED
    BY <1>1, <1>4, <1>5, <1>6, <2>1, <2>2 DEF Inv, TypeOK
<1>8. Single'
  <2>1. CASE Domain(relayChannels) # {}
    <3>1. started' /\ timers' = 1
      BY <1>1, <1>5, <1>6, <2>1
    <3> QED
      BY <1>5, <3>1 DEF Single
  <2>2. CASE Domain(relayChannels) = {}
    <3>1. ~started' /\ timers' = 0
      BY <1>1, <1>5, <1>6, <2>2
    <3> QED
      BY <1>5, <3>1 DEF Single
  <2> QED
    BY <2>1, <2>2
<1>9. Domain(relayChannels)' # {} => started'
  BY <1>1, <1>6 DEF Domain
<1>10. WaiterHasOwner'
  BY <1>1, <1>4 DEF Inv, WaiterHasOwner
<1>11. OwnedOnce'
  BY <1>5 DEF OwnedOnce
<1>12. FetchHasWork'
  BY <1>1, <1>5 DEF FetchHasWork, Domain
<1>13. QED
  BY <1>7, <1>8, <1>9, <1>10, <1>11, <1>12 DEF Inv

(* The channels of the query return to the queue, where they replace       *)
(* others, whose receivers fail.                                           *)
LEMMA FetchFailsInv ==
  ASSUME Inv, NEW channels \in running, FetchFails(channels)
  PROVE  Inv'
<1> DEFINE replaced == [id \in Ids |-> IF id \in Domain(channels) THEN relayChannels[id] ELSE NoChannel]
<1>1. /\ alive /\ alive' = alive /\ running' = running \ {channels}
      /\ Close(replaced, AllFailed)
      /\ relays' = relays /\ started' = started
      /\ relayChannels' = Extend(channels)
      /\ timers' = IF Domain(Extend(channels)) # {} THEN timers + 1 ELSE timers
  BY DEF FetchFails, Reschedule, MoreWork
<1>2. /\ channels \in [Ids -> Channels] /\ replaced \in [Ids -> Channels]
      /\ Extend(channels) \in [Ids -> Channels]
  BY DEF Inv, TypeOK, Channels, Extend
<1>3. /\ answers' \in [Requests -> [Ids -> Infos \cup {"unasked", "waiting", "failed"}]]
      /\ waitsOn' \in [Requests -> [Ids -> Channels]]
      /\ \A r \in Requests, id \in Ids : answers'[r][id] = "waiting" =>
           /\ answers[r][id] = "waiting" /\ waitsOn'[r][id] = waitsOn[r][id]
           /\ waitsOn[r][id] # NoChannel /\ waitsOn[r][id] # replaced[id]
  <2>1. AllFailed \in [Ids -> Infos \cup {"failed"}]
    BY DEF AllFailed
  <2> HIDE DEF replaced
  <2> QED
    BY <1>1, <1>2, <2>1, CloseStep
<1>4. started /\ timers = 0 /\ running' = {}
  BY <1>1, LastFetch
<1>5. TypeOK'
  BY <1>1, <1>2, <1>3, <1>4 DEF Inv, TypeOK
<1>6. WaiterHasOwner'
  <2> SUFFICES ASSUME NEW r \in Requests, NEW id \in Ids, answers'[r][id] = "waiting"
               PROVE  waitsOn'[r][id] # NoChannel /\ relayChannels'[id] = waitsOn'[r][id]
    BY DEF WaiterHasOwner
  <2>1. /\ answers[r][id] = "waiting" /\ waitsOn'[r][id] = waitsOn[r][id]
        /\ waitsOn[r][id] # NoChannel /\ waitsOn[r][id] # replaced[id]
    BY <1>3
  <2>2. relayChannels[id] = waitsOn[r][id] \/ channels[id] = waitsOn[r][id]
    BY <1>1, <1>4, <2>1 DEF Inv, WaiterHasOwner
  <2>3. CASE id \in Domain(channels)
    BY <1>1, <2>1, <2>2, <2>3 DEF Extend
  <2>4. CASE id \notin Domain(channels)
    BY <1>1, <2>1, <2>2, <2>4 DEF Extend, Domain
  <2> QED
    BY <2>3, <2>4
<1>7. OwnedOnce'
  BY <1>4 DEF OwnedOnce
<1>8. started'
  BY <1>1, <1>4
<1>9. Domain(relayChannels)' # {} /\ timers' = 1
  <2>1. Domain(channels) # {}
    BY <1>1 DEF Inv, FetchHasWork
  <2>2. Domain(Extend(channels)) # {}
    BY <1>2, <2>1 DEF Domain, Extend
  <2> QED
    BY <1>1, <1>4, <2>2 DEF Domain
<1>10. Single' /\ FetchHasWork'
  BY <1>4, <1>8, <1>9 DEF Single, FetchHasWork
<1>11. QED
  BY <1>5, <1>6, <1>7, <1>8, <1>10 DEF Inv

LEMMA FetchDroppedInv ==
  ASSUME Inv, NEW channels \in running, FetchDropped(channels)
  PROVE  Inv'
<1>1. /\ ~alive /\ alive' = alive /\ running' = running \ {channels}
      /\ Close(channels, AllFailed)
      /\ relays' = relays /\ relayChannels' = relayChannels
      /\ started' = started /\ timers' = timers
  BY DEF FetchDropped
<1>2. channels \in [Ids -> Channels] /\ AllFailed \in [Ids -> Infos \cup {"failed"}]
  BY DEF Inv, TypeOK, AllFailed
<1>3. /\ answers' \in [Requests -> [Ids -> Infos \cup {"unasked", "waiting", "failed"}]]
      /\ waitsOn' \in [Requests -> [Ids -> Channels]]
      /\ \A r \in Requests, id \in Ids : answers'[r][id] = "waiting" =>
           /\ answers[r][id] = "waiting" /\ waitsOn'[r][id] = waitsOn[r][id]
           /\ waitsOn[r][id] # NoChannel /\ waitsOn[r][id] # channels[id]
  BY <1>1, <1>2, CloseStep
<1>4. TypeOK'
  BY <1>1, <1>3 DEF Inv, TypeOK
<1>5. WaiterHasOwner'
  BY <1>1, <1>3 DEF Inv, WaiterHasOwner
<1>6. OwnedOnce'
  BY <1>1 DEF Inv, OwnedOnce
<1>7. QED
  BY <1>1, <1>4, <1>5, <1>6 DEF Inv

LEMMA NextInv ==
  ASSUME Inv, [Next]_vars
  PROVE  Inv'
<1>1. CASE \E r \in Requests, ids \in SUBSET Ids : GetRelays(r, ids)
  BY <1>1, GetRelaysInv
<1>2. CASE \E r \in Requests : Reply(r)
  BY <1>2, ReplyInv
<1>3. CASE fetch_relays
  BY <1>3, FetchRelaysInv
<1>4. CASE QuerySucceeds
  BY <1>4, FetchSucceedsInv DEF QuerySucceeds
<1>5. CASE \E channels \in running : FetchFails(channels) \/ FetchDropped(channels)
  BY <1>5, FetchFailsInv, FetchDroppedInv
<1>6. CASE \E id \in Ids : Expires(id)
  <2>1. PICK id \in Ids : Expires(id)
    BY <1>6
  <2>2. TypeOK'
    BY <2>1 DEF Expires, Inv, TypeOK
  <2> QED
    BY <2>1, <2>2 DEF Expires, Inv, Single, FetchHasWork, WaiterHasOwner, OwnedOnce, Domain
<1>7. CASE UpstreamStops
  <2>1. TypeOK' /\ ~alive'
    BY <1>7 DEF UpstreamStops, Inv, TypeOK
  <2> QED
    BY <1>7, <2>1 DEF UpstreamStops, Inv, WaiterHasOwner, OwnedOnce
<1>8. CASE UNCHANGED vars
  BY <1>8 DEF vars, Inv, TypeOK, Single, FetchHasWork, WaiterHasOwner, OwnedOnce, Domain
<1>9. QED
  BY <1>1, <1>2, <1>3, <1>4, <1>5, <1>6, <1>7, <1>8 DEF Next

(* Every handler and callback keeps the types of the actor's state.        *)
THEOREM TypeCorrect == Spec => []TypeOK
<1>1. Inv => TypeOK
  BY DEF Inv
<1>2. QED
  BY <1>1, InitInv, NextInv, PTL DEF Spec

(* The assumption of fetch_relays, that no other request is running.       *)
THEOREM OneFetchAtATime == Spec => []OneFetch
<1>1. Inv => OneFetch
  <2>1. Cardinality({}) = 0 /\ \A m \in [Ids -> Channels] : Cardinality({m}) = 1
    BY FS_EmptySet, FS_Singleton
  <2> QED
    BY <2>1 DEF Inv, Single, OneFetch
<1>2. QED
  BY <1>1, InitInv, NextInv, PTL DEF Spec

(* No request waits for a channel that nobody will serve.                  *)
THEOREM NobodyStranded == Spec => []WaitersServed
<1>1. Inv => WaitersServed
  <2>1. Inv /\ alive /\ Domain(relayChannels) # {} => timers > 0 \/ running # {}
    BY DEF Inv, Single
  <2> QED
    BY <2>1 DEF Inv, WaiterHasOwner, WaiterHasFetch, WaitersServed
<1>2. QED
  BY <1>1, InitInv, NextInv, PTL DEF Spec

-----------------------------------------------------------------------------
(* The relays among themselves.                                            *)

(* The whole second of a time is less than a second before it.             *)
LEMMA WholeSecond ==
  ASSUME NEW n \in Nat, NEW t \in Nat \ {0}
  PROVE  /\ (n \div t) * t \in Nat
         /\ (n \div t) * t <= n /\ n <= (n \div t) * t + t - 1
<1>1. n \div t \in Nat /\ n % t \in 0 .. t - 1 /\ n = t * (n \div t) + (n % t)
  OBVIOUS
<1> DEFINE q == n \div t
           m == n % t
<1>2. q \in Nat /\ m \in 0 .. t - 1 /\ n = t * q + m
  BY <1>1
<1> HIDE DEF q, m
<1>3. t * q = q * t /\ q * t \in Nat
  BY <1>2
<1>4. q * t <= n /\ n <= q * t + t - 1
  BY <1>2, <1>3
<1> QED
  BY <1>3, <1>4 DEF q

(* Secrets that differ have public keys that differ.                       *)
LEMMA KeysDiffer ==
  ASSUME NEW s, NEW t, PublicOf(s) = PublicOf(t)
  PROVE  s = t
<1>1. PublicOf(s).of = s /\ PublicOf(t).of = t
  BY DEF PublicOf
<1> QED
  BY <1>1

(* A secret that is saved is the one that is loaded.                       *)
LEMMA SavedSecret ==
  ASSUME NEW secret, NEW alternate \in BOOLEAN
  PROVE  secret_from_str(secret_to_string(secret, alternate)).secret = secret
BY DEF secret_from_str, secret_to_string, Encoded

(* A version that was read is supported.                                   *)
LEMMA VersionsSupported ==
  ASSUME NEW Parts, NEW parts \in Seq(Parts), MaxU8 \in Nat, NEW version \in version_from_str(parts)
  PROVE  supported(version)
<1>1. /\ Len(parts) >= 3 /\ Len(parts) \in Nat
      /\ \A n \in 1 .. 3 : parts[n] \in 0 .. MaxU8
      /\ version = SubSeq(parts, 1, 3)
  BY DEF version_from_str
<1>2. \A n \in 1 .. 3 : version[n] = parts[n]
  BY <1>1
<1>3. \A n \in 1 .. 3 : NoVersion[n] = 0
  BY DEF NoVersion
<1>4. \A n \in 1 .. 3 : ~(version[n] < NoVersion[n])
  BY <1>1, <1>2, <1>3
<1> QED
  BY <1>4 DEF supported, Older

(* What a registration is: who takes part, and when. The times are in      *)
(* order, and the answer may have any age or is limited to one.            *)
IsRegistration(r) ==
  /\ r.sent \in Nat /\ r.asked \in Nat /\ r.answered \in Nat /\ r.received \in Nat
  /\ r.sent <= r.asked /\ r.asked <= r.answered /\ r.answered <= r.received
  /\ r.max_age = {} \/ \E age \in Nat : r.max_age = {age}
  /\ r.json \in BOOLEAN /\ r.alternate \in BOOLEAN

(* What upstream does with the request.                                    *)
LEMMA RequestRead ==
  ASSUME NEW relay, NEW max_age, NEW sent, NEW asked
  PROVE  LET request == RegisterRequest(relay)
             unpacked == bootstrap_unpack(request, sign(relay.secret, request, sent), max_age, asked)
         IN  IF expired(SignatureHeader(sent), max_age, asked)
             THEN unpacked = [is |-> "SignatureExpired"] ELSE unpacked = [is |-> "data", data |-> request]
<1> DEFINE request == RegisterRequest(relay)
           signature == sign(relay.secret, request, sent)
<1>1. request.json = TRUE /\ request.public_key = PublicOf(relay.secret)
  BY DEF RegisterRequest
<1> HIDE DEF request
<1>2. /\ signature.by = PublicOf(relay.secret) /\ signature.data = request
      /\ signature.header = SignatureHeader(sent)
  BY DEF sign
<1> HIDE DEF signature
<1>3. verify_meta(request.public_key, request, signature) = {SignatureHeader(sent)}
  BY <1>1, <1>2 DEF verify_meta
<1>4. unpack(request.public_key, request, signature, max_age, asked)
        = IF expired(SignatureHeader(sent), max_age, asked) THEN [is |-> "SignatureExpired"] ELSE [is |-> "data", data |-> request]
  BY <1>1, <1>3 DEF unpack
<1>5. bootstrap_unpack(request, signature, max_age, asked) = unpack(request.public_key, request, signature, max_age, asked)
  BY <1>1 DEF bootstrap_unpack
<1> QED
  BY <1>4, <1>5 DEF request, signature

(* What upstream makes of the response.                                    *)
Answer(r) ==
  LET response == into_response(into_challenge(RegisterRequest(r.relay), r.upstream, r.asked), r.relay.version)
  IN  response_unpack([response EXCEPT !.json = r.json], sign(r.key, response, r.answered), r.secret, r.max_age, r.received)

(* A Relay is registered if and only if the secrets that have signed its   *)
(* token and its request sign the response too, both in time.              *)
LEMMA ResponseRead ==
  ASSUME NEW r, r.json \in BOOLEAN
  PROVE  LET result == Answer(r)
             second == RegisterState(RegisterRequest(r.relay), r.asked).timestamp
         IN  /\ result.is = "registered" <=>
                  /\ r.json /\ r.secret = r.upstream /\ r.key = r.relay.secret
                  /\ ~expired(SignatureHeader(second), r.max_age, r.received)
                  /\ ~expired(SignatureHeader(r.answered), r.max_age, r.received)
             /\ result.is = "registered" =>
                  /\ result.state.public_key = PublicOf(r.relay.secret) /\ result.state.relay_id = r.relay.id
                  /\ result.response.version = r.relay.version
<1> DEFINE request == RegisterRequest(r.relay)
           state == RegisterState(request, r.asked)
           version == r.relay.version
           token == [state |-> state, signed |-> r.upstream]
           response == [json |-> TRUE, relay_id |-> request.relay_id, token |-> token, version |-> version]
           arrived == [response EXCEPT !.json = r.json]
           signature == sign(r.key, response, r.answered)
           result == response_unpack(arrived, signature, r.secret, r.max_age, r.received)
           old == expired(SignatureHeader(state.timestamp), r.max_age, r.received)
           stale == expired(SignatureHeader(r.answered), r.max_age, r.received)
<1>1. result = Answer(r)
  <2>1. into_response(into_challenge(request, r.upstream, r.asked), version) = response
    BY DEF into_response, into_challenge
  <2> QED
    BY <2>1 DEF Answer
<1>2. state.public_key = PublicOf(r.relay.secret) /\ state.relay_id = r.relay.id
  BY DEF RegisterRequest, RegisterState
<1> HIDE DEF request, state
<1>3. /\ arrived.json = r.json /\ arrived.token = token /\ arrived.version = version
      /\ r.json => arrived = response
  <2>1. arrived = [json |-> r.json, relay_id |-> request.relay_id, token |-> token, version |-> version]
    OBVIOUS
  <2> HIDE DEF arrived, token
  <2>2. r.json => r.json = TRUE
    OBVIOUS
  <2> QED
    BY <2>1, <2>2
<1>4. token.state = state /\ token.signed = r.upstream
  OBVIOUS
<1>5. /\ signature.by = PublicOf(r.key) /\ signature.data = response
      /\ signature.header = SignatureHeader(r.answered)
  BY DEF sign
<1>6. old <=> \E age \in r.max_age : state.timestamp + age < r.received
  BY DEF expired, SignatureHeader
<1> HIDE DEF token, response, arrived, signature, old, stale
<1> DEFINE read == token_unpack(token, r.secret, r.max_age, r.received)
<1>7. IF r.upstream = r.secret /\ ~old THEN read = [is |-> "state", state |-> state] ELSE read.is # "state"
  BY <1>4, <1>6 DEF token_unpack
<1>8. CASE r.json /\ r.upstream = r.secret /\ ~old
  <2>1. read.is = "state" /\ read.state = state
    BY <1>7, <1>8
  <2> DEFINE header == verify_meta(state.public_key, arrived, signature)
  <2>2. IF r.key = r.relay.secret THEN header = {SignatureHeader(r.answered)} ELSE header = {}
    BY <1>2, <1>3, <1>5, <1>8, KeysDiffer DEF verify_meta
  <2>3. result = IF header = {} THEN [is |-> "BadSignature"]
                 ELSE IF \E h \in header : expired(h, r.max_age, r.received) THEN [is |-> "SignatureExpired"]
                 ELSE [is |-> "registered", response |-> arrived, state |-> state]
    BY <1>3, <1>8, <2>1 DEF response_unpack
  <2> HIDE DEF header, result
  <2>4. CASE r.key = r.relay.secret
    <3>1. (\E h \in header : expired(h, r.max_age, r.received)) <=> stale
      BY <2>2, <2>4 DEF stale
    <3>2. header # {}
      BY <2>2, <2>4
    <3>3. result = IF stale THEN [is |-> "SignatureExpired"]
                   ELSE [is |-> "registered", response |-> arrived, state |-> state]
      BY <2>3, <3>1, <3>2
    <3>4. /\ result.is = "registered" <=> ~stale
          /\ ~stale => result.response = arrived /\ result.state = state
      BY <3>3
    <3> QED
      BY <1>1, <1>2, <1>3, <1>8, <2>4, <3>4 DEF old, stale, state, request
  <2>5. CASE r.key # r.relay.secret
    <3>1. result.is # "registered"
      BY <2>2, <2>3, <2>5
    <3> QED
      BY <1>1, <2>5, <3>1
  <2> QED
    BY <2>4, <2>5
<1>9. CASE ~(r.json /\ r.upstream = r.secret /\ ~old)
  <2>1. result.is # "registered"
    <3>1. CASE ~r.json
      BY <1>3, <3>1 DEF response_unpack
    <3>2. CASE r.json
      <4>1. read.is # "state"
        BY <1>7, <1>9, <3>2
      <4>2. result = read
        BY <1>3, <3>2, <4>1 DEF response_unpack
      <4>3. read = [is |-> "BadSignature"] \/ read = [is |-> "SignatureExpired"]
        BY <4>1 DEF token_unpack
      <4> QED
        BY <4>2, <4>3
    <3> QED
      BY <3>1, <3>2
  <2> QED
    BY <1>1, <1>9, <2>1 DEF old, state, request
<1> QED
  BY <1>8, <1>9

(* A Relay that answers in time is registered with its own key, id and      *)
(* version, and nobody else is, for all keys, secrets, times and ages: the  *)
(* second that is lost in the token is the only doubt (RegisterRequest,     *)
(* SignedRegisterState, RegisterResponse).                                  *)
THEOREM RegistrationsInTime ==
  ASSUME TicksPerSecond \in Nat \ {0}, MaxU8 \in Nat,
         NEW r, IsRegistration(r),
         NEW Parts, NEW parts \in Seq(Parts), r.relay.version \in version_from_str(parts)
  PROVE  RegistersInTime(r)
<1> DEFINE request == RegisterRequest(r.relay)
           unpacked == bootstrap_unpack(request, sign(r.relay.secret, request, r.sent), r.max_age, r.asked)
           answer == Answer(r)
           late(ticks) == \E age \in r.max_age : ticks > age
           same == r.key = r.relay.secret /\ r.secret = r.upstream /\ r.json
           second == RegisterState(request, r.asked).timestamp
           gone(from, to) == expired(SignatureHeader(from), r.max_age, to)
           result == Registered(r)
<1>1. supported(r.relay.version)
  BY VersionsSupported
<1>3. IF gone(r.sent, r.asked)
      THEN unpacked = [is |-> "SignatureExpired"] ELSE unpacked = [is |-> "data", data |-> request]
  BY RequestRead
<1>4. /\ gone(r.sent, r.asked) <=> late(r.asked - r.sent)
      /\ gone(second, r.received) <=> late(r.received - second)
      /\ gone(r.answered, r.received) <=> late(r.received - r.answered)
      /\ late(r.received - r.answered) => late(r.received - r.asked)
      /\ late(r.received - r.asked) => late(r.received - second)
      /\ late(r.received - second) => late(r.received - r.asked + TicksPerSecond - 1)
  <2>1. second \in Nat /\ second <= r.asked /\ r.asked <= second + TicksPerSecond - 1
    BY WholeSecond DEF IsRegistration, RegisterState
  <2> HIDE DEF second
  <2>2. r.max_age \subseteq Nat
    BY DEF IsRegistration
  <2> QED
    <3> DEFINE max_age == r.max_age
               sent == r.sent
               asked == r.asked
               answered == r.answered
               received == r.received
               ticks == TicksPerSecond
    <3>1. /\ max_age \in SUBSET Nat /\ sent \in Nat /\ asked \in Nat /\ answered \in Nat /\ received \in Nat
          /\ second \in Nat /\ ticks \in Nat
          /\ asked <= answered /\ second <= asked /\ asked <= second + ticks - 1
      BY <2>1, <2>2 DEF IsRegistration
    <3> HIDE DEF max_age, sent, asked, answered, received, ticks
    <3>2. /\ (\E age \in max_age : sent + age < asked) <=> (\E age \in max_age : asked - sent > age)
          /\ (\E age \in max_age : second + age < received) <=> (\E age \in max_age : received - second > age)
          /\ (\E age \in max_age : answered + age < received) <=> (\E age \in max_age : received - answered > age)
          /\ (\E age \in max_age : received - answered > age) => (\E age \in max_age : received - asked > age)
          /\ (\E age \in max_age : received - asked > age) => (\E age \in max_age : received - second > age)
          /\ (\E age \in max_age : received - second > age) => (\E age \in max_age : received - asked + ticks - 1 > age)
      BY <3>1
    <3> QED
      BY <3>2 DEF max_age, sent, asked, answered, received, ticks, expired, SignatureHeader
<1>5. /\ answer.is = "registered" <=> same /\ ~late(r.received - second) /\ ~late(r.received - r.answered)
      /\ answer.is = "registered" =>
           /\ answer.state.public_key = PublicOf(r.relay.secret) /\ answer.state.relay_id = r.relay.id
           /\ answer.response.version = r.relay.version
  <2>1. /\ answer.is = "registered" <=>
             /\ r.json /\ r.secret = r.upstream /\ r.key = r.relay.secret
             /\ ~gone(second, r.received)
             /\ ~gone(r.answered, r.received)
        /\ answer.is = "registered" =>
             /\ answer.state.public_key = PublicOf(r.relay.secret) /\ answer.state.relay_id = r.relay.id
             /\ answer.response.version = r.relay.version
    BY ResponseRead DEF IsRegistration
  <2> HIDE DEF answer, gone, second
  <2> QED
    BY <1>4, <2>1
<1>6. secret_from_str(secret_to_string(r.key, r.alternate)).secret = r.key
  BY SavedSecret DEF IsRegistration
<1>7. CASE late(r.asked - r.sent)
  <2>1. result = [is |-> "SignatureExpired"]
    BY <1>3, <1>4, <1>7 DEF Registered
  <2>2. result.is # "registered"
    BY <2>1
  <2> HIDE DEF result
  <2> QED
    BY <1>7, <2>2 DEF RegistersInTime, result
<1>8. CASE ~late(r.asked - r.sent)
  <2>1. unpacked.is = "data" /\ unpacked.data = request
    BY <1>3, <1>4, <1>8
  <2>2. result = answer
    BY <1>6, <2>1 DEF Registered, Answer
  <2> HIDE DEF result, answer
  <2>3. /\ result.is = "registered" =>
             /\ same /\ ~late(r.asked - r.sent) /\ ~late(r.received - r.asked)
             /\ result.state.public_key = PublicOf(r.relay.secret) /\ result.state.relay_id = r.relay.id
             /\ result.response.version = r.relay.version /\ supported(result.response.version)
        /\ same /\ ~late(r.asked - r.sent) /\ ~late(r.received - r.asked + TicksPerSecond - 1) => result.is = "registered"
    BY <1>1, <1>4, <1>5, <1>8, <2>2
  <2> QED
    BY <2>3 DEF RegistersInTime, result
<1> QED
  BY <1>7, <1>8

-----------------------------------------------------------------------------
(* What of a project's state requests are checked and attributed with.     *)

IsState(state) ==
  /\ DOMAIN state = {"project_id", "disabled", "public_keys", "organization_id", "config", "invalid"}
  /\ state.disabled \in BOOLEAN /\ state.invalid \in BOOLEAN
  /\ DOMAIN state.config = {"allowed_domains", "trusted_relays", "features", "quotas", "rules"}

(* s differs from t in nothing that check_request and scope_request read.  *)
Alike(s, t) ==
  /\ s.project_id = t.project_id /\ s.disabled = t.disabled /\ s.invalid = t.invalid
  /\ s.public_keys = t.public_keys /\ s.organization_id = t.organization_id
  /\ s.config.allowed_domains = t.config.allowed_domains

LEMMA AlikeChecked ==
  ASSUME NEW s, NEW t, Alike(s, t), NEW meta, NEW outdated
  PROVE  /\ check_request(s, meta, outdated) = check_request(t, meta, outdated)
         /\ scope_request(s, meta) = scope_request(t, meta)
<1>1. /\ is_valid_project_id(s, meta.project_id) = is_valid_project_id(t, meta.project_id)
      /\ is_valid_origin(s, meta.origin) = is_valid_origin(t, meta.origin)
      /\ is_matching_key(s, meta.public_key) = is_matching_key(t, meta.public_key)
      /\ check_disabled(s, outdated) = check_disabled(t, outdated)
  BY DEF Alike, is_valid_project_id, is_valid_origin, is_matching_key, check_disabled
<1>2. check_request(s, meta, outdated) = check_request(t, meta, outdated)
  BY <1>1 DEF check_request
<1>3. scope_request(s, meta) = scope_request(t, meta)
  BY DEF Alike, scope_request
<1> QED
  BY <1>2, <1>3

(* A limited and a sanitized state are alike to the full one.              *)
LEMMA LimitedAlike ==
  ASSUME NEW state, IsState(state)
  PROVE  LET limited == LimitedProjectState(state)
         IN  /\ IsState(limited) /\ Alike(limited, state)
             /\ limited.config.quotas = {} /\ limited.config.rules = {}
<1> DEFINE config == LimitedProjectConfig(state.config)
           limited == LimitedProjectState(state)
<1>1. /\ DOMAIN config = DOMAIN state.config
      /\ config.quotas = {} /\ config.rules = {} /\ config.allowed_domains = state.config.allowed_domains
  BY DEF LimitedProjectConfig, IsState
<1>2. limited = [state EXCEPT !.config = config]
  BY DEF LimitedProjectState
<1> HIDE DEF config, limited
<1>3. DOMAIN limited = DOMAIN state
  BY <1>2
<1>4. /\ limited.project_id = state.project_id /\ limited.disabled = state.disabled /\ limited.invalid = state.invalid
      /\ limited.public_keys = state.public_keys /\ limited.organization_id = state.organization_id
      /\ limited.config = config
  BY <1>2 DEF IsState
<1>5. Alike(limited, state)
  BY <1>1, <1>4 DEF Alike
<1>6. IsState(limited)
  BY <1>1, <1>3, <1>4 DEF IsState
<1>7. limited.config.quotas = {} /\ limited.config.rules = {}
  BY <1>1, <1>4
<1> QED
  BY <1>5, <1>6, <1>7 DEF limited

LEMMA SanitizedAlike ==
  ASSUME NEW state, IsState(state)
  PROVE  LET sane == sanitize(state)
         IN  /\ Alike(sane, state)
             /\ sane.config.quotas = {quota \in state.config.quotas : quota.valid}
             /\ sane.config.rules = state.config.rules
<1> DEFINE quotas == {quota \in state.config.quotas : quota.valid}
           config == [state.config EXCEPT !.quotas = quotas]
           sane == sanitize(state)
<1>1. config.quotas = quotas /\ config.rules = state.config.rules /\ config.allowed_domains = state.config.allowed_domains
  BY DEF IsState
<1>2. sane = [state EXCEPT !.config = config]
  BY DEF sanitize, IsState
<1> HIDE DEF config, sane, quotas
<1>3. /\ sane.project_id = state.project_id /\ sane.disabled = state.disabled /\ sane.invalid = state.invalid
      /\ sane.public_keys = state.public_keys /\ sane.organization_id = state.organization_id
      /\ sane.config = config
  BY <1>2 DEF IsState
<1>4. Alike(sane, state)
  BY <1>1, <1>3 DEF Alike
<1> QED
  BY <1>1, <1>3, <1>4 DEF sane, quotas

(* The state that stands for a project that is unknown accepts nothing,    *)
(* and everything when it is hard outdated.                                *)
LEMMA MissingRefuses ==
  ASSUME NEW meta, NEW outdated
  PROVE  /\ check_request(missing, meta, outdated) = "ok" <=> outdated = "HardOutdated"
         /\ missing.config.quotas = {} /\ missing.config.rules = {}
<1>1. /\ missing.disabled = TRUE /\ missing.invalid = FALSE /\ missing.config = DefaultConfig
      /\ missing.project_id = {} /\ missing.public_keys = <<>>
  BY DEF missing
<1>2. missing.config.quotas = {} /\ missing.config.rules = {} /\ missing.config.allowed_domains = {"*"}
  BY <1>1 DEF DefaultConfig
<1>3. check_disabled(missing, outdated) = IF outdated = "HardOutdated" THEN "ok" ELSE "ProjectId"
  BY <1>1 DEF check_disabled
<1>4. /\ is_valid_project_id(missing, meta.project_id) /\ is_valid_origin(missing, meta.origin)
      /\ is_matching_key(missing, meta.public_key)
  BY <1>1, <1>2 DEF is_valid_project_id, is_valid_origin, is_matching_key
<1> QED
  BY <1>2, <1>3, <1>4 DEF check_request

(* How old a state is counts only once it is hard outdated.                *)
LEMMA AgeChecked ==
  ASSUME NEW state, NEW meta, NEW outdated, outdated # "HardOutdated"
  PROVE  check_request(state, meta, outdated) = check_request(state, meta, "Updated")
<1>1. check_disabled(state, outdated) = check_disabled(state, "Updated")
  BY DEF check_disabled
<1> QED
  BY <1>1 DEF check_request

(* A Relay that asks for a project accepts a request if and only if it may  *)
(* see the project and its upstream accepts the request too; with a hard    *)
(* outdated state it leaves it to the upstream whether the project is known *)
(* and enabled. It attributes the request to the same organization, project *)
(* and key, and has no rules and quotas that are not for it, for every      *)
(* state of the project, Relay and request (get_project_configs,            *)
(* LimitedProjectConfig, check_request, check_disabled, scope_request).     *)
THEOREM ChainsAgree ==
  ASSUME NEW relay, relay.internal \in BOOLEAN,
         NEW request, request.full_config \in BOOLEAN, NEW key \in request.public_keys,
         NEW cache, \A up \in cache[key] : IsState(up) /\ cache[key] = {up},
         NEW meta, NEW outdated
  PROVE  AgreesOn(relay, request, cache, key, meta, outdated)
<1> DEFINE full == relay.internal /\ request.full_config
           seen(k) == {state \in cache[k] : HasAccess(relay, state)}
           written(state) == IF full THEN state ELSE LimitedProjectState(state)
           configs == get_project_configs(relay, request, cache)
           received == ReceivedState(configs, key)
<1>1. /\ key \in DOMAIN configs <=> \A state \in seen(key) : ~state.invalid
      /\ key \in DOMAIN configs => configs[key] = {written(state) : state \in seen(key)}
  BY DEF get_project_configs
<1> HIDE DEF configs
<1>2. CASE seen(key) = {} \/ \E state \in seen(key) : state.invalid
  <2>1. received = missing
    BY <1>1, <1>2 DEF ReceivedState
  <2>2. \A up \in cache[key] : ~(HasAccess(relay, up) /\ ~up.invalid)
    BY <1>2
  <2> QED
    BY <2>1, <2>2, MissingRefuses DEF AgreesOn, configs
<1>3. CASE seen(key) # {} /\ \A state \in seen(key) : ~state.invalid
  <2>1. PICK up \in seen(key) : TRUE
    BY <1>3
  <2>2. cache[key] = {up} /\ seen(key) = {up} /\ IsState(up) /\ HasAccess(relay, up)
    BY <2>1
  <2>3. configs[key] = {written(up)} /\ key \in DOMAIN configs
    BY <1>1, <1>3, <2>2
  <2> DEFINE w == written(up)
  <2>4. /\ IsState(w) /\ Alike(w, up)
        /\ ~full => w.config.quotas = {} /\ w.config.rules = {}
    BY <2>2, LimitedAlike DEF Alike
  <2> HIDE DEF w
  <2>5. received = sanitize(w)
    BY <2>3 DEF ReceivedState, w
  <2>6. /\ Alike(sanitize(w), w)
        /\ sanitize(w).config.quotas = {quota \in w.config.quotas : quota.valid}
        /\ sanitize(w).config.rules = w.config.rules
    BY <2>4, SanitizedAlike
  <2>7. Alike(received, up)
    BY <2>4, <2>5, <2>6 DEF Alike
  <2>8. /\ check_request(received, meta, outdated) = check_request(up, meta, outdated)
        /\ scope_request(received, meta) = scope_request(up, meta)
    BY <2>7, AlikeChecked
  <2>9. /\ \A quota \in received.config.quotas : quota.valid
        /\ ~full => received.config.quotas = {} /\ received.config.rules = {}
    BY <2>4, <2>5, <2>6
  <2>10. ~up.invalid /\ (outdated # "HardOutdated" => check_request(up, meta, outdated) = check_request(up, meta, "Updated"))
    BY <1>3, <2>1, AgeChecked
  <2> HIDE DEF received
  <2> QED
    BY <2>2, <2>8, <2>9, <2>10 DEF AgreesOn, received, configs
<1> QED
  BY <1>2, <1>3

(* A request is taken as signed if and only if the Relay that it names is   *)
(* known and has signed this very request with its key, however old the     *)
(* signature is (SignedJson::from_request).                                 *)
THEOREM SignedByWhomItNames ==
  ASSUME NEW id, NEW secret, NEW data, NEW now, NEW body, body.json \in BOOLEAN, NEW known,
         NEW headers, "X-Sentry-Relay-Id" \in DOMAIN headers, "X-Sentry-Relay-Signature" \in DOMAIN headers,
         headers["X-Sentry-Relay-Id"] = id, headers["X-Sentry-Relay-Signature"] = sign(secret, data, now)
  PROVE  LET read == signed_json(headers, body, known)
         IN  /\ read.is = "signed" <=>
                  id \in DOMAIN known /\ known[id].public_key = PublicOf(secret) /\ data = body /\ body.json
             /\ read.is = "signed" => read.inner = body /\ read.relay = known[id]
<1> DEFINE signature == sign(secret, data, now)
           read == signed_json(headers, body, known)
           relay == known[id]
           text == unpack(relay.public_key, body, signature, {}, 0)
<1>1. /\ signature.by = PublicOf(secret) /\ signature.data = data /\ signature.header = SignatureHeader(now)
  BY DEF sign
<1> HIDE DEF signature
<1>2. read = IF id \notin DOMAIN known THEN [is |-> "UnknownRelay"]
             ELSE IF text.is = "data" THEN [is |-> "signed", inner |-> text.data, relay |-> relay] ELSE [is |-> "BadSignature"]
  BY DEF signed_json, signature
<1>3. ~expired(SignatureHeader(now), {}, 0)
  BY DEF expired
<1>4. /\ text.is = "data" <=> relay.public_key = PublicOf(secret) /\ data = body /\ body.json
      /\ text.is = "data" => text.data = body
  BY <1>1, <1>3 DEF unpack, verify_meta
<1> HIDE DEF read, text
<1> QED
  BY <1>2, <1>4 DEF read

=============================================================================
