-------------------- MODULE UpstreamProjectSourceProofs ---------------------
(***************************************************************************)
(* Proofs about UpstreamProjectSource for every set of keys and requests   *)
(* and every batch size.                                                   *)
(***************************************************************************)
EXTENDS UpstreamProjectSource, FiniteSetTheorems, TLAPS

USE DEF Service!Statuses, Service!Idle

(* One fetch takes at least one channel.                                   *)
LEMMA TotalCountPositive == TotalCount \in Nat /\ TotalCount > 0
<1>1. \A a, b \in Nat : a > 0 /\ b > 0 => a * b \in Nat /\ a * b > 0
  OBVIOUS
<1>2. QED
  BY <1>1, BatchAssumption DEF TotalCount

(* Closing channels preserves the types of what it changes.                *)
LEMMA CloseType ==
  ASSUME TypeOK, NEW sent, NEW fresh, NEW dropped, Close(sent, fresh, dropped)
  PROVE  /\ Service!FetchTypeOK' /\ waitsOn' \in [Requests -> Channels]
         /\ noCache' \subseteq Requests /\ expired' \subseteq Requests
<1>1. Service!FetchTypeOK'
  <2> DEFINE Req == [status : Service!Statuses, no_cache : BOOLEAN, fresh : BOOLEAN]
             ok == Receivers(sent)
             new == Receivers(fresh)
             failed == Receivers(dropped)
  <2>1. ASSUME NEW r \in Requests, NEW b \in BOOLEAN
        PROVE  /\ [reqs[r] EXCEPT !.status = "ok", !.fresh = b] \in Req
               /\ [reqs[r] EXCEPT !.status = "failed"] \in Req
               /\ reqs[r] \in Req
    BY DEF TypeOK, Service!FetchTypeOK
  <2>2. \A r \in Requests : (r \in new) \in BOOLEAN
    OBVIOUS
  <2> HIDE DEF Req, ok, new, failed
  <2>3. Service!Answered(ok, new, failed) \in [Requests -> Req]
    BY <2>1, <2>2 DEF Service!Answered
  <2> QED
    BY <2>3 DEF Close, Service!FetchTypeOK, Req, ok, new, failed
<1>2. QED
  BY <1>1 DEF TypeOK, Close, Channels

(* What every operation preserves: the types of the variables.             *)
THEOREM TypeCorrect == Spec => []TypeOK
<1>1. Init => TypeOK
  <2> SUFFICES ASSUME Init PROVE TypeOK
    OBVIOUS
  <2> USE DEF Init, Channels, Empty, Replies
  <2>1. Service!FetchTypeOK
    BY DEF Service!FetchInit, Service!FetchTypeOK
  <2>2. stateChannels \in [Keys -> Channels] /\ inflight \in [Fetches -> [Keys -> Channels]]
    OBVIOUS
  <2>3. replies \in [Fetches -> [Batches -> Replies]]
    OBVIOUS
  <2> QED
    BY <2>1, <2>2, <2>3 DEF TypeOK
<1>2. TypeOK /\ [Next]_vars => TypeOK'
  <2> SUFFICES ASSUME TypeOK, [Next]_vars PROVE TypeOK'
    OBVIOUS
  <2> USE DEF TypeOK, Service!FetchTypeOK, Channels, Replies, Empty
  <2>1. ASSUME NEW r \in Requests, NEW k \in Keys, NEW nc \in BOOLEAN, Fetch(r, k, nc)
        PROVE  TypeOK'
    BY <2>1 DEF Fetch, Service!FetchProjectState, MustSchedule
  <2>2. ASSUME NEW f \in Fetches, fetch_states(f)
        PROVE  TypeOK'
    <3>1. PICK projects \in SUBSET Domain(stateChannels) :
            /\ stateChannels' = [k \in Keys |->
                                   IF k \in projects THEN NoChannel ELSE stateChannels[k]]
            /\ Close({}, {}, {stateChannels[k] : k \in {j \in projects : Expired(stateChannels[j])}})
            /\ inflight' = [inflight EXCEPT ![f] =
                 [k \in Keys |-> IF k \in projects /\ ~Expired(stateChannels[k])
                                 THEN stateChannels[k] ELSE NoChannel]]
            /\ replies' = [replies EXCEPT ![f] = [b \in Batches |-> "pending"]]
            /\ running' = IF projects = {} THEN running ELSE running \cup {f}
      BY <2>2 DEF fetch_states, Remaining
    <3>2. stateChannels' \in [Keys -> Channels] /\ inflight' \in [Fetches -> [Keys -> Channels]]
      BY <3>1
    <3>3. replies' \in [Fetches -> [Batches -> Replies]] /\ running' \subseteq Fetches
      BY <3>1
    <3>4. timers' \in Nat /\ started' \in BOOLEAN /\ alive' \in BOOLEAN
      BY <2>2 DEF fetch_states, Remaining, TimerFires
    <3>5. /\ Service!FetchTypeOK' /\ waitsOn' \in [Requests -> Channels]
          /\ noCache' \subseteq Requests /\ expired' \subseteq Requests
      BY <3>1, CloseType
    <3> QED
      BY <3>2, <3>3, <3>4, <3>5
  <2>3. ASSUME NEW f \in Fetches, NEW b \in Batches, NEW o \in {"ok", "error"}, Reply(f, b, o)
        PROVE  TypeOK'
    BY <2>3 DEF Reply
  <2>4. ASSUME NEW f \in Fetches, fetch_joined(f)
        PROVE  TypeOK'
    <3>1. stateChannels' \in [Keys -> Channels] /\ inflight' \in [Fetches -> [Keys -> Channels]]
      BY <2>4 DEF fetch_joined, EndOfFetch, Extend
    <3>2. replies' \in [Fetches -> [Batches -> Replies]] /\ running' \subseteq Fetches
      BY <2>4 DEF fetch_joined, EndOfFetch
    <3>3. timers' \in Nat /\ started' \in BOOLEAN /\ alive' \in BOOLEAN
      BY <2>4 DEF fetch_joined, MoreWork
    <3>4. /\ Service!FetchTypeOK' /\ waitsOn' \in [Requests -> Channels]
          /\ noCache' \subseteq Requests /\ expired' \subseteq Requests
      <4>1. PICK sent, fresh, dropped : Close(sent, fresh, dropped)
        BY <2>4 DEF fetch_joined
      <4> QED
        BY <4>1, CloseType
    <3> QED
      BY <3>1, <3>2, <3>3, <3>4
  <2>5. CASE UpstreamStops
    BY <2>5 DEF UpstreamStops
  <2>6. ASSUME NEW f \in Fetches, fetch_dropped(f)
        PROVE  TypeOK'
    BY <2>6 DEF fetch_dropped, Close, Service!Answered, EndOfFetch
  <2>7. ASSUME NEW c \in Requests, DeadlinePasses(c)
        PROVE  TypeOK'
    BY <2>7 DEF DeadlinePasses
  <2>8. ASSUME NEW r \in Requests, Take(r)
        PROVE  TypeOK'
    BY <2>8 DEF Take, Service!TakeAnswer
  <2>9. CASE UNCHANGED vars
    BY <2>9 DEF vars
  <2> QED
    BY <2>1, <2>2, <2>3, <2>4, <2>5, <2>6, <2>7, <2>8, <2>9 DEF Next
<1>3. QED
  BY <1>1, <1>2, PTL DEF Spec

-----------------------------------------------------------------------------
(* The three scheduling invariants support one another: that a fetch finds *)
(* work to do needs NoForgottenChannel, and that a second one is never     *)
(* scheduled needs the backoff flag of OneFetch.                           *)
Scheduling == OneFetch /\ TimerFindsWork /\ NoForgottenChannel

(* fetch_states takes a channel if there is one.                           *)
LEMMA TakesSome ==
  ASSUME NEW D, NEW projects \in SUBSET D, D # {},
         projects # D => Cardinality(projects) = TotalCount
  PROVE  projects # {}
BY TotalCountPositive, FS_EmptySet

(* Never do two fetches run or wait, no timer fires in vain and no channel *)
(* is forgotten, for every number of keys, requests and batches.           *)
THEOREM OneFetchAtATime == Spec => []Scheduled
<1>1. Init => Scheduling
  BY DEF Init, Scheduling, OneFetch, TimerFindsWork, NoForgottenChannel, Domain, Empty
<1>2. TypeOK /\ Scheduling /\ [Next]_vars => Scheduling'
  <2> SUFFICES ASSUME TypeOK, Scheduling, [Next]_vars PROVE Scheduling'
    OBVIOUS
  <2> USE DEF Scheduling, OneFetch, TimerFindsWork, NoForgottenChannel
  <2>1. ASSUME NEW r \in Requests, NEW k \in Keys, NEW nc \in BOOLEAN, Fetch(r, k, nc)
        PROVE  Scheduling'
    <3>1. Domain(stateChannels)' # {}
      <4>1. stateChannels'[k] # NoChannel
        BY <2>1, ChannelAssumption DEF Fetch, TypeOK, Channels
      <4> QED
        BY <4>1 DEF Domain
    <3>2. /\ timers' = IF ~started THEN timers + 1 ELSE timers
          /\ started' = TRUE /\ running' = running /\ alive' = alive
      BY <2>1 DEF Fetch, MustSchedule
    <3>3. CASE started
      BY <3>1, <3>2, <3>3
    <3>4. CASE ~started
      BY <3>1, <3>2, <3>4
    <3> QED
      BY <3>3, <3>4
  <2>2. ASSUME NEW f \in Fetches, fetch_states(f)
        PROVE  Scheduling'
    <3>1. running = {} /\ timers' = 0 /\ started' = started /\ started /\ alive' = alive
      BY <2>2 DEF fetch_states, Remaining, TimerFires, TypeOK
    <3>2. Domain(stateChannels) # {}
      BY <2>2 DEF fetch_states, Remaining, TimerFires
    <3>3. PICK projects \in SUBSET Domain(stateChannels) :
            /\ projects # Domain(stateChannels) => Cardinality(projects) = TotalCount
            /\ running' = IF projects = {} THEN running ELSE running \cup {f}
      BY <2>2 DEF fetch_states, Remaining
    <3>4. running' = {f}
      BY <3>1, <3>2, <3>3, TakesSome
    <3> QED
      BY <3>1, <3>4
  <2>3. ASSUME NEW f \in Fetches, NEW b \in Batches, NEW o \in {"ok", "error"}, Reply(f, b, o)
        PROVE  Scheduling'
    BY <2>3 DEF Reply, Domain
  <2>4. ASSUME NEW f \in Fetches, fetch_joined(f)
        PROVE  Scheduling'
    <3>1. running = {f} /\ running' = {} /\ timers = 0 /\ alive' = alive
      BY <2>4 DEF fetch_joined, EndOfFetch
    <3>2. PICK channels :
            /\ stateChannels' = channels
            /\ timers' = IF Domain(channels) # {} THEN timers + 1 ELSE timers
            /\ started' = (Domain(channels) # {})
      BY <2>4 DEF fetch_joined, MoreWork
    <3>3. Domain(stateChannels)' = Domain(channels)
      BY <3>2 DEF Domain
    <3>4. CASE Domain(channels) = {}
      <4>1. timers' = 0 /\ started' = FALSE
        BY <3>1, <3>2, <3>4
      <4> QED
        BY <3>1, <3>3, <3>4, <4>1
    <3>5. CASE Domain(channels) # {}
      <4>1. timers' = 1
        BY <3>1, <3>2, <3>5
      <4>2. started'
        BY <3>2, <3>5, Zenon
      <4> QED
        BY <3>1, <3>3, <3>5, <4>1, <4>2
    <3> QED
      BY <3>4, <3>5
  <2>5. CASE UpstreamStops
    BY <2>5 DEF UpstreamStops, Domain
  <2>6. ASSUME NEW f \in Fetches, fetch_dropped(f)
        PROVE  Scheduling'
    BY <2>6 DEF fetch_dropped, EndOfFetch, Domain
  <2>7. ASSUME NEW c \in Requests, DeadlinePasses(c)
        PROVE  Scheduling'
    BY <2>7 DEF DeadlinePasses, Domain
  <2>8. ASSUME NEW r \in Requests, Take(r)
        PROVE  Scheduling'
    BY <2>8 DEF Take, Domain
  <2>9. CASE UNCHANGED vars
    BY <2>9 DEF vars, Domain
  <2> QED
    BY <2>1, <2>2, <2>3, <2>4, <2>5, <2>6, <2>7, <2>8, <2>9 DEF Next
<1>3. QED
  BY <1>1, <1>2, TypeCorrect, PTL DEF Spec, Scheduling, Scheduled

-----------------------------------------------------------------------------
(* Nobody is stranded. The invariants ReceiverHasSender and OwnedOnce need *)
(* OneFetch: the channels of two running fetches could not be told apart.  *)

Awaited == \A r \in Requests : reqs[r].status = "waiting" <=> waitsOn[r] # NoChannel

(* Closing channels ends the wait of their receivers and of nobody else.   *)
LEMMA CloseAwaited ==
  ASSUME TypeOK, Awaited, NEW sent, NEW fresh, NEW dropped,
         NoChannel \notin sent \cup dropped, Close(sent, fresh, dropped)
  PROVE  /\ Awaited'
         /\ \A r \in Requests :
              waitsOn'[r] = IF waitsOn[r] \in sent \cup dropped THEN NoChannel ELSE waitsOn[r]
<1>1. \A r \in Requests :
        waitsOn'[r] = IF waitsOn[r] \in sent \cup dropped THEN NoChannel ELSE waitsOn[r]
  BY DEF Close, TypeOK
<1>2. ASSUME NEW r \in Requests
      PROVE  (reqs'[r].status = "waiting" <=> waitsOn'[r] # NoChannel)
  <2>1. reqs'[r] = IF r \in Receivers(sent)
                   THEN [reqs[r] EXCEPT !.status = "ok", !.fresh = (r \in Receivers(fresh))]
                   ELSE IF r \in Receivers(dropped) THEN [reqs[r] EXCEPT !.status = "failed"]
                   ELSE reqs[r]
    BY DEF Close, Service!Answered
  <2>2. reqs[r] \in [status : Service!Statuses, no_cache : BOOLEAN, fresh : BOOLEAN]
    BY DEF TypeOK, Service!FetchTypeOK
  <2>3. reqs'[r].status = IF waitsOn[r] \in sent THEN "ok"
                          ELSE IF waitsOn[r] \in dropped THEN "failed" ELSE reqs[r].status
    BY <2>1, <2>2 DEF Receivers
  <2> QED
    BY <1>1, <2>3 DEF Awaited
<1>3. QED
  BY <1>1, <1>2 DEF Awaited

Ownership == ReceiverHasSender /\ OwnedOnce

LEMMA OwnershipAwaited == Ownership => Awaited
BY DEF Ownership, ReceiverHasSender, Awaited

(* Ownership after a step that closes channels follows from three facts    *)
(* about the maps: what is not closed is still owned, what is owned was    *)
(* not closed, and nothing is owned twice.                                 *)
LEMMA OwnershipAfterClose ==
  ASSUME TypeOK, Ownership, NEW sent, NEW fresh, NEW dropped,
         NoChannel \notin sent \cup dropped, Close(sent, fresh, dropped),
         \A c \in Requests : Owned(c) /\ c \notin sent \cup dropped => Owned(c)',
         \A c \in Requests : Owned(c)' => Owned(c) /\ c \notin sent \cup dropped,
         \A k, j \in Keys :
           stateChannels'[k] # NoChannel /\ stateChannels'[k] = stateChannels'[j] => k = j,
         \A f \in Fetches, k, j \in Keys :
           inflight'[f][k] # NoChannel =>
             /\ f \in running'
             /\ inflight'[f][k] # stateChannels'[j]
             /\ inflight'[f][k] = inflight'[f][j] => k = j
  PROVE  Ownership'
<1>1. /\ Awaited'
      /\ \A r \in Requests :
           waitsOn'[r] = IF waitsOn[r] \in sent \cup dropped THEN NoChannel ELSE waitsOn[r]
  BY CloseAwaited, OwnershipAwaited
<1>2. ASSUME NEW r \in Requests, waitsOn'[r] # NoChannel
      PROVE  Owned(waitsOn[r])' /\ waitsOn'[r] = waitsOn[r]
  <2>1. waitsOn'[r] = waitsOn[r] /\ waitsOn[r] \notin sent \cup dropped
    BY <1>1, <1>2
  <2>2. waitsOn[r] \in Requests
    BY <1>2, <2>1 DEF TypeOK, Channels
  <2>3. Owned(waitsOn[r])
    BY <1>2, <2>1 DEF Ownership, ReceiverHasSender
  <2> QED
    BY <2>1, <2>2, <2>3
<1>3. ReceiverHasSender'
  <2>1. \A r \in Requests : waitsOn'[r] # NoChannel => Owned(waitsOn[r])'
    BY <1>2
  <2> QED
    BY <1>1, <1>2 DEF ReceiverHasSender, Awaited, Owned
<1>4. \A c \in Requests : Owned(c)' => waitsOn'[c] = c
  BY <1>1 DEF Ownership, OwnedOnce
<1>5. OwnedOnce'
  BY <1>4 DEF OwnedOnce
<1>6. QED
  BY <1>3, <1>5 DEF Ownership

(* A new request joins the channel of its key, or creates it.              *)
LEMMA FetchOwnership ==
  ASSUME TypeOK, Ownership, NEW r \in Requests, NEW k \in Keys, NEW nc \in BOOLEAN, Fetch(r, k, nc)
  PROVE  Ownership'
<1> DEFINE c == IF stateChannels[k] = NoChannel THEN r ELSE stateChannels[k]
<1>1. /\ stateChannels' = [stateChannels EXCEPT ![k] = c]
      /\ waitsOn' = [waitsOn EXCEPT ![r] = c]
      /\ inflight' = inflight /\ running' = running
  BY DEF Fetch
<1>2. /\ reqs[r].status = "idle" /\ reqs'[r].status = "waiting"
      /\ \A q \in Requests \ {r} : reqs'[q] = reqs[q]
  BY DEF Fetch, Service!FetchProjectState, TypeOK, Service!FetchTypeOK
<1>3. waitsOn[r] = NoChannel /\ ~Owned(r)
  BY <1>2, ChannelAssumption DEF Ownership, ReceiverHasSender, OwnedOnce
<1>4. c \in Requests /\ c # NoChannel
  BY ChannelAssumption DEF TypeOK, Channels
<1>5. stateChannels'[k] = c /\ \A j \in Keys \ {k} : stateChannels'[j] = stateChannels[j]
  BY <1>1 DEF TypeOK
<1>6. waitsOn'[r] = c /\ \A q \in Requests \ {r} : waitsOn'[q] = waitsOn[q]
  BY <1>1 DEF TypeOK
<1>7. stateChannels[k] # NoChannel => stateChannels' = stateChannels
  BY <1>1 DEF TypeOK
<1> HIDE DEF c
<1>8. \A d \in Requests : Owned(d) => Owned(d)'
  BY <1>1, <1>5, <1>7, ChannelAssumption DEF Owned
<1>9. \A d \in Requests : Owned(d)' => Owned(d) \/ d = r
  BY <1>1, <1>5, <1>7 DEF Owned, c
<1>10. ReceiverHasSender'
  <2>1. \E j \in Keys : stateChannels'[j] = waitsOn'[r]
    BY <1>5, <1>6
  <2>2. ASSUME NEW q \in Requests
        PROVE  /\ reqs'[q].status = "waiting" <=> waitsOn'[q] # NoChannel
               /\ waitsOn'[q] # NoChannel => Owned(waitsOn[q])'
    <3>1. CASE q = r
      BY <1>2, <1>4, <1>6, <2>1, <3>1 DEF Owned
    <3>2. CASE q # r
      <4>1. waitsOn'[q] = waitsOn[q] /\ reqs'[q] = reqs[q]
        BY <1>2, <1>6, <3>2
      <4>2. waitsOn[q] # NoChannel => waitsOn[q] \in Requests /\ Owned(waitsOn[q])
        BY DEF Ownership, ReceiverHasSender, TypeOK, Channels
      <4>3. ASSUME waitsOn[q] # NoChannel PROVE Owned(waitsOn[q])'
        <5>1. PICK d \in Requests : d = waitsOn[q]
          BY <4>2, <4>3
        <5>2. Owned(d)'
          BY <1>8, <4>2, <4>3, <5>1
        <5> QED
          BY <4>1, <5>1, <5>2 DEF Owned
      <4> QED
        BY <4>1, <4>3 DEF Ownership, ReceiverHasSender
    <3> QED
      BY <3>1, <3>2
  <2> QED
    BY <2>2 DEF ReceiverHasSender, Owned
<1>11. \A d \in Requests : Owned(d)' => waitsOn'[d] = d
  <2>1. ASSUME NEW d \in Requests, Owned(d)', d # r PROVE waitsOn'[d] = d
    BY <1>6, <1>9, <2>1 DEF Ownership, OwnedOnce
  <2>2. ASSUME Owned(r)' PROVE c = r
    <3>1. stateChannels[k] # NoChannel => FALSE
      BY <1>1, <1>3, <1>7, <2>2 DEF Owned
    <3> QED
      BY <3>1 DEF c
  <2> QED
    BY <1>6, <2>1, <2>2
<1>12. OwnedOnce'
  <2>1. \A j \in Keys : stateChannels[j] # r
    BY <1>3 DEF Owned
  <2>2. \A f \in Fetches, j \in Keys : inflight[f][j] # r
    BY <1>3, ChannelAssumption DEF Owned, Ownership, OwnedOnce
  <2>3. \A i, j \in Keys :
          stateChannels'[i] # NoChannel /\ stateChannels'[i] = stateChannels'[j] => i = j
    BY <1>5, <2>1 DEF Ownership, OwnedOnce, c
  <2>4. \A f \in Fetches, i, j \in Keys :
          inflight'[f][i] # NoChannel =>
            /\ f \in running'
            /\ inflight'[f][i] # stateChannels'[j]
            /\ inflight'[f][i] = inflight'[f][j] => i = j
    BY <1>1, <1>5, <2>2 DEF Ownership, OwnedOnce, c
  <2> QED
    BY <1>11, <2>3, <2>4 DEF OwnedOnce
<1>13. QED
  BY <1>10, <1>12 DEF Ownership

(* A fetch moves the channels it takes, except those it drops.             *)
LEMMA StatesOwnership ==
  ASSUME TypeOK, Ownership, Scheduling, NEW f \in Fetches, fetch_states(f)
  PROVE  Ownership'
<1>1. PICK projects \in SUBSET Domain(stateChannels) :
        /\ projects # Domain(stateChannels) => Cardinality(projects) = TotalCount
        /\ stateChannels' = [k \in Keys |-> IF k \in projects THEN NoChannel ELSE stateChannels[k]]
        /\ Close({}, {}, {stateChannels[k] : k \in {j \in projects : Expired(stateChannels[j])}})
        /\ inflight' = [inflight EXCEPT ![f] =
             [k \in Keys |-> IF k \in projects /\ ~Expired(stateChannels[k])
                             THEN stateChannels[k] ELSE NoChannel]]
        /\ running' = IF projects = {} THEN running ELSE running \cup {f}
  BY DEF fetch_states, Remaining
<1> DEFINE dropped == {stateChannels[k] : k \in {j \in projects : Expired(stateChannels[j])}}
<1>2. running = {} /\ running' = {f}
  <2>1. running = {} /\ Domain(stateChannels) # {}
    BY DEF fetch_states, Remaining, TimerFires, Scheduling, OneFetch, TimerFindsWork
  <2> QED
    BY <1>1, <2>1, TakesSome
<1>3. \A g \in Fetches, k \in Keys : inflight[g][k] = NoChannel
  BY <1>2 DEF Ownership, OwnedOnce
<1>4. /\ \A k \in Keys : inflight'[f][k] = IF k \in projects /\ ~Expired(stateChannels[k])
                                          THEN stateChannels[k] ELSE NoChannel
      /\ \A g \in Fetches \ {f}, k \in Keys : inflight'[g][k] = NoChannel
  BY <1>1, <1>3 DEF TypeOK
<1>5. \A k \in Keys : stateChannels'[k] = IF k \in projects THEN NoChannel ELSE stateChannels[k]
  BY <1>1
<1>6. projects \subseteq Keys /\ \A k \in projects : stateChannels[k] # NoChannel
  BY <1>1 DEF Domain
<1>7. NoChannel \notin {} \cup dropped
  BY <1>6
<1>8. \A k, j \in Keys : stateChannels[k] # NoChannel /\ stateChannels[k] = stateChannels[j] => k = j
  BY DEF Ownership, OwnedOnce
<1>9. \A c \in Requests : Owned(c) <=> \E k \in Keys : stateChannels[k] = c
  BY <1>2 DEF Owned
<1>10. \A c \in Requests : Owned(c)' <=> \/ \E k \in Keys : stateChannels'[k] = c
                                         \/ \E k \in Keys : inflight'[f][k] = c
  BY <1>2 DEF Owned
<1>11. \A c \in Requests : Owned(c) /\ c \notin {} \cup dropped => Owned(c)'
  BY <1>4, <1>5, <1>6, <1>9, <1>10
<1>12. \A c \in Requests : Owned(c)' => Owned(c) /\ c \notin {} \cup dropped
  BY <1>4, <1>5, <1>6, <1>8, <1>9, <1>10, ChannelAssumption
<1>13. \A k, j \in Keys :
         stateChannels'[k] # NoChannel /\ stateChannels'[k] = stateChannels'[j] => k = j
  BY <1>5, <1>8
<1>14. \A g \in Fetches, k, j \in Keys :
         inflight'[g][k] # NoChannel =>
           /\ g \in running'
           /\ inflight'[g][k] # stateChannels'[j]
           /\ inflight'[g][k] = inflight'[g][j] => k = j
  BY <1>2, <1>4, <1>5, <1>8
<1> HIDE DEF dropped
<1>15. Close({}, {}, dropped)
  BY <1>1 DEF dropped
<1>16. QED
  BY <1>7, <1>11, <1>12, <1>13, <1>14, <1>15, OwnershipAfterClose

(* The end of a fetch: it answers or puts back the channels it owns, and   *)
(* drops those in state_channels that it replaces.                         *)
LEMMA JoinedOwnership ==
  ASSUME TypeOK, Ownership, Scheduling, NEW f \in Fetches, fetch_joined(f)
  PROVE  Ownership'
<1> DEFINE back == {k \in Domain(inflight[f]) : replies[f][BatchOf(inflight[f], k)] = "error"}
           done == Domain(inflight[f]) \ back
           replaced == {k \in back : stateChannels[k] # NoChannel}
           sent == {inflight[f][k] : k \in done}
           fresh == {inflight[f][k] : k \in {j \in done : QueryNoCache(f, BatchOf(inflight[f], j))}}
           dropped == {stateChannels[k] : k \in replaced}
<1>1. /\ stateChannels' = [k \in Keys |-> IF k \in back THEN inflight[f][k] ELSE stateChannels[k]]
      /\ Close(sent, fresh, dropped)
      /\ inflight' = [inflight EXCEPT ![f] = Empty]
      /\ running' = running \ {f}
  BY DEF fetch_joined, Extend, EndOfFetch
<1>2. running = {f} /\ running' = {}
  BY <1>1 DEF fetch_joined, Scheduling, OneFetch
<1>3. back \cup done = Domain(inflight[f]) /\ back \cap done = {}
  OBVIOUS
<1> HIDE DEF back, done, fresh
<1>4. \A g \in Fetches, k \in Keys : inflight'[g][k] = NoChannel
  BY <1>1, <1>2 DEF TypeOK, Empty, Ownership, OwnedOnce
<1>5. \A k \in Keys : stateChannels'[k] = IF k \in back THEN inflight[f][k] ELSE stateChannels[k]
  BY <1>1
<1>6. \A k \in Keys : k \in back \/ k \in done <=> inflight[f][k] # NoChannel
  BY <1>3 DEF Domain
<1>7. back \subseteq Keys /\ done \subseteq Keys
  BY <1>3 DEF Domain
<1>8. NoChannel \notin sent \cup dropped
  BY <1>6, <1>7
<1>9. \A k, j \in Keys : stateChannels[k] # NoChannel /\ stateChannels[k] = stateChannels[j] => k = j
  BY DEF Ownership, OwnedOnce
<1>10. \A k, j \in Keys : inflight[f][k] # NoChannel =>
         inflight[f][k] # stateChannels[j] /\ (inflight[f][k] = inflight[f][j] => k = j)
  BY DEF Ownership, OwnedOnce
<1>11. \A c \in Requests : Owned(c) <=> \/ \E k \in Keys : stateChannels[k] = c
                                        \/ \E k \in Keys : inflight[f][k] = c
  BY <1>2 DEF Owned
<1>12. \A c \in Requests : Owned(c)' <=> \E k \in Keys : stateChannels'[k] = c
  BY <1>2 DEF Owned
<1>13. \A c \in Requests : Owned(c) /\ c \notin sent \cup dropped => Owned(c)'
  BY <1>5, <1>6, <1>11, <1>12, ChannelAssumption
<1>14. \A c \in Requests : Owned(c)' => Owned(c) /\ c \notin sent \cup dropped
  <2>1. ASSUME NEW c \in Requests, NEW k \in Keys, stateChannels'[k] = c
        PROVE  Owned(c) /\ c \notin sent /\ c \notin dropped
    <3>1. CASE k \in back
      <4>1. c = inflight[f][k] /\ c # NoChannel
        BY <1>5, <2>1, <3>1, ChannelAssumption
      <4>2. Owned(c)
        BY <1>11, <4>1
      <4>3. c \notin dropped
        BY <1>7, <1>10, <4>1
      <4>4. c \notin sent
        BY <1>3, <1>7, <1>10, <3>1, <4>1
      <4> QED
        BY <4>2, <4>3, <4>4
    <3>2. CASE k \notin back
      <4>1. c = stateChannels[k] /\ c # NoChannel
        BY <1>5, <2>1, <3>2, ChannelAssumption
      <4>2. Owned(c)
        BY <1>11, <4>1
      <4>3. c \notin dropped
        BY <1>7, <1>9, <3>2, <4>1
      <4>4. c \notin sent
        BY <1>6, <1>7, <1>10, <4>1
      <4> QED
        BY <4>2, <4>3, <4>4
    <3> QED
      BY <3>1, <3>2
  <2> QED
    BY <1>12, <2>1
<1>15. \A k, j \in Keys :
         stateChannels'[k] # NoChannel /\ stateChannels'[k] = stateChannels'[j] => k = j
  BY <1>5, <1>6, <1>9, <1>10
<1> HIDE DEF sent, dropped
<1>16. QED
  BY <1>1, <1>4, <1>8, <1>13, <1>14, <1>15, OwnershipAfterClose

(* A fetch that ends with a MailboxError drops its channels.               *)
LEMMA DroppedOwnership ==
  ASSUME TypeOK, Ownership, Scheduling, NEW f \in Fetches, fetch_dropped(f)
  PROVE  Ownership'
<1> DEFINE dropped == {inflight[f][k] : k \in Domain(inflight[f])}
<1>1. /\ stateChannels' = stateChannels
      /\ Close({}, {}, dropped)
      /\ inflight' = [inflight EXCEPT ![f] = Empty]
      /\ running = {f} /\ running' = {}
  BY DEF fetch_dropped, EndOfFetch, Scheduling, OneFetch
<1>2. \A g \in Fetches, k \in Keys : inflight'[g][k] = NoChannel
  BY <1>1 DEF TypeOK, Empty, Ownership, OwnedOnce
<1>3. \A c : c \in dropped <=> c # NoChannel /\ \E k \in Keys : inflight[f][k] = c
  BY DEF Domain
<1> HIDE DEF dropped
<1>4. \A c \in Requests : Owned(c) <=> \/ \E k \in Keys : stateChannels[k] = c
                                       \/ \E k \in Keys : inflight[f][k] = c
  BY <1>1 DEF Owned
<1>5. \A c \in Requests : Owned(c)' <=> \E k \in Keys : stateChannels[k] = c
  BY <1>1 DEF Owned
<1>6. \A k, j \in Keys : inflight[f][k] # NoChannel => inflight[f][k] # stateChannels[j]
  BY DEF Ownership, OwnedOnce
<1>7. \A c \in Requests : Owned(c) /\ c \notin {} \cup dropped => Owned(c)'
  BY <1>3, <1>4, <1>5, ChannelAssumption
<1>8. \A c \in Requests : Owned(c)' => Owned(c) /\ c \notin {} \cup dropped
  BY <1>3, <1>4, <1>5, <1>6, ChannelAssumption
<1>9. \A k, j \in Keys :
        stateChannels'[k] # NoChannel /\ stateChannels'[k] = stateChannels'[j] => k = j
  BY <1>1 DEF Ownership, OwnedOnce
<1>10. NoChannel \notin {} \cup dropped
  BY <1>3
<1>11. QED
  BY <1>1, <1>2, <1>7, <1>8, <1>9, <1>10, OwnershipAfterClose

(* Every waiting request holds the receiver of a channel that is owned,    *)
(* and owned once, for every number of keys, requests and batches.         *)
THEOREM NobodyStranded == Spec => []ChannelsOwned
<1>1. Init => Ownership
  BY ChannelAssumption DEF Init, Ownership, ReceiverHasSender, OwnedOnce, Owned, Empty, Service!FetchInit
<1>2. TypeOK /\ Scheduling /\ Ownership /\ [Next]_vars => Ownership'
  <2> SUFFICES ASSUME TypeOK, Scheduling, Ownership, [Next]_vars PROVE Ownership'
    OBVIOUS
  <2> USE DEF Ownership, ReceiverHasSender, OwnedOnce, Owned
  <2>1. ASSUME NEW f \in Fetches, NEW b \in Batches, NEW o \in {"ok", "error"}, Reply(f, b, o)
        PROVE  Ownership'
    BY <2>1 DEF Reply
  <2>2. CASE UpstreamStops
    BY <2>2 DEF UpstreamStops
  <2>3. ASSUME NEW c \in Requests, DeadlinePasses(c)
        PROVE  Ownership'
    BY <2>3 DEF DeadlinePasses
  <2>4. ASSUME NEW r \in Requests, Take(r)
        PROVE  Ownership'
    <3>1. \A q \in Requests : reqs'[q].status = "waiting" <=> reqs[q].status = "waiting"
      BY <2>4 DEF Take, Service!TakeAnswer, TypeOK, Service!FetchTypeOK
    <3>2. UNCHANGED <<waitsOn, stateChannels, running, inflight>>
      BY <2>4 DEF Take
    <3> QED
      BY <3>1, <3>2
  <2>5. CASE UNCHANGED vars
    BY <2>5 DEF vars
  <2> QED
    BY <2>1, <2>2, <2>3, <2>4, <2>5, FetchOwnership, StatesOwnership, JoinedOwnership,
       DroppedOwnership DEF Next
<1>3. QED
  BY <1>1, <1>2, TypeCorrect, OneFetchAtATime, PTL DEF Spec, Ownership, Scheduling, Scheduled, ChannelsOwned

-----------------------------------------------------------------------------
(* The source implements FetchService.                                     *)

(* The no_cache flag of a request reaches the channel it waits on.         *)
FlagOnChannel ==
  \A r \in Requests : reqs[r].status = "waiting" /\ reqs[r].no_cache => waitsOn[r] \in noCache

LEMMA CloseFlag ==
  ASSUME TypeOK, Awaited, FlagOnChannel, NEW sent, NEW fresh, NEW dropped,
         NoChannel \notin sent \cup dropped, Close(sent, fresh, dropped)
  PROVE  FlagOnChannel'
<1> SUFFICES ASSUME NEW r \in Requests, reqs'[r].status = "waiting", reqs'[r].no_cache
             PROVE  waitsOn'[r] \in noCache'
  BY DEF FlagOnChannel
<1>1. waitsOn[r] \notin sent \cup dropped /\ waitsOn'[r] = waitsOn[r]
  BY CloseAwaited DEF Awaited
<1>2. reqs'[r] = reqs[r]
  BY <1>1 DEF Close, Service!Answered, Receivers
<1>3. waitsOn[r] \in noCache
  BY <1>2 DEF FlagOnChannel
<1>4. QED
  BY <1>1, <1>3 DEF Close

(* Closing channels answers waiting requests, and those with no_cache from *)
(* a query with no_cache if their channel is among the fresh ones.         *)
LEMMA CloseAnswers ==
  ASSUME TypeOK, Awaited, NEW sent, NEW fresh, NEW dropped,
         NoChannel \notin sent \cup dropped, Close(sent, fresh, dropped),
         fresh \subseteq sent, sent \cap dropped = {},
         \A r \in Requests : waitsOn[r] \in sent /\ reqs[r].no_cache => waitsOn[r] \in fresh
  PROVE  Service!Answer \/ reqs' = reqs
<1> DEFINE ok == Receivers(sent)
           new == Receivers(fresh)
           failed == Receivers(dropped)
<1>1. reqs' = Service!Answered(ok, new, failed)
  BY DEF Close
<1>2. ok \in SUBSET Service!Waiting /\ failed \in SUBSET Service!Waiting
  BY DEF Receivers, Service!Waiting, Awaited
<1>3. ok \cap failed = {} /\ new \in SUBSET ok
  BY DEF Receivers
<1>4. {r \in ok : reqs[r].no_cache} \subseteq new
  BY DEF Receivers
<1> HIDE DEF ok, new, failed
<1>5. CASE ok \cup failed = {}
  <2>1. Service!Answered(ok, new, failed) = [r \in Requests |-> reqs[r]]
    BY <1>5 DEF Service!Answered
  <2> QED
    BY <1>1, <2>1 DEF TypeOK, Service!FetchTypeOK
<1>6. CASE ok \cup failed # {}
  BY <1>1, <1>2, <1>3, <1>4, <1>6 DEF Service!Answer
<1>7. QED
  BY <1>5, <1>6

(* What a step owes to the proof of the refinement.                        *)
Implemented == FlagOnChannel' /\ [Service!FetchNext]_reqs

LEMMA CloseImplemented ==
  ASSUME TypeOK, Awaited, FlagOnChannel, NEW sent, NEW fresh, NEW dropped,
         NoChannel \notin sent \cup dropped, Close(sent, fresh, dropped),
         fresh \subseteq sent, sent \cap dropped = {},
         \A r \in Requests : waitsOn[r] \in sent /\ reqs[r].no_cache => waitsOn[r] \in fresh
  PROVE  Implemented
BY CloseFlag, CloseAnswers DEF Implemented, Service!FetchNext

LEMMA FetchImplemented ==
  ASSUME TypeOK, Ownership, FlagOnChannel,
         NEW r \in Requests, NEW k \in Keys, NEW nc \in BOOLEAN, Fetch(r, k, nc)
  PROVE  Implemented
<1> DEFINE c == IF stateChannels[k] = NoChannel THEN r ELSE stateChannels[k]
<1>1. [Service!FetchNext]_reqs
  BY DEF Fetch, Service!FetchNext
<1>2. /\ waitsOn'[r] = c /\ \A q \in Requests \ {r} : waitsOn'[q] = waitsOn[q]
      /\ noCache' = IF nc THEN noCache \cup {c} ELSE noCache
  BY DEF Fetch, TypeOK
<1>3. reqs'[r].no_cache = nc /\ \A q \in Requests \ {r} : reqs'[q] = reqs[q]
  BY DEF Fetch, Service!FetchProjectState, TypeOK, Service!FetchTypeOK
<1>4. noCache \subseteq noCache'
  BY <1>2
<1>5. nc => c \in noCache'
  BY <1>2
<1> HIDE DEF c
<1>6. FlagOnChannel'
  BY <1>2, <1>3, <1>4, <1>5 DEF FlagOnChannel
<1>7. QED
  BY <1>1, <1>6 DEF Implemented

LEMMA StatesImplemented ==
  ASSUME TypeOK, Ownership, FlagOnChannel, NEW f \in Fetches, fetch_states(f)
  PROVE  Implemented
<1>1. PICK projects \in SUBSET Domain(stateChannels) :
        Close({}, {}, {stateChannels[k] : k \in {j \in projects : Expired(stateChannels[j])}})
  BY DEF fetch_states, Remaining
<1> DEFINE dropped == {stateChannels[k] : k \in {j \in projects : Expired(stateChannels[j])}}
<1>2. NoChannel \notin {} \cup dropped
  BY <1>1 DEF Domain
<1> HIDE DEF dropped
<1>3. Close({}, {}, dropped)
  BY <1>1 DEF dropped
<1>4. QED
  BY <1>2, <1>3, OwnershipAwaited, CloseImplemented

(* The batches of a fetch mix channels with and without no_cache; a query  *)
(* has no_cache if one of its channels has it.                             *)
LEMMA JoinedImplemented ==
  ASSUME TypeOK, Ownership, FlagOnChannel, NEW f \in Fetches, fetch_joined(f)
  PROVE  Implemented
<1> DEFINE back == {k \in Domain(inflight[f]) : replies[f][BatchOf(inflight[f], k)] = "error"}
           done == Domain(inflight[f]) \ back
           replaced == {k \in back : stateChannels[k] # NoChannel}
           sent == {inflight[f][k] : k \in done}
           asked == {j \in done : QueryNoCache(f, BatchOf(inflight[f], j))}
           fresh == {inflight[f][k] : k \in asked}
           dropped == {stateChannels[k] : k \in replaced}
<1>1. Close(sent, fresh, dropped)
  BY DEF fetch_joined
<1>2. \A k \in done : inflight[f][k] \in noCache => k \in asked
  BY DEF QueryNoCache, Batch
<1>3. done \subseteq Domain(inflight[f]) /\ back \subseteq Domain(inflight[f])
  OBVIOUS
<1> HIDE DEF back, done
<1>4. NoChannel \notin sent \cup dropped
  BY <1>3 DEF Domain
<1>5. sent \cap dropped = {}
  BY <1>3 DEF Domain, Ownership, OwnedOnce
<1>6. fresh \subseteq sent
  OBVIOUS
<1> HIDE DEF asked
<1>7. \A r \in Requests : waitsOn[r] \in sent /\ reqs[r].no_cache => waitsOn[r] \in fresh
  <2> SUFFICES ASSUME NEW r \in Requests, waitsOn[r] \in sent, reqs[r].no_cache
               PROVE  waitsOn[r] \in fresh
    OBVIOUS
  <2>1. PICK k \in done : waitsOn[r] = inflight[f][k]
    OBVIOUS
  <2>2. waitsOn[r] \in noCache
    BY <1>4, OwnershipAwaited DEF Awaited, FlagOnChannel
  <2> QED
    BY <1>2, <2>1, <2>2
<1> HIDE DEF sent, fresh, dropped
<1>8. QED
  BY <1>1, <1>4, <1>5, <1>6, <1>7, OwnershipAwaited, CloseImplemented

LEMMA DroppedImplemented ==
  ASSUME TypeOK, Ownership, FlagOnChannel, NEW f \in Fetches, fetch_dropped(f)
  PROVE  Implemented
<1> DEFINE dropped == {inflight[f][k] : k \in Domain(inflight[f])}
<1>1. Close({}, {}, dropped) /\ NoChannel \notin {} \cup dropped
  BY DEF fetch_dropped, Domain
<1> HIDE DEF dropped
<1>2. QED
  BY <1>1, OwnershipAwaited, CloseImplemented

(* Every step of the source is a step of FetchService or none of its       *)
(* callers' business: each answer is given once, and an Ok for a request   *)
(* with no_cache comes from a query with no_cache.                         *)
THEOREM Refinement == Spec => ImplementsService
<1>1. Init => FlagOnChannel /\ Service!FetchInit
  BY DEF Init, FlagOnChannel, Service!FetchInit
<1>2. TypeOK /\ Ownership /\ FlagOnChannel /\ [Next]_vars => Implemented
  <2> SUFFICES ASSUME TypeOK, Ownership, FlagOnChannel, [Next]_vars PROVE Implemented
    OBVIOUS
  <2> USE DEF Implemented, FlagOnChannel
  <2>1. ASSUME NEW f \in Fetches, NEW b \in Batches, NEW o \in {"ok", "error"}, Reply(f, b, o)
        PROVE  Implemented
    BY <2>1 DEF Reply
  <2>2. CASE UpstreamStops
    BY <2>2 DEF UpstreamStops
  <2>3. ASSUME NEW c \in Requests, DeadlinePasses(c)
        PROVE  Implemented
    BY <2>3 DEF DeadlinePasses
  <2>4. ASSUME NEW r \in Requests, Take(r)
        PROVE  Implemented
    <3>1. \A q \in Requests : reqs'[q].status = "waiting" => reqs'[q] = reqs[q]
      BY <2>4 DEF Take, Service!TakeAnswer, TypeOK, Service!FetchTypeOK
    <3>2. waitsOn' = waitsOn /\ noCache' = noCache /\ Service!FetchNext
      BY <2>4 DEF Take, Service!FetchNext
    <3> QED
      BY <3>1, <3>2
  <2>5. CASE UNCHANGED vars
    BY <2>5 DEF vars
  <2> QED
    BY <2>1, <2>2, <2>3, <2>4, <2>5, FetchImplemented, StatesImplemented, JoinedImplemented,
       DroppedImplemented DEF Next
<1>3. QED
  BY <1>1, <1>2, TypeCorrect, NobodyStranded, PTL
  DEF Spec, Implemented, Ownership, ChannelsOwned, ImplementsService, Service!FetchSafety

-----------------------------------------------------------------------------
(* The bounds on the queries of a fetch.                                   *)

(* The division rounds nothing: TotalCount is a multiple of NumBatches.    *)
LEMMA BatchesAreFull == ActualBatchSize = BatchSize
<1>1. \A b, n \in Nat \ {0} : (b * n) % n = 0 /\ (b * n) \div n = b
  BY SMTT(20)
<1>2. TotalCount % NumBatches = 0 /\ TotalCount \div NumBatches = BatchSize
  BY <1>1, BatchAssumption DEF TotalCount
<1>3. QED
  BY <1>2, TotalCountPositive DEF ActualBatchSize

(* The place of key k in the order of the BTreeMap.                        *)
Place(D, k) == Cardinality({j \in D : j < k})

(* The keys of a finite set have different places, below its cardinality.  *)
LEMMA Places ==
  ASSUME NEW D \in SUBSET Nat, IsFiniteSet(D)
  PROVE  /\ \A k \in D : Place(D, k) \in Nat /\ Place(D, k) < Cardinality(D)
         /\ \A j, k \in D : j # k => Place(D, j) # Place(D, k)
<1>1. ASSUME NEW S \in SUBSET D, NEW T \in SUBSET S, S # T
      PROVE  Cardinality(T) \in Nat /\ Cardinality(S) \in Nat /\ Cardinality(T) < Cardinality(S)
  <2>1. IsFiniteSet(S) /\ IsFiniteSet(T)
    BY FS_Subset
  <2>2. Cardinality(T) \in Nat /\ Cardinality(S) \in Nat
    BY <2>1, FS_CardinalityType
  <2>3. Cardinality(T) <= Cardinality(S) /\ (Cardinality(S) = Cardinality(T) => S = T)
    BY <2>1, FS_Subset
  <2> QED
    BY <1>1, <2>2, <2>3
<1>2. ASSUME NEW k \in D
      PROVE  Place(D, k) \in Nat /\ Place(D, k) < Cardinality(D)
  <2> DEFINE T == {j \in D : j < k}
  <2>1. T \in SUBSET D /\ k \notin T
    OBVIOUS
  <2> HIDE DEF T
  <2>2. D \in SUBSET D /\ D # T
    BY <2>1
  <2>3. Cardinality(T) \in Nat /\ Cardinality(T) < Cardinality(D)
    BY <1>1, <2>1, <2>2
  <2> QED
    BY <2>3 DEF Place, T
<1>3. ASSUME NEW j \in D, NEW k \in D, j < k
      PROVE  Place(D, j) < Place(D, k) /\ Place(D, j) \in Nat /\ Place(D, k) \in Nat
  <2> DEFINE S == {i \in D : i < k}
             T == {i \in D : i < j}
  <2>1. S \in SUBSET D /\ T \in SUBSET S /\ j \in S /\ j \notin T
    <3>1. \A i \in D : i < j => i < k
      BY <1>3
    <3>2. j \in S /\ j \notin T
      BY <1>3
    <3> QED
      BY <3>1, <3>2
  <2> HIDE DEF S, T
  <2>2. S # T
    BY <2>1
  <2>3. Cardinality(T) < Cardinality(S) /\ Cardinality(T) \in Nat /\ Cardinality(S) \in Nat
    BY <1>1, <2>1, <2>2
  <2> QED
    BY <2>3 DEF Place, S, T
<1>4. ASSUME NEW j \in D, NEW k \in D, j # k
      PROVE  Place(D, j) # Place(D, k)
  <2>1. j < k \/ k < j
    BY <1>4
  <2> QED
    BY <1>3, <2>1
<1>5. QED
  BY <1>2, <1>4

(* A fetch takes no more channels than its queries have room for.          *)
FetchBound == \A f \in running : Cardinality(Domain(inflight[f])) <= TotalCount

LEMMA DomainFinite ==
  ASSUME NEW m
  PROVE  Domain(m) \in SUBSET Nat /\ IsFiniteSet(Domain(m))
BY KeysAssumption, FS_Subset DEF Domain

LEMMA BoundedQueries ==
  ASSUME TypeOK, FetchBound
  PROVE  QueryBounds
<1> SUFFICES ASSUME NEW f \in running
             PROVE  /\ Queries(f) \subseteq Batches
                    /\ \A b \in Batches : Cardinality(Batch(f, b)) <= BatchSize
  BY DEF QueryBounds
<1> DEFINE D == Domain(inflight[f])
<1>1. D \in SUBSET Nat /\ IsFiniteSet(D) /\ Cardinality(D) \in Nat /\ Cardinality(D) <= TotalCount
  BY DomainFinite, FS_CardinalityType DEF FetchBound
<1>2. \A k \in D : BatchOf(inflight[f], k) = Place(D, k) \div BatchSize
  BY BatchesAreFull DEF BatchOf, Place
<1>3. Queries(f) = {BatchOf(inflight[f], k) : k \in D}
  BY DEF Queries
<1>4. \A b : Batch(f, b) = {k \in D : BatchOf(inflight[f], k) = b}
  BY DEF Batch
<1> HIDE DEF D
<1>5. /\ \A k \in D : Place(D, k) \in Nat /\ Place(D, k) < Cardinality(D)
      /\ \A j, k \in D : j # k => Place(D, j) # Place(D, k)
  BY <1>1, Places
<1>6. Queries(f) \subseteq Batches
  <2>1. \A p \in Nat : \A s, n \in Nat \ {0} : p < s * n => p \div s \in 0 .. n - 1
    BY SMTT(20)
  <2>2. \A k \in D : Place(D, k) \in Nat /\ Place(D, k) < BatchSize * NumBatches
    BY <1>1, <1>5, TotalCountPositive DEF TotalCount
  <2>3. \A k \in D : Place(D, k) \div BatchSize \in Batches
    BY <2>1, <2>2, BatchAssumption DEF Batches
  <2> QED
    BY <1>2, <1>3, <2>3
<1>7. ASSUME NEW b \in Batches
      PROVE  Cardinality(Batch(f, b)) <= BatchSize
  <2> DEFINE lo == b * BatchSize
             places == lo .. lo + BatchSize - 1
             place == [k \in Batch(f, b) |-> Place(D, k)]
  <2>1. b \in Nat /\ lo \in Nat
    BY BatchAssumption DEF Batches
  <2>2. \A p, c \in Nat : \A s \in Nat \ {0} : p \div s = c => p \in c * s .. c * s + s - 1
    BY SMTT(20)
  <2>3. \A k \in Batch(f, b) : k \in D /\ Place(D, k) \in Nat /\ Place(D, k) \div BatchSize = b
    BY <1>2, <1>4, <1>5
  <2>4. \A k \in Batch(f, b) : Place(D, k) \in places
    BY <2>1, <2>2, <2>3, BatchAssumption
  <2> HIDE DEF lo
  <2>5. IsFiniteSet(places) /\ Cardinality(places) = BatchSize
    <3> DEFINE hi == lo + BatchSize - 1
    <3>1. lo \in Int /\ hi \in Int /\ ~(lo > hi) /\ hi - lo + 1 = BatchSize
      BY <2>1, BatchAssumption
    <3> HIDE DEF hi
    <3>2. IsFiniteSet(lo .. hi) /\ Cardinality(lo .. hi) = hi - lo + 1
      BY <3>1, FS_Interval
    <3> QED
      BY <3>1, <3>2 DEF hi
  <2> HIDE DEF places
  <2>6. place \in Injection(Batch(f, b), places)
    <3>1. place \in [Batch(f, b) -> places]
      BY <2>4
    <3>2. \A j, k \in Batch(f, b) : place[j] = place[k] => j = k
      BY <1>5, <2>3
    <3> QED
      BY <3>1, <3>2 DEF Injection, IsInjective
  <2> HIDE DEF place
  <2> QED
    BY <2>5, <2>6, FS_Injection
<1>8. QED
  BY <1>6, <1>7

(* Queries are bounded, for every batch size, number of concurrent queries *)
(* and number of waiting keys: fetch_states takes at most TotalCount       *)
(* channels, TotalCount is a multiple of the number of batches, and so     *)
(* chunks() cuts them into at most NumBatches chunks of at most BatchSize. *)
THEOREM QueriesBounded == Spec => []QueryBounds
<1>1. Init => FetchBound
  BY DEF Init, FetchBound
<1>2. TypeOK /\ FetchBound /\ [Next]_vars => FetchBound'
  <2> SUFFICES ASSUME TypeOK, FetchBound, [Next]_vars PROVE FetchBound'
    OBVIOUS
  <2>1. ASSUME NEW f \in Fetches, fetch_states(f)
        PROVE  FetchBound'
    <3>1. PICK projects \in SUBSET Domain(stateChannels) :
            /\ Cardinality(projects) <= TotalCount
            /\ inflight' = [inflight EXCEPT ![f] =
                 [k \in Keys |-> IF k \in projects /\ ~Expired(stateChannels[k])
                                 THEN stateChannels[k] ELSE NoChannel]]
            /\ running' = IF projects = {} THEN running ELSE running \cup {f}
      BY <2>1 DEF fetch_states
    <3>2. \A g \in Fetches \ {f} : inflight'[g] = inflight[g]
      BY <3>1 DEF TypeOK
    <3>3. Domain(inflight'[f]) \in SUBSET projects
      BY <3>1 DEF TypeOK, Domain
    <3>4. IsFiniteSet(projects)
      BY DomainFinite, FS_Subset
    <3>5. Cardinality(Domain(inflight'[f])) <= Cardinality(projects)
      BY <3>3, <3>4, FS_Subset
    <3>6. Cardinality(Domain(inflight'[f])) \in Nat /\ Cardinality(projects) \in Nat
      BY <3>4, DomainFinite, FS_CardinalityType
    <3>7. Cardinality(Domain(inflight'[f])) <= TotalCount
      BY <3>1, <3>5, <3>6, TotalCountPositive
    <3>8. \A g \in running' : g \in running \/ g = f
      BY <3>1
    <3> QED
      BY <3>2, <3>7, <3>8 DEF FetchBound, TypeOK, Domain
  <2>2. ASSUME NEW f \in Fetches, EndOfFetch(f)
        PROVE  FetchBound'
    <3>1. \A g \in running' : g \in running /\ inflight'[g] = inflight[g]
      BY <2>2 DEF EndOfFetch, TypeOK
    <3> QED
      BY <3>1 DEF FetchBound, Domain
  <2>3. CASE UNCHANGED <<running, inflight>>
    BY <2>3 DEF FetchBound, Domain
  <2> QED
    BY <2>1, <2>2, <2>3
    DEF Next, vars, Fetch, Reply, fetch_joined, UpstreamStops, fetch_dropped, DeadlinePasses, Take
<1>3. QED
  BY <1>1, <1>2, BoundedQueries, TypeCorrect, PTL DEF Spec
=============================================================================
