--------------------------- MODULE UpstreamRelay ----------------------------
(***************************************************************************)
(* The actor UpstreamRelay (relay-server/src/actors/upstream.rs): two      *)
(* queues of HTTP requests, a limit on requests in flight, authentication  *)
(* with the upstream, retries, and the detection of a network outage.      *)
(*                                                                         *)
(* Each action is one handler, or one poll of a future the actor spawned.  *)
(* Timers fire, the upstream answers and grace periods end whenever they   *)
(* like. The client of a request sees its stage: "ok", "network", "error". *)
(***************************************************************************)
EXTENDS Integers, Sequences, FiniteSets

CONSTANTS
  Requests,      \* SendRequest and SendQuery messages, each sent once
  High,          \* those with RequestPriority::High; the others have Low
  Retrying,      \* those with config.retry
  Unbuildable,   \* those whose build_request fails
  Checks,        \* names of CheckUpstreamConnection requests
  RelayModes,    \* the values of config.relay_mode() to start with
  Renews,        \* not processing, and http_auth_interval is set
  HasGrace,      \* config.http_outage_grace_period() is not zero
  MaxInflight,   \* config.max_concurrent_requests()
  MaxBacklog,    \* bound: with as many internal messages pending, no new one or timer is taken
  MaxFaults      \* bound: how often the upstream fails in a behaviour

ASSUME SetsAssumption ==
  /\ High \subseteq Requests /\ Retrying \subseteq Requests /\ Unbuildable \subseteq Requests
  /\ Requests \cap Checks = {}
  /\ {"challenge", "response"} \cap (Requests \cup Checks) = {}
ASSUME FlagsAssumption ==
  RelayModes \subseteq {"Proxy", "Static", "Capture", "Managed"} /\ Renews \in BOOLEAN /\ HasGrace \in BOOLEAN
ASSUME BoundsAssumption == MaxInflight \in Nat \ {0} /\ MaxBacklog \in Nat \ {0} /\ MaxFaults \in Nat

VARIABLES
  mode,          \* config.relay_mode(), which never changes
  auth,          \* auth_state
  authTimers,    \* pending Authenticate messages
  outage,        \* outage_backoff.started()
  firstError,    \* first_error: "none", within the grace period, or older
  checkTimers,   \* pending CheckUpstreamConnection messages
  inflight,      \* num_inflight_requests
  high, low,     \* the queues, the back of the VecDeque first
  stage,         \* exchange -> where it is
  finished,      \* pending TrackedFutureFinished messages
  pumps,         \* pending PumpHttpMessageQueue messages
  faults         \* failures the upstream may still have

vars == <<mode, auth, authTimers, outage, firstError, checkTimers, inflight, high,
          low, stage, finished, pumps, faults>>

(* The requests of the authentication: RegisterRequest, RegisterResponse.  *)
AuthRequests == {"challenge", "response"}
Exchanges    == Requests \cup Checks \cup AuthRequests

AuthStates == {"Unknown", "Registering", "Registered", "Renewing", "Denied"}

(* What handle_http_response tells apart, and handlers of its result: a    *)
(* success, is_network_error, is_permanent_rejection and other errors.     *)
Outcomes == {"ok", "network", "error", "denied"}

(* The TrackedFuture is done, the body of an error response is being read. *)
Body(outcome) ==
  CASE outcome = "network" -> "body_network"
    [] outcome = "error"   -> "body_error"
    [] outcome = "denied"  -> "body_denied"

Bodies == {"body_network", "body_error", "body_denied"}
Stages == {"none", "queued", "sent"} \cup Bodies \cup Outcomes

TypeOK ==
  /\ mode \in RelayModes
  /\ auth \in AuthStates
  /\ authTimers \in Nat
  /\ outage \in BOOLEAN
  /\ firstError \in {"none", "recent", "old"}
  /\ checkTimers \in Nat
  /\ inflight \in Nat
  /\ high \in Seq(High)
  /\ low \in Seq(Requests \ High)
  /\ stage \in [Exchanges -> Stages]
  /\ finished \in Nat
  /\ pumps \in Nat
  /\ faults \in 0 .. MaxFaults

Managed == mode = "Managed"

(* The actor has started; started() notifies Authenticate.                 *)
Init ==
  /\ mode \in RelayModes
  /\ auth = "Unknown"
  /\ authTimers = IF Managed THEN 1 ELSE 0
  /\ outage = FALSE
  /\ firstError = "none"
  /\ checkTimers = 0
  /\ inflight = 0
  /\ high = <<>> /\ low = <<>>
  /\ stage = [x \in Exchanges |-> "none"]
  /\ finished = 0
  /\ pumps = 0
  /\ faults = MaxFaults

-----------------------------------------------------------------------------
(* Predicates of the actor                                                 *)

IsAuthenticated == auth \in {"Registered", "Renewing"}

(* renew_auth_interval().is_some()                                         *)
ShouldRenewAuth(a) == Managed /\ Renews /\ a # "Denied"

(* get_auth_state_error().is_some()                                        *)
AuthStateError ==
  \/ ~Managed
  \/ auth = "Registered" /\ ~ShouldRenewAuth(auth)
  \/ auth = "Denied"

IsReady ==
  /\ ~outage
  /\ IsAuthenticated \/ (auth = "Unknown" /\ ~Managed)

-----------------------------------------------------------------------------
(* The queues                                                              *)

Idle == pumps + finished < MaxBacklog

Fault(outcome) ==
  /\ outcome # "ok" => faults > 0
  /\ faults' = IF outcome = "ok" THEN faults ELSE faults - 1

(* enqueue at the front, where requests wait longest: Handler<SendRequest> *)
(* and Handler<SendQuery>.                                                 *)
SendRequest(r) ==
  /\ stage[r] = "none"
  /\ Idle
  /\ stage' = [stage EXCEPT ![r] = "queued"]
  /\ high' = IF r \in High THEN Append(high, r) ELSE high
  /\ low' = IF r \in High THEN low ELSE Append(low, r)
  /\ pumps' = pumps + 1
  /\ UNCHANGED <<mode, auth, authTimers, outage, firstError, checkTimers, inflight, finished, faults>>

(* The order in which PumpHttpMessageQueue pops requests.                  *)
PopOrder_LowFirst == low \o high

PopOrder == high \o low

Built_All(n) == n

(* How many of the first n requests in PopOrder can be built.              *)
Built(n) == Cardinality({i \in 1 .. n : PopOrder[i] \notin Unbuildable})

SlotFree_OffByOne(n) == inflight + Built(n) <= MaxInflight

(* After n requests have been popped, num_inflight_requests is less than   *)
(* max_inflight_requests; a request that cannot be built takes no slot.    *)
SlotFree(n) == inflight + Built(n) < MaxInflight

(* Handler<PumpHttpMessageQueue>: the loop pops n requests, until no slot  *)
(* is free or the queues are empty. Without is_ready() it does nothing.    *)
Pump ==
  /\ pumps > 0
  /\ pumps' = pumps - 1
  /\ \/ /\ IsReady
        /\ \E n \in 0 .. Len(PopOrder) :
             /\ \A i \in 0 .. n - 1 : SlotFree(i)
             /\ n = Len(PopOrder) \/ ~SlotFree(n)
             /\ stage' = [x \in Exchanges |->
                            IF \A i \in 1 .. n : PopOrder[i] # x THEN stage[x]
                            ELSE IF x \in Unbuildable THEN "error" ELSE "sent"]
             /\ inflight' = inflight + Built(n)
             /\ high' = SubSeq(high, n + 1, Len(high))
             /\ low' = IF n <= Len(high) THEN low ELSE SubSeq(low, n - Len(high) + 1, Len(low))
     \/ ~IsReady /\ UNCHANGED <<stage, inflight, high, low>>
  /\ UNCHANGED <<mode, auth, authTimers, outage, firstError, checkTimers, finished, faults>>

(* Handler<TrackedFutureFinished>                                          *)
TrackedFutureFinished ==
  /\ finished > 0
  /\ finished' = finished - 1
  /\ inflight' = inflight - 1
  /\ pumps' = pumps + 1
  /\ UNCHANGED <<mode, auth, authTimers, outage, firstError, checkTimers, high, low, stage, faults>>

-----------------------------------------------------------------------------
(* Responses                                                               *)

(* handle_network_error starts the checks once, when the grace period is   *)
(* over.                                                                   *)
StartsOutage(first) == first = "old" /\ ~outage

(* handle_network_error                                                    *)
HandleNetworkError ==
  LET first == IF firstError # "none" THEN firstError
               ELSE IF HasGrace THEN "recent" ELSE "old"
  IN  /\ firstError' = first
      /\ outage' = (outage \/ StartsOutage(first))
      /\ checkTimers' = IF StartsOutage(first) THEN checkTimers + 1 ELSE checkTimers

(* reset_network_error                                                     *)
ResetNetworkError ==
  /\ firstError' = "none"
  /\ outage' = FALSE
  /\ UNCHANGED checkTimers

Retry_Lost(r) ==
  /\ stage' = [stage EXCEPT ![r] = "queued"]
  /\ pumps' = pumps + 1
  /\ UNCHANGED <<high, low>>

(* enqueue at the back, to be popped next.                                 *)
Retry(r) ==
  /\ stage' = [stage EXCEPT ![r] = "queued"]
  /\ high' = IF r \in High THEN <<r>> \o high ELSE high
  /\ low' = IF r \in High THEN low ELSE <<r>> \o low
  /\ pumps' = pumps + 1

(* handle_http_response for exchange x, whose response_sender passes the   *)
(* result on unless there is a retry.                                      *)
HandleHttpResponse(x, outcome) ==
  /\ IF outcome = "network" THEN HandleNetworkError ELSE ResetNetworkError
  /\ IF outcome = "network" /\ x \in Retrying
     THEN Retry(x)
     ELSE stage' = [stage EXCEPT ![x] = outcome] /\ UNCHANGED <<high, low, pumps>>

(* The request could not be sent, or its response has a status that needs  *)
(* no look at the body: handle_http_response runs in the same poll as the  *)
(* TrackedFuture.                                                          *)
Respond(x, outcome) ==
  /\ stage[x] = "sent"
  /\ outcome \in {"ok", "network"}
  /\ Fault(outcome)
  /\ finished' = finished + 1
  /\ HandleHttpResponse(x, outcome)
  /\ UNCHANGED <<mode, auth, authTimers, inflight>>

(* The response has an error status: handle_response awaits its body, but  *)
(* the TrackedFuture has finished.                                         *)
RespondStatus(x, outcome) ==
  /\ stage[x] = "sent"
  /\ outcome \in Outcomes \ {"ok"}
  /\ outcome = "denied" => x \in AuthRequests
  /\ Fault(outcome)
  /\ stage' = [stage EXCEPT ![x] = Body(outcome)]
  /\ finished' = finished + 1
  /\ UNCHANGED <<mode, auth, authTimers, outage, firstError, checkTimers, inflight, high, low, pumps>>

BodyRead(x, outcome) ==
  /\ outcome \in Outcomes \ {"ok"}
  /\ stage[x] = Body(outcome)
  /\ HandleHttpResponse(x, outcome)
  /\ UNCHANGED <<mode, auth, authTimers, inflight, finished, faults>>

-----------------------------------------------------------------------------
(* The check of the connection during an outage                            *)

(* Handler<CheckUpstreamConnection>: an Immediate request.                 *)
CheckUpstreamConnection(c) ==
  /\ checkTimers > 0
  /\ Idle
  /\ stage[c] = "none"
  /\ checkTimers' = checkTimers - 1
  /\ stage' = [stage EXCEPT ![c] = "sent"]
  /\ inflight' = inflight + 1
  /\ UNCHANGED <<mode, auth, authTimers, outage, firstError, high, low, finished, pumps, faults>>

AfterCheck_Once(network) ==
  /\ outage' = (outage \/ network)
  /\ UNCHANGED checkTimers
  /\ pumps' = IF network THEN pumps ELSE pumps + 1

(* The network is still down: schedule another check. Otherwise: resume    *)
(* normal messages.                                                        *)
AfterCheck(network) ==
  /\ outage' = (outage \/ network)
  /\ checkTimers' = IF network THEN checkTimers + 1 ELSE checkTimers
  /\ pumps' = IF network THEN pumps ELSE pumps + 1

(* The result of check c, or of reading its body.                          *)
CheckDone(c, outcome) ==
  /\ stage[c] \in Outcomes
  /\ \/ outcome = stage[c] /\ UNCHANGED faults
     \/ stage[c] = "ok" /\ outcome \in {"network", "error"} /\ Fault(outcome)
  /\ AfterCheck(outcome = "network")
  /\ stage' = [stage EXCEPT ![c] = "none"]
  /\ UNCHANGED <<mode, auth, authTimers, firstError, inflight, high, low, finished>>

-----------------------------------------------------------------------------
(* Authentication                                                          *)

(* Handler<Authenticate>: its requests are Immediate.                      *)
Authenticate ==
  /\ authTimers > 0
  /\ Idle
  /\ authTimers' = authTimers - 1
  /\ IF AuthStateError
     THEN UNCHANGED <<auth, stage, inflight>>
     ELSE /\ auth' = IF IsAuthenticated THEN "Renewing" ELSE "Registering"
          /\ stage' = [stage EXCEPT !["challenge"] = "sent"]
          /\ inflight' = inflight + 1
  /\ UNCHANGED <<mode, outage, firstError, checkTimers, high, low, finished, pumps, faults>>

AuthChallenge_Uncounted ==
  /\ stage["challenge"] = "ok"
  /\ stage' = [stage EXCEPT !["challenge"] = "none", !["response"] = "sent"]
  /\ UNCHANGED <<mode, auth, authTimers, outage, firstError, checkTimers, inflight, high, low,
                 finished, pumps, faults>>

(* The challenge has arrived and is answered.                              *)
AuthChallenge ==
  /\ stage["challenge"] = "ok"
  /\ stage' = [stage EXCEPT !["challenge"] = "none", !["response"] = "sent"]
  /\ inflight' = inflight + 1
  /\ UNCHANGED <<mode, auth, authTimers, outage, firstError, checkTimers, high, low,
                 finished, pumps, faults>>

PumpsAfterAuth_None == pumps

(* Resume sending queued requests.                                         *)
PumpsAfterAuth == pumps + 1

AuthRegistered ==
  /\ stage["response"] = "ok"
  /\ auth' = "Registered"
  /\ authTimers' = IF ShouldRenewAuth("Registered") THEN authTimers + 1 ELSE authTimers
  /\ pumps' = PumpsAfterAuth
  /\ stage' = [stage EXCEPT !["response"] = "none"]
  /\ UNCHANGED <<mode, outage, firstError, checkTimers, inflight, high, low, finished, faults>>

RetryAuth_NetworkOnly(outcome) == outcome = "network"

(* The authentication is repeated unless it has been denied for good.      *)
RetryAuth(outcome) == outcome # "denied"

(* Either request has failed, or its response cannot be read.              *)
AuthFailed(x, outcome) ==
  /\ stage[x] \in Outcomes
  /\ \/ outcome # "ok" /\ outcome = stage[x] /\ UNCHANGED faults
     \/ stage[x] = "ok" /\ outcome \in {"network", "error"} /\ Fault(outcome)
  /\ auth' = CASE outcome = "denied"  -> "Denied"
               [] outcome = "error"   -> "Registering"
               [] outcome = "network" -> auth
  /\ authTimers' = IF RetryAuth(outcome) THEN authTimers + 1 ELSE authTimers
  /\ stage' = [stage EXCEPT ![x] = "none"]
  /\ UNCHANGED <<mode, outage, firstError, checkTimers, inflight, high, low, finished, pumps>>

-----------------------------------------------------------------------------
GracePasses ==
  /\ firstError = "recent"
  /\ firstError' = "old"
  /\ UNCHANGED <<mode, auth, authTimers, outage, checkTimers, inflight, high, low, stage,
                 finished, pumps, faults>>

Answers(x) ==
  \E outcome \in Outcomes :
    Respond(x, outcome) \/ RespondStatus(x, outcome) \/ BodyRead(x, outcome)

AuthEnds == \E x \in AuthRequests, outcome \in Outcomes : AuthFailed(x, outcome)

Next ==
  \/ \E r \in Requests : SendRequest(r)
  \/ Pump
  \/ TrackedFutureFinished
  \/ \E x \in Exchanges : Answers(x)
  \/ \E c \in Checks : CheckUpstreamConnection(c) \/ \E outcome \in Outcomes : CheckDone(c, outcome)
  \/ Authenticate \/ AuthChallenge \/ AuthRegistered \/ AuthEnds
  \/ GracePasses

Spec == Init /\ [][Next]_vars

(* Messages and timers are served, and the HTTP client ends every request, *)
(* with its timeout if need be.                                            *)
Fairness ==
  /\ WF_vars(Pump) /\ WF_vars(TrackedFutureFinished)
  /\ \A x \in Exchanges : WF_vars(Answers(x))
  /\ \A c \in Checks : WF_vars(\E outcome \in Outcomes : CheckDone(c, outcome))
  /\ WF_vars(\E c \in Checks : CheckUpstreamConnection(c))
  /\ WF_vars(Authenticate)
  /\ WF_vars(AuthChallenge \/ AuthRegistered \/ AuthEnds)

FairSpec == Spec /\ Fairness

-----------------------------------------------------------------------------
(* The properties.                                                         *)

Elements(q) == {q[i] : i \in DOMAIN q}

(* No element of queue q is in it twice.                                   *)
Once(q) == \A i, j \in DOMAIN q : q[i] = q[j] => i = j

Sent == {x \in Exchanges : stage[x] = "sent"}

(* A request is in its queue, once, exactly while its stage says so: no    *)
(* retry and no pump loses it or sends it twice.                           *)
QueuedOnce ==
  /\ Elements(high) \cup Elements(low) = {r \in Requests : stage[r] = "queued"}
  /\ Once(high) /\ Once(low)

(* num_inflight_requests counts the requests that were sent and those      *)
(* whose TrackedFutureFinished is still in the mailbox, no other: the      *)
(* subtraction never underflows, and a slot is never lost, although the    *)
(* notification and the handling of a response are separate events.        *)
InflightExact ==
  inflight = Cardinality(Sent) + finished

(* Only Immediate requests exceed max_concurrent_requests.                 *)
InflightLimit ==
  Cardinality(Sent \cap Requests) <= MaxInflight

(* The queues, the stages and the count of requests in flight agree.       *)
QueuesExact == TypeOK /\ QueuedOnce /\ InflightExact /\ InflightLimit

(* A check of the connection that will bring the outage to an end, or lead *)
(* to another check.                                                       *)
Checking == checkTimers > 0 \/ \E c \in Checks : stage[c] # "none"

(* While there is an outage, and nothing is sent, a check is under way.    *)
OutageIsChecked == outage => Checking

AuthUnderWay == \E x \in AuthRequests : stage[x] # "none"

(* An Authenticate message is either pending or being handled, never twice *)
(* at a time, until the relay is denied or registered for good; and none   *)
(* of the "programming errors" of get_auth_state_error is ever detected.   *)
OneAuthentication ==
  /\ authTimers > 0 => authTimers = 1 /\ ~AuthUnderWay /\ ~AuthStateError
  /\ ~(stage["challenge"] # "none" /\ stage["response"] # "none")
  /\ Managed /\ auth # "Denied" /\ (auth = "Registered" => Renews) => authTimers = 1 \/ AuthUnderWay

FreeSlot == inflight < MaxInflight /\ Len(high) + Len(low) > 0

(* No wake-up is lost for good: whenever a request could be sent, a pump   *)
(* is pending or will be, at the latest after a check of the connection.   *)
QueueIsPumped == IsReady /\ FreeSlot => pumps > 0 \/ Checking

(* A low priority request is sent only if no high priority request waits.  *)
HighFirst ==
  [][\A r, h \in Requests :
       /\ stage[r] = "queued" /\ stage'[r] = "sent" /\ r \notin High
       /\ stage[h] = "queued" /\ h \in High
       => stage'[h] # "queued"]_vars

(* Every request is answered once the upstream has stopped failing, if it  *)
(* does not deny authentication.                                           *)
EveryRequestAnswered ==
  \A r \in Requests :
    (stage[r] = "queued") ~> (stage[r] \in Outcomes \/ auth = "Denied")

=============================================================================
