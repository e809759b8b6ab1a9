------------------------ MODULE UpstreamRelayProofs -------------------------
(***************************************************************************)
(* Proofs about UpstreamRelay for every set of requests and checks, every  *)
(* configuration and every bound; and about the requests that pass an      *)
(* envelope on through it: the next Relay reads the request of the client. *)
(***************************************************************************)
EXTENDS UpstreamRelay, Requests, FiniteSetTheorems, SequenceTheorems, TLAPS

(* The part of TypeOK that does not depend on the count of requests.       *)
Types ==
  /\ auth \in AuthStates
  /\ authTimers \in Nat
  /\ outage \in BOOLEAN
  /\ firstError \in {"none", "recent", "old"}
  /\ checkTimers \in Nat
  /\ inflight \in Int
  /\ high \in Seq(Requests)
  /\ low \in Seq(Requests)
  /\ stage \in [Exchanges -> Stages]
  /\ finished \in Nat
  /\ pumps \in Nat

(* While the authentication is under way the state says so.                *)
AuthInv ==
  /\ OneAuthentication
  /\ AuthUnderWay => Managed /\ auth \in {"Registering", "Renewing"}

(* Requests of the authentication and checks are Immediate.                *)
LEMMA DisjointExchanges ==
  /\ AuthRequests \cap Requests = {} /\ AuthRequests \cap Checks = {}
  /\ AuthRequests \cap Retrying = {} /\ Checks \cap Retrying = {}
BY SetsAssumption DEF AuthRequests

LEMMA OutcomeStages == Outcomes \subseteq Stages /\ "none" \notin Outcomes /\ "queued" \notin Outcomes
BY DEF Outcomes, Stages

LEMMA BodyStage ==
  ASSUME NEW outcome \in Outcomes \ {"ok"}
  PROVE  Body(outcome) \in Stages /\ Body(outcome) \notin {"none", "queued", "sent"}
BY DEF Outcomes, Body, Stages, Bodies

LEMMA BuiltType ==
  ASSUME NEW n \in Nat
  PROVE  Built(n) \in Nat
<1> DEFINE S == {i \in 1 .. n : PopOrder[i] \notin Unbuildable}
<1>1. IsFiniteSet(1 .. n)
  BY FS_Interval
<1>2. IsFiniteSet(S)
  BY <1>1, FS_Subset
<1>3. QED
  BY <1>2, FS_CardinalityType DEF Built

LEMMA PopOrderProperties ==
  ASSUME Types
  PROVE  PopOrder \in Seq(Requests) /\ Len(PopOrder) = Len(high) + Len(low)
BY ConcatProperties DEF Types, PopOrder

-----------------------------------------------------------------------------
(* How handle_http_response leaves what the invariants are about.          *)
LEMMA HandleHttpResponseStep ==
  ASSUME Types, NEW x \in Exchanges, NEW outcome \in Outcomes, HandleHttpResponse(x, outcome)
  PROVE  /\ stage' \in [Exchanges -> Stages]
         /\ stage'[x] # "none" /\ \A y \in Exchanges \ {x} : stage'[y] = stage[y]
         /\ x \notin Retrying => stage'[x] = outcome
         /\ outage' \in BOOLEAN /\ firstError' \in {"none", "recent", "old"}
         /\ checkTimers' \in Nat /\ checkTimers' >= checkTimers
         /\ outage' => outcome = "network" /\ (outage \/ checkTimers' > 0)
         /\ high' \in Seq(Requests) /\ low' \in Seq(Requests)
         /\ \/ pumps' = pumps /\ high' = high /\ low' = low
            \/ pumps' = pumps + 1
<1>1. CASE outcome = "network" /\ x \in Retrying
  <2>1. Retry(x) /\ HandleNetworkError
    BY <1>1 DEF HandleHttpResponse
  <2>2. x \in Requests
    BY <1>1, SetsAssumption
  <2>3. high' \in Seq(Requests) /\ low' \in Seq(Requests)
    <3>1. <<x>> \in Seq(Requests)
      BY <2>2
    <3>2. <<x>> \o high \in Seq(Requests) /\ <<x>> \o low \in Seq(Requests)
      BY <3>1, ConcatProperties DEF Types
    <3> QED
      BY <2>1, <3>2 DEF Retry, Types
  <2>4. /\ stage' = [stage EXCEPT ![x] = "queued"] /\ pumps' = pumps + 1
    BY <2>1 DEF Retry
  <2>5. /\ stage' \in [Exchanges -> Stages] /\ stage'[x] = "queued"
        /\ \A y \in Exchanges \ {x} : stage'[y] = stage[y]
    BY <2>4 DEF Types, Stages
  <2>6. /\ outage' \in BOOLEAN /\ firstError' \in {"none", "recent", "old"}
        /\ checkTimers' \in Nat /\ checkTimers' >= checkTimers
        /\ outage' => outcome = "network" /\ (outage \/ checkTimers' > 0)
    BY <1>1, <2>1 DEF HandleNetworkError, StartsOutage, Types
  <2> QED
    BY <1>1, <2>3, <2>4, <2>5, <2>6
<1>2. CASE ~(outcome = "network" /\ x \in Retrying)
  <2>1. stage' = [stage EXCEPT ![x] = outcome] /\ high' = high /\ low' = low /\ pumps' = pumps
    BY <1>2 DEF HandleHttpResponse
  <2>2. /\ stage' \in [Exchanges -> Stages] /\ stage'[x] = outcome
        /\ \A y \in Exchanges \ {x} : stage'[y] = stage[y]
    BY <2>1, OutcomeStages DEF Types
  <2>3. /\ outage' \in BOOLEAN /\ firstError' \in {"none", "recent", "old"}
        /\ checkTimers' \in Nat /\ checkTimers' >= checkTimers
        /\ outage' => outcome = "network" /\ (outage \/ checkTimers' > 0)
    <3>1. CASE outcome = "network"
      <4>1. HandleNetworkError
        BY <3>1 DEF HandleHttpResponse
      <4> QED
        BY <3>1, <4>1 DEF HandleNetworkError, StartsOutage, Types
    <3>2. CASE outcome # "network"
      <4>1. ResetNetworkError
        BY <3>2 DEF HandleHttpResponse
      <4>2. outage' = FALSE /\ firstError' = "none" /\ checkTimers' = checkTimers
        BY <4>1 DEF ResetNetworkError
      <4>3. checkTimers' \in Nat /\ checkTimers' >= checkTimers
        BY <4>2 DEF Types
      <4>4. outage' \in BOOLEAN /\ ~outage' /\ firstError' \in {"none", "recent", "old"}
        BY <4>2, Zenon
      <4> QED
        BY <4>3, <4>4
    <3> QED
      BY <3>1, <3>2
  <2> QED
    BY <2>1, <2>2, <2>3, OutcomeStages DEF Types
<1>3. QED
  BY <1>1, <1>2

(* The check that will end the outage, or lead to another: not one whose   *)
(* answer has ended an earlier outage already.                             *)
Undecided == {"sent", "network"} \cup Bodies

OutageInv == outage => checkTimers > 0 \/ \E c \in Checks : stage[c] \in Undecided

(* The inductive invariant.                                                *)
Inv == Types /\ OutageInv /\ AuthInv /\ QueueIsPumped

LEMMA OutageInvChecks ==
  ASSUME OutageInv
  PROVE  OutageIsChecked
BY DEF OutageInv, OutageIsChecked, Checking, Undecided, Bodies

(* An answer moves exchange x on, and starts or ends an outage.            *)
LEMMA AnswersInv ==
  ASSUME Inv, Managed' <=> Managed, NEW x \in Exchanges, Answers(x)
  PROVE  Inv'
<1>1. PICK outcome \in Outcomes :
        Respond(x, outcome) \/ RespondStatus(x, outcome) \/ BodyRead(x, outcome)
  BY DEF Answers
<1>2. stage[x] # "none"
  BY <1>1, BodyStage DEF Respond, RespondStatus, BodyRead
<1>3. auth' = auth /\ authTimers' = authTimers /\ inflight' = inflight
  BY <1>1 DEF Respond, RespondStatus, BodyRead
<1>4. finished' \in Nat
  BY <1>1 DEF Respond, RespondStatus, BodyRead, Inv, Types
<1>5. /\ stage' \in [Exchanges -> Stages]
      /\ stage'[x] # "none" /\ \A y \in Exchanges \ {x} : stage'[y] = stage[y]
      /\ outage' \in BOOLEAN /\ firstError' \in {"none", "recent", "old"}
      /\ checkTimers' \in Nat /\ checkTimers' >= checkTimers
      /\ outage' => outage \/ checkTimers' > 0
      /\ high' \in Seq(Requests) /\ low' \in Seq(Requests)
      /\ \/ pumps' = pumps /\ high' = high /\ low' = low
         \/ pumps' = pumps + 1
  <2>1. CASE RespondStatus(x, outcome)
    <3>1. stage' = [stage EXCEPT ![x] = Body(outcome)] /\ outcome \in Outcomes \ {"ok"}
      BY <2>1 DEF RespondStatus
    <3>2. Body(outcome) \in Stages /\ Body(outcome) # "none"
      BY <3>1, BodyStage
    <3>3. /\ stage' \in [Exchanges -> Stages]
          /\ stage'[x] # "none" /\ \A y \in Exchanges \ {x} : stage'[y] = stage[y]
      BY <3>1, <3>2 DEF Inv, Types
    <3> QED
      BY <2>1, <3>3 DEF RespondStatus, Inv, Types
  <2>2. CASE Respond(x, outcome) \/ BodyRead(x, outcome)
    <3>1. HandleHttpResponse(x, outcome)
      BY <2>2 DEF Respond, BodyRead
    <3> QED
      BY <3>1, HandleHttpResponseStep DEF Inv
  <2> QED
    BY <1>1, <2>1, <2>2
<1>6. \A y \in Exchanges : stage'[y] = "none" <=> stage[y] = "none"
  BY <1>2, <1>5
<1>7. Types'
  BY <1>3, <1>4, <1>5 DEF Inv, Types
<1>8. Checking => Checking'
  BY <1>5, <1>6 DEF Checking, Exchanges, Inv, Types
<1>9. OutageInv'
  <2> SUFFICES ASSUME outage' PROVE checkTimers' > 0 \/ \E c \in Checks : stage'[c] \in Undecided
    BY DEF OutageInv
  <2>1. x \in Checks => stage'[x] \in Undecided
    <3>1. CASE RespondStatus(x, outcome)
      BY <3>1 DEF RespondStatus, Outcomes, Body, Undecided, Bodies, Inv, Types
    <3>2. CASE Respond(x, outcome) \/ BodyRead(x, outcome)
      <4>1. HandleHttpResponse(x, outcome)
        BY <3>2 DEF Respond, BodyRead
      <4>2. outcome = "network" /\ (x \notin Retrying => stage'[x] = outcome)
        BY <4>1, HandleHttpResponseStep DEF Inv
      <4> QED
        BY <4>2, DisjointExchanges DEF Undecided
    <3> QED
      BY <1>1, <3>1, <3>2
  <2>2. \A c \in Checks : c \in Exchanges
    BY DEF Exchanges
  <2> QED
    BY <1>5, <2>1, <2>2 DEF Inv, OutageInv, Types
<1>10. AuthUnderWay' <=> AuthUnderWay
  BY <1>6 DEF AuthUnderWay, Exchanges
<1>11. AuthInv'
  BY <1>3, <1>6, <1>10 DEF Inv, AuthInv, OneAuthentication, AuthStateError, ShouldRenewAuth,
     Exchanges, AuthRequests
<1>12. QueueIsPumped'
  <2> SUFFICES ASSUME IsReady', FreeSlot' PROVE pumps' > 0 \/ Checking'
    BY DEF QueueIsPumped
  <2>1. CASE pumps' = pumps + 1
    BY <2>1 DEF Inv, Types
  <2>2. CASE pumps' = pumps /\ high' = high /\ low' = low
    <3>1. FreeSlot
      BY <1>3, <2>2 DEF FreeSlot
    <3>2. CASE outage
      BY <1>8, <3>2, OutageInvChecks DEF Inv, OutageIsChecked
    <3>3. CASE ~outage
      <4>1. IsReady
        BY <1>3, <3>3 DEF IsReady, IsAuthenticated
      <4> QED
        BY <1>8, <2>2, <3>1, <4>1 DEF Inv, QueueIsPumped
    <3> QED
      BY <3>2, <3>3
  <2> QED
    BY <1>5, <2>1, <2>2
<1>13. QED
  BY <1>7, <1>9, <1>11, <1>12 DEF Inv

(* A step that leaves the authentication alone.                            *)
LEMMA SameAuth ==
  ASSUME Inv, Managed' <=> Managed, auth' = auth, authTimers' = authTimers,
         \A x \in AuthRequests : stage'[x] = "none" <=> stage[x] = "none"
  PROVE  AuthInv'
<1>1. AuthUnderWay' <=> AuthUnderWay
  BY DEF AuthUnderWay
<1>2. QED
  BY <1>1 DEF Inv, AuthInv, OneAuthentication, AuthStateError, ShouldRenewAuth, AuthRequests

(* A step that leaves the checks alone, and does not start an outage.      *)
LEMMA SameChecks ==
  ASSUME Inv, outage' = outage, checkTimers' = checkTimers,
         \A c \in Checks : stage'[c] = stage[c]
  PROVE  OutageInv' /\ (Checking' <=> Checking)
BY DEF Inv, OutageInv, Checking

LEMMA SendRequestInv ==
  ASSUME Inv, Managed' <=> Managed, NEW r \in Requests, SendRequest(r)
  PROVE  Inv'
<1>1. /\ auth' = auth /\ authTimers' = authTimers /\ outage' = outage /\ firstError' = firstError
      /\ checkTimers' = checkTimers /\ inflight' = inflight /\ finished' = finished
      /\ pumps' = pumps + 1
      /\ stage' = [stage EXCEPT ![r] = "queued"]
  BY DEF SendRequest
<1>2. /\ stage' \in [Exchanges -> Stages] /\ \A x \in Exchanges \ {r} : stage'[x] = stage[x]
  BY <1>1 DEF Inv, Types, Stages
<1>3. high' \in Seq(Requests) /\ low' \in Seq(Requests)
  <2>1. Append(high, r) \in Seq(Requests) /\ Append(low, r) \in Seq(Requests)
    BY AppendProperties DEF Inv, Types
  <2> QED
    BY <2>1 DEF SendRequest, Inv, Types
<1>4. Types'
  BY <1>1, <1>2, <1>3 DEF Inv, Types
<1>5. r \in Exchanges /\ r \notin AuthRequests /\ r \notin Checks
  BY SetsAssumption DEF Exchanges, AuthRequests
<1>6. AuthInv'
  BY <1>1, <1>2, <1>5, SameAuth DEF Exchanges
<1>7. OutageInv'
  BY <1>1, <1>2, <1>5, SameChecks DEF Exchanges
<1>8. QueueIsPumped'
  BY <1>1 DEF QueueIsPumped, Inv, Types
<1>9. QED
  BY <1>4, <1>6, <1>7, <1>8 DEF Inv

(* The loop of the pump ends without a free slot, or without a request.    *)
LEMMA PumpInv ==
  ASSUME Inv, Managed' <=> Managed, Pump
  PROVE  Inv'
<1>1. /\ auth' = auth /\ authTimers' = authTimers /\ outage' = outage /\ firstError' = firstError
      /\ checkTimers' = checkTimers /\ finished' = finished
      /\ pumps' = pumps - 1 /\ pumps' \in Nat
  BY DEF Pump, Inv, Types
<1>2. IsReady' <=> IsReady
  BY <1>1 DEF IsReady, IsAuthenticated
<1>3. CASE ~IsReady
  <2>1. stage' = stage /\ inflight' = inflight /\ high' = high /\ low' = low
    BY <1>3 DEF Pump
  <2>2. Types'
    BY <1>1, <2>1 DEF Inv, Types
  <2>3. AuthInv' /\ OutageInv'
    BY <1>1, <2>1, SameAuth, SameChecks
  <2>4. QueueIsPumped'
    BY <1>2, <1>3 DEF QueueIsPumped
  <2> QED
    BY <2>2, <2>3, <2>4 DEF Inv
<1>4. CASE IsReady
  <2>1. PICK n \in 0 .. Len(PopOrder) :
          /\ n = Len(PopOrder) \/ ~SlotFree(n)
          /\ stage' = [x \in Exchanges |->
                         IF \A i \in 1 .. n : PopOrder[i] # x THEN stage[x]
                         ELSE IF x \in Unbuildable THEN "error" ELSE "sent"]
          /\ inflight' = inflight + Built(n)
          /\ high' = SubSeq(high, n + 1, Len(high))
          /\ low' = IF n <= Len(high) THEN low ELSE SubSeq(low, n - Len(high) + 1, Len(low))
    BY <1>4 DEF Pump
  <2>2. /\ Len(high) \in Nat /\ Len(low) \in Nat
        /\ PopOrder \in Seq(Requests) /\ Len(PopOrder) = Len(high) + Len(low)
    BY PopOrderProperties, LenProperties DEF Inv, Types
  <2>3. n \in Nat
    BY <2>1, <2>2
  <2>4. inflight' \in Int
    BY <2>1, <2>3, BuiltType DEF Inv, Types
  <2>5. high' \in Seq(Requests) /\ low' \in Seq(Requests)
    <3>1. high' \in Seq(Requests)
      BY <2>1, <2>2, <2>3, SubSeqProperties DEF Inv, Types
    <3>2. n > Len(high) => SubSeq(low, n - Len(high) + 1, Len(low)) \in Seq(Requests)
      BY <2>2, <2>3, SubSeqProperties DEF Inv, Types
    <3>3. CASE n <= Len(high)
      <4>1. low' = low
        BY <2>1, <3>3
      <4> QED
        BY <3>1, <4>1 DEF Inv, Types
    <3>4. CASE n > Len(high)
      <4>1. low' = SubSeq(low, n - Len(high) + 1, Len(low))
        BY <2>1, <2>2, <2>3, <3>4
      <4> QED
        BY <3>1, <3>2, <3>4, <4>1
    <3> QED
      BY <2>2, <2>3, <3>3, <3>4
  <2>6. \A i \in 1 .. n : PopOrder[i] \in Requests
    BY <2>1, <2>2, <2>3, ElementOfSeq
  <2>7. \A x \in Checks \cup AuthRequests : stage'[x] = stage[x]
    BY <2>1, <2>6, SetsAssumption DEF Exchanges, AuthRequests
  <2>8. stage' \in [Exchanges -> Stages]
    BY <2>1 DEF Inv, Types, Stages, Outcomes
  <2>9. Types'
    BY <1>1, <2>4, <2>5, <2>8 DEF Inv, Types
  <2>10. AuthInv'
    BY <1>1, <2>7, SameAuth
  <2>11. OutageInv'
    BY <1>1, <2>7, SameChecks
  <2>12. ~FreeSlot'
    <3>1. CASE n = Len(PopOrder)
      <4>1. Len(high') = 0
        BY <2>1, <2>2, <2>3, <3>1, SubSeqProperties DEF Inv, Types
      <4>2. Len(low') = 0
        <5>1. CASE n <= Len(high)
          BY <2>1, <2>2, <2>3, <3>1, <5>1
        <5>2. CASE n > Len(high)
          BY <2>1, <2>2, <2>3, <3>1, <5>2, SubSeqProperties DEF Inv, Types
        <5> QED
          BY <2>2, <2>3, <5>1, <5>2
      <4> QED
        BY <4>1, <4>2 DEF FreeSlot
    <3>2. CASE ~SlotFree(n)
      BY <2>1, <2>3, <3>2, BuiltType, BoundsAssumption DEF FreeSlot, SlotFree, Inv, Types
    <3> QED
      BY <2>1, <3>1, <3>2
  <2>13. QueueIsPumped'
    BY <2>12 DEF QueueIsPumped
  <2> QED
    BY <2>9, <2>10, <2>11, <2>13 DEF Inv
<1>5. QED
  BY <1>3, <1>4

LEMMA TrackedFutureFinishedInv ==
  ASSUME Inv, Managed' <=> Managed, TrackedFutureFinished
  PROVE  Inv'
<1>1. /\ auth' = auth /\ authTimers' = authTimers /\ outage' = outage /\ firstError' = firstError
      /\ checkTimers' = checkTimers /\ high' = high /\ low' = low /\ stage' = stage
      /\ finished' \in Nat /\ inflight' \in Int /\ pumps' = pumps + 1
  BY DEF TrackedFutureFinished, Inv, Types
<1>2. Types'
  BY <1>1 DEF Inv, Types
<1>3. AuthInv' /\ OutageInv'
  BY <1>1, SameAuth, SameChecks
<1>4. QueueIsPumped'
  BY <1>1 DEF QueueIsPumped, Inv, Types
<1>5. QED
  BY <1>2, <1>3, <1>4 DEF Inv

LEMMA CheckUpstreamConnectionInv ==
  ASSUME Inv, Managed' <=> Managed, NEW c \in Checks, CheckUpstreamConnection(c)
  PROVE  Inv'
<1>1. /\ auth' = auth /\ authTimers' = authTimers /\ outage' = outage /\ firstError' = firstError
      /\ checkTimers' \in Nat /\ inflight' \in Int /\ high' = high /\ low' = low
      /\ stage' = [stage EXCEPT ![c] = "sent"]
      /\ finished' = finished /\ pumps' = pumps
  BY DEF CheckUpstreamConnection, Inv, Types
<1>2. c \in Exchanges /\ c \notin AuthRequests
  BY SetsAssumption DEF Exchanges, AuthRequests
<1>3. /\ stage' \in [Exchanges -> Stages] /\ stage'[c] = "sent"
      /\ \A x \in Exchanges \ {c} : stage'[x] = stage[x]
  BY <1>1, <1>2 DEF Inv, Types, Stages
<1>4. Types'
  BY <1>1, <1>3 DEF Inv, Types
<1>5. AuthInv'
  BY <1>1, <1>2, <1>3, SameAuth DEF Exchanges
<1>6. Checking'
  BY <1>3 DEF Checking
<1>7. OutageInv' /\ QueueIsPumped'
  BY <1>3, <1>6 DEF OutageInv, Undecided, QueueIsPumped
<1>8. QED
  BY <1>4, <1>5, <1>7 DEF Inv

LEMMA CheckDoneInv ==
  ASSUME Inv, Managed' <=> Managed, NEW c \in Checks, NEW outcome \in Outcomes, CheckDone(c, outcome)
  PROVE  Inv'
<1>1. /\ auth' = auth /\ authTimers' = authTimers /\ firstError' = firstError
      /\ inflight' = inflight /\ high' = high /\ low' = low /\ finished' = finished
      /\ stage' = [stage EXCEPT ![c] = "none"] /\ stage[c] \in Outcomes
      /\ AfterCheck(outcome = "network")
  BY DEF CheckDone
<1>2. c \in Exchanges /\ c \notin AuthRequests
  BY SetsAssumption DEF Exchanges, AuthRequests
<1>3. /\ stage' \in [Exchanges -> Stages]
      /\ \A x \in Exchanges \ {c} : stage'[x] = stage[x]
  BY <1>1, <1>2 DEF Inv, Types, Stages
<1>4. AuthInv'
  BY <1>1, <1>2, <1>3, SameAuth DEF Exchanges
<1>5. CASE outcome = "network"
  <2>1. outage' = TRUE /\ checkTimers' = checkTimers + 1 /\ pumps' = pumps
    BY <1>1, <1>5 DEF AfterCheck
  <2>2. Types'
    BY <1>1, <1>3, <2>1 DEF Inv, Types
  <2>3. checkTimers' > 0
    BY <2>1 DEF Inv, Types
  <2> QED
    BY <1>4, <2>2, <2>3 DEF Inv, OutageInv, QueueIsPumped, Checking
<1>6. CASE outcome # "network"
  <2>1. checkTimers' = checkTimers /\ pumps' = pumps + 1
    BY <1>1, <1>6 DEF AfterCheck
  <2>2. outage' = (outage \/ FALSE)
    BY <1>1, <1>6, Zenon DEF AfterCheck
  <2>3. outage' = outage
    BY <2>2 DEF Inv, Types
  <2>4. Types'
    BY <1>1, <1>3, <2>1, <2>3 DEF Inv, Types
  <2>5. OutageInv'
    <3>1. stage[c] \notin Undecided
      BY <1>1, <1>6 DEF CheckDone, Undecided, Bodies, Outcomes
    <3>2. \A d \in Checks : stage[d] \in Undecided => stage'[d] \in Undecided
      BY <1>3, <3>1 DEF Exchanges
    <3> QED
      BY <2>1, <2>3, <3>2 DEF OutageInv, Inv
  <2>6. QueueIsPumped'
    BY <2>1 DEF QueueIsPumped, Inv, Types
  <2> QED
    BY <1>4, <2>4, <2>5, <2>6 DEF Inv
<1>7. QED
  BY <1>5, <1>6

-----------------------------------------------------------------------------
(* A step of the authentication leaves the checks and the queues alone.    *)
LEMMA AuthStep ==
  ASSUME Inv,
         outage' = outage, checkTimers' = checkTimers, high' = high, low' = low,
         \A x \in Exchanges \ AuthRequests : stage'[x] = stage[x],
         inflight' \in Int, inflight' >= inflight,
         IsReady' => IsReady \/ pumps' = pumps + 1,
         pumps' = pumps \/ pumps' = pumps + 1
  PROVE  OutageInv' /\ QueueIsPumped'
<1>1. \A c \in Checks : stage'[c] = stage[c]
  BY DisjointExchanges DEF Exchanges
<1>2. OutageInv' /\ (Checking' <=> Checking)
  BY <1>1, SameChecks
<1>3. QueueIsPumped'
  <2> SUFFICES ASSUME IsReady', FreeSlot' PROVE pumps' > 0 \/ Checking'
    BY DEF QueueIsPumped
  <2>1. CASE pumps' = pumps + 1
    BY <2>1 DEF Inv, Types
  <2>2. CASE pumps' # pumps + 1
    <3>1. FreeSlot /\ IsReady /\ pumps' = pumps
      BY <2>2, BoundsAssumption DEF FreeSlot, Inv, Types
    <3> QED
      BY <1>2, <3>1 DEF Inv, QueueIsPumped
  <2> QED
    BY <2>1, <2>2
<1>4. QED
  BY <1>2, <1>3

(* What AuthInv says of the timers while a request of the authentication   *)
(* is under way.                                                           *)
LEMMA UnderWay ==
  ASSUME Inv, NEW x \in AuthRequests, stage[x] # "none"
  PROVE  /\ authTimers = 0 /\ Managed /\ auth \in {"Registering", "Renewing"}
         /\ \A y \in AuthRequests \ {x} : stage[y] = "none"
<1>1. AuthUnderWay
  BY DEF AuthUnderWay
<1>2. ~(authTimers > 0)
  BY <1>1 DEF Inv, AuthInv, OneAuthentication
<1>3. authTimers = 0
  BY <1>2 DEF Inv, Types
<1>4. QED
  BY <1>1, <1>3 DEF Inv, AuthInv, OneAuthentication, AuthRequests

LEMMA AuthenticateInv ==
  ASSUME Inv, Managed' <=> Managed, Authenticate
  PROVE  Inv'
<1>1. /\ outage' = outage /\ firstError' = firstError /\ checkTimers' = checkTimers
      /\ high' = high /\ low' = low /\ finished' = finished /\ pumps' = pumps
      /\ authTimers > 0 /\ authTimers' = authTimers - 1
  BY DEF Authenticate
<1>2. authTimers = 1 /\ ~AuthUnderWay /\ ~AuthStateError
  BY <1>1 DEF Inv, AuthInv, OneAuthentication
<1>3. authTimers' = 0
  BY <1>1, <1>2
<1>4. /\ auth' = IF IsAuthenticated THEN "Renewing" ELSE "Registering"
      /\ stage' = [stage EXCEPT !["challenge"] = "sent"] /\ inflight' = inflight + 1
  BY <1>2 DEF Authenticate
<1>5. /\ stage' \in [Exchanges -> Stages] /\ stage'["challenge"] = "sent"
      /\ \A x \in Exchanges \ {"challenge"} : stage'[x] = stage[x]
  BY <1>4 DEF Inv, Types, Stages, Exchanges, AuthRequests
<1>6. Types'
  BY <1>1, <1>3, <1>4, <1>5 DEF Inv, Types, AuthStates
<1>7. IsReady' => IsReady
  BY <1>1, <1>2, <1>4 DEF IsReady, IsAuthenticated, AuthStateError
<1>8. OutageInv' /\ QueueIsPumped'
  <2>1. inflight' \in Int /\ inflight' >= inflight
    BY <1>4 DEF Inv, Types
  <2>2. \A x \in Exchanges \ AuthRequests : stage'[x] = stage[x]
    BY <1>5 DEF AuthRequests
  <2> QED
    BY <1>1, <1>7, <2>1, <2>2, AuthStep
<1>9. AuthInv'
  <2>1. AuthUnderWay' /\ stage'["response"] = "none"
    BY <1>2, <1>5 DEF AuthUnderWay, AuthRequests, Exchanges
  <2>2. Managed /\ auth' \in {"Registering", "Renewing"}
    BY <1>2, <1>4 DEF AuthStateError
  <2> QED
    BY <1>3, <2>1, <2>2 DEF AuthInv, OneAuthentication
<1>10. QED
  BY <1>6, <1>8, <1>9 DEF Inv

LEMMA AuthChallengeInv ==
  ASSUME Inv, Managed' <=> Managed, AuthChallenge
  PROVE  Inv'
<1>1. /\ auth' = auth /\ authTimers' = authTimers /\ outage' = outage
      /\ firstError' = firstError /\ checkTimers' = checkTimers
      /\ high' = high /\ low' = low /\ finished' = finished /\ pumps' = pumps
      /\ inflight' = inflight + 1 /\ stage["challenge"] = "ok"
      /\ stage' = [stage EXCEPT !["challenge"] = "none", !["response"] = "sent"]
  BY DEF AuthChallenge
<1>2. /\ stage' \in [Exchanges -> Stages]
      /\ stage'["challenge"] = "none" /\ stage'["response"] = "sent"
      /\ \A x \in Exchanges \ AuthRequests : stage'[x] = stage[x]
  BY <1>1 DEF Inv, Types, Stages, Exchanges, AuthRequests
<1>3. authTimers = 0 /\ Managed /\ auth \in {"Registering", "Renewing"}
  BY <1>1, UnderWay DEF AuthRequests
<1>4. Types'
  BY <1>1, <1>2 DEF Inv, Types
<1>5. OutageInv' /\ QueueIsPumped'
  <2>1. inflight' \in Int /\ inflight' >= inflight
    BY <1>1 DEF Inv, Types
  <2>2. IsReady' => IsReady
    BY <1>1 DEF IsReady, IsAuthenticated
  <2> QED
    BY <1>1, <1>2, <2>1, <2>2, AuthStep
<1>6. AuthInv'
  BY <1>1, <1>2, <1>3 DEF AuthInv, OneAuthentication, AuthUnderWay, AuthRequests
<1>7. QED
  BY <1>4, <1>5, <1>6 DEF Inv

LEMMA AuthRegisteredInv ==
  ASSUME Inv, Managed' <=> Managed, AuthRegistered
  PROVE  Inv'
<1>1. /\ outage' = outage /\ firstError' = firstError /\ checkTimers' = checkTimers
      /\ high' = high /\ low' = low /\ finished' = finished /\ inflight' = inflight
      /\ pumps' = pumps + 1 /\ auth' = "Registered" /\ stage["response"] = "ok"
      /\ authTimers' = IF ShouldRenewAuth("Registered") THEN authTimers + 1 ELSE authTimers
      /\ stage' = [stage EXCEPT !["response"] = "none"]
  BY DEF AuthRegistered, PumpsAfterAuth
<1>2. authTimers = 0 /\ Managed /\ stage["challenge"] = "none"
  BY <1>1, UnderWay DEF AuthRequests
<1>3. authTimers' = IF Renews THEN 1 ELSE 0
  BY <1>1, <1>2 DEF ShouldRenewAuth
<1>4. /\ stage' \in [Exchanges -> Stages]
      /\ stage'["challenge"] = "none" /\ stage'["response"] = "none"
      /\ \A x \in Exchanges \ AuthRequests : stage'[x] = stage[x]
  BY <1>1, <1>2 DEF Inv, Types, Stages, Exchanges, AuthRequests
<1>5. Types'
  BY <1>1, <1>3, <1>4, FlagsAssumption DEF Inv, Types, AuthStates
<1>6. OutageInv' /\ QueueIsPumped'
  <2>1. inflight' \in Int /\ inflight' >= inflight
    BY <1>1 DEF Inv, Types
  <2> QED
    BY <1>1, <1>4, <2>1, AuthStep
<1>7. ~AuthUnderWay'
  BY <1>4 DEF AuthUnderWay, AuthRequests
<1>8. Renews => ~AuthStateError'
  BY <1>1, <1>2 DEF AuthStateError, ShouldRenewAuth
<1>9. AuthInv'
  BY <1>1, <1>3, <1>4, <1>7, <1>8 DEF AuthInv, OneAuthentication
<1>10. QED
  BY <1>5, <1>6, <1>9 DEF Inv

LEMMA AuthFailedInv ==
  ASSUME Inv, Managed' <=> Managed, NEW x \in AuthRequests, NEW outcome \in Outcomes, AuthFailed(x, outcome)
  PROVE  Inv'
<1>1. /\ outage' = outage /\ firstError' = firstError /\ checkTimers' = checkTimers
      /\ high' = high /\ low' = low /\ finished' = finished /\ inflight' = inflight
      /\ pumps' = pumps /\ stage' = [stage EXCEPT ![x] = "none"]
      /\ stage[x] \in Outcomes /\ outcome # "ok"
      /\ auth' = CASE outcome = "denied"  -> "Denied"
                   [] outcome = "error"   -> "Registering"
                   [] outcome = "network" -> auth
      /\ authTimers' = IF outcome # "denied" THEN authTimers + 1 ELSE authTimers
  BY DEF AuthFailed, RetryAuth
<1>2. /\ authTimers = 0 /\ Managed /\ auth \in {"Registering", "Renewing"}
      /\ \A y \in AuthRequests \ {x} : stage[y] = "none"
  BY <1>1, UnderWay, OutcomeStages
<1>3. /\ outcome = "denied" => auth' = "Denied" /\ authTimers' = 0
      /\ outcome # "denied" => auth' \in {"Registering", "Renewing"} /\ authTimers' = 1
      /\ auth' = "Renewing" => auth = "Renewing"
  BY <1>1, <1>2 DEF Outcomes
<1>4. /\ stage' \in [Exchanges -> Stages] /\ \A y \in AuthRequests : stage'[y] = "none"
      /\ \A y \in Exchanges \ AuthRequests : stage'[y] = stage[y]
  BY <1>1, <1>2 DEF Inv, Types, Stages, Exchanges
<1>5. Types'
  <2>1. auth' \in AuthStates /\ authTimers' \in Nat
    BY <1>3 DEF AuthStates
  <2> QED
    BY <1>1, <1>4, <2>1 DEF Inv, Types
<1>6. IsReady' => IsReady
  BY <1>1, <1>2, <1>3 DEF IsReady, IsAuthenticated
<1>7. OutageInv' /\ QueueIsPumped'
  <2>1. inflight' \in Int /\ inflight' >= inflight
    BY <1>1 DEF Inv, Types
  <2> QED
    BY <1>1, <1>4, <1>6, <2>1, AuthStep
<1>8. ~AuthUnderWay' /\ stage'["challenge"] = "none"
  BY <1>4 DEF AuthUnderWay, AuthRequests
<1>9. outcome # "denied" => ~AuthStateError'
  BY <1>2, <1>3 DEF AuthStateError
<1>10. AuthInv'
  BY <1>3, <1>8, <1>9 DEF AuthInv, OneAuthentication
<1>11. QED
  BY <1>5, <1>7, <1>10 DEF Inv

LEMMA GracePassesInv ==
  ASSUME Inv, Managed' <=> Managed, GracePasses
  PROVE  Inv'
<1>1. /\ auth' = auth /\ authTimers' = authTimers /\ outage' = outage /\ firstError' = "old"
      /\ checkTimers' = checkTimers /\ inflight' = inflight /\ high' = high /\ low' = low
      /\ stage' = stage /\ finished' = finished /\ pumps' = pumps
  BY DEF GracePasses
<1>2. Types'
  BY <1>1 DEF Inv, Types
<1>3. AuthInv' /\ OutageInv' /\ (Checking' <=> Checking)
  BY <1>1, SameAuth, SameChecks
<1>4. QueueIsPumped'
  BY <1>1, <1>3 DEF Inv, QueueIsPumped, IsReady, IsAuthenticated, FreeSlot
<1>5. QED
  BY <1>2, <1>3, <1>4 DEF Inv

-----------------------------------------------------------------------------
LEMMA InitInv ==
  ASSUME Init
  PROVE  Inv
<1>1. Types
  <2>1. <<>> \in Seq(Requests)
    OBVIOUS
  <2>2. stage \in [Exchanges -> Stages]
    BY DEF Init, Stages
  <2>3. authTimers \in Nat
    BY FlagsAssumption DEF Init
  <2>4. outage \in BOOLEAN
    BY Zenon DEF Init
  <2> QED
    BY <2>1, <2>2, <2>3, <2>4 DEF Init, Types, AuthStates
<1>2. OutageInv
  BY DEF Init, OutageInv
<1>3. AuthInv
  <2>1. ~AuthUnderWay /\ stage["challenge"] = "none"
    BY DEF Init, AuthUnderWay, Exchanges, AuthRequests
  <2>2. Managed => ~AuthStateError
    BY DEF Init, AuthStateError
  <2>3. authTimers = IF Managed THEN 1 ELSE 0
    BY DEF Init
  <2> QED
    BY <2>1, <2>2, <2>3 DEF AuthInv, OneAuthentication
<1>4. QueueIsPumped
  BY DEF Init, QueueIsPumped, FreeSlot
<1>5. QED
  BY <1>1, <1>2, <1>3, <1>4 DEF Inv

LEMMA ModeKept ==
  ASSUME Next
  PROVE  mode' = mode
BY DEF Next, SendRequest, Pump, TrackedFutureFinished, Answers, Respond, RespondStatus, BodyRead,
   CheckUpstreamConnection, CheckDone, Authenticate, AuthChallenge, AuthRegistered, AuthEnds,
   AuthFailed, GracePasses

LEMMA NextInv ==
  ASSUME Inv, [Next]_vars
  PROVE  Inv'
<1>1. CASE Next
  <2> Managed' <=> Managed
    BY <1>1, ModeKept DEF Managed
  <2>1. CASE \E r \in Requests : SendRequest(r)
    BY <2>1, SendRequestInv
  <2>2. CASE Pump
    BY <2>2, PumpInv
  <2>3. CASE TrackedFutureFinished
    BY <2>3, TrackedFutureFinishedInv
  <2>4. CASE \E x \in Exchanges : Answers(x)
    BY <2>4, AnswersInv
  <2>5. CASE \E c \in Checks : CheckUpstreamConnection(c) \/ \E outcome \in Outcomes : CheckDone(c, outcome)
    BY <2>5, CheckUpstreamConnectionInv, CheckDoneInv
  <2>6. CASE Authenticate
    BY <2>6, AuthenticateInv
  <2>7. CASE AuthChallenge
    BY <2>7, AuthChallengeInv
  <2>8. CASE AuthRegistered
    BY <2>8, AuthRegisteredInv
  <2>9. CASE AuthEnds
    BY <2>9, AuthFailedInv DEF AuthEnds
  <2>10. CASE GracePasses
    BY <2>10, GracePassesInv
  <2> QED
    BY <1>1, <2>1, <2>2, <2>3, <2>4, <2>5, <2>6, <2>7, <2>8, <2>9, <2>10 DEF Next
<1>2. CASE UNCHANGED vars
  BY <1>2 DEF vars, Managed, Inv, Types, OutageInv, AuthInv, OneAuthentication, AuthUnderWay,
     AuthStateError, ShouldRenewAuth, QueueIsPumped, IsReady, IsAuthenticated, FreeSlot, Checking
<1>3. QED
  BY <1>1, <1>2

(* An outage is never left without a check of the connection, whatever the *)
(* order in which answers to requests and to checks start and end it.      *)
THEOREM OutageChecked == Spec => []OutageIsChecked
<1>1. Inv => OutageIsChecked
  BY OutageInvChecks DEF Inv
<1>2. QED
  BY <1>1, InitInv, NextInv, PTL DEF Spec

(* The relay never runs two authentications at a time, never forgets to    *)
(* repeat one, and never meets the errors of get_auth_state_error.         *)
THEOREM SingleAuthentication == Spec => []OneAuthentication
<1>1. Inv => OneAuthentication
  BY DEF Inv, AuthInv
<1>2. QED
  BY <1>1, InitInv, NextInv, PTL DEF Spec

(* A queued request that could be sent has a pump or a check to wake it.   *)
THEOREM QueuePumped == Spec => []QueueIsPumped
<1>1. Inv => QueueIsPumped
  BY DEF Inv
<1>2. QED
  BY <1>1, InitInv, NextInv, PTL DEF Spec

-----------------------------------------------------------------------------
(* Sequences without repetitions.                                          *)

LEMMA AppendOnce ==
  ASSUME NEW S, NEW q \in Seq(S), NEW e \in S, Once(q), e \notin Elements(q)
  PROVE  /\ Append(q, e) \in Seq(S) /\ Once(Append(q, e))
         /\ Elements(Append(q, e)) = Elements(q) \cup {e}
<1>1. /\ Len(q) \in Nat /\ DOMAIN q = 1 .. Len(q)
      /\ Append(q, e) \in Seq(S) /\ DOMAIN Append(q, e) = 1 .. Len(q) + 1
      /\ \A i \in 1 .. Len(q) : Append(q, e)[i] = q[i]
      /\ Append(q, e)[Len(q) + 1] = e
  BY AppendProperties, LenProperties
<1>2. \A i \in 1 .. Len(q) + 1 : i \in 1 .. Len(q) \/ i = Len(q) + 1
  BY <1>1
<1>3. Elements(Append(q, e)) = Elements(q) \cup {e}
  BY <1>1, <1>2 DEF Elements
<1>4. Once(Append(q, e))
  BY <1>1, <1>2 DEF Once, Elements
<1>5. QED
  BY <1>1, <1>3, <1>4

LEMMA PrependOnce ==
  ASSUME NEW S, NEW q \in Seq(S), NEW e \in S, Once(q), e \notin Elements(q)
  PROVE  /\ <<e>> \o q \in Seq(S) /\ Once(<<e>> \o q)
         /\ Elements(<<e>> \o q) = Elements(q) \cup {e}
<1> DEFINE p == <<e>> \o q
<1>1. <<e>> \in Seq(S) /\ Len(<<e>>) = 1 /\ <<e>>[1] = e
  OBVIOUS
<1>2. p \in Seq(S) /\ Len(p) = 1 + Len(q) /\ Len(q) \in Nat /\ DOMAIN q = 1 .. Len(q)
  BY <1>1, ConcatProperties, LenProperties
<1>3. DOMAIN p = 1 .. 1 + Len(q)
  BY <1>2, LenProperties
<1>4. \A i \in 1 .. 1 + Len(q) : p[i] = IF i <= 1 THEN e ELSE q[i - 1]
  BY <1>1, ConcatProperties
<1> HIDE DEF p
<1>5. p[1] = e /\ \A i \in 1 .. Len(q) : p[i + 1] = q[i]
  BY <1>2, <1>4
<1>6. \A i \in 1 .. 1 + Len(q) : i = 1 \/ (i - 1 \in 1 .. Len(q) /\ p[i] = q[i - 1])
  BY <1>2, <1>4
<1>7. Elements(p) = Elements(q) \cup {e}
  <2>1. ASSUME NEW i \in 1 .. 1 + Len(q)
        PROVE  p[i] \in Elements(q) \cup {e}
    BY <1>2, <1>5, <1>6 DEF Elements
  <2>2. \A y \in Elements(q) : y \in Elements(p)
    <3> SUFFICES ASSUME NEW i \in 1 .. Len(q) PROVE q[i] \in Elements(p)
      BY <1>2 DEF Elements
    <3>1. i + 1 \in DOMAIN p /\ p[i + 1] = q[i]
      BY <1>2, <1>3, <1>5
    <3> QED
      BY <3>1 DEF Elements
  <2>3. e \in Elements(p)
    BY <1>2, <1>3, <1>5 DEF Elements
  <2> QED
    BY <1>3, <2>1, <2>2, <2>3 DEF Elements
<1>8. Once(p)
  <2> SUFFICES ASSUME NEW i \in 1 .. 1 + Len(q), NEW j \in 1 .. 1 + Len(q), p[i] = p[j]
               PROVE  i = j
    BY <1>3 DEF Once
  <2>1. \A k \in 1 .. Len(q) : q[k] # e
    BY <1>2 DEF Elements
  <2>2. CASE i = 1 \/ j = 1
    BY <1>2, <1>5, <1>6, <2>1, <2>2
  <2>3. CASE i # 1 /\ j # 1
    <3>1. i - 1 \in 1 .. Len(q) /\ j - 1 \in 1 .. Len(q) /\ q[i - 1] = q[j - 1]
      BY <1>6, <2>3
    <3>2. i - 1 = j - 1
      BY <1>2, <3>1 DEF Once
    <3> QED
      BY <1>2, <3>2
  <2> QED
    BY <2>2, <2>3
<1>9. QED
  BY <1>2, <1>7, <1>8 DEF p

(* The rest of a sequence after its first m elements.                      *)
LEMMA RestOnce ==
  ASSUME NEW S, NEW q \in Seq(S), NEW m \in 0 .. Len(q), Once(q)
  PROVE  LET rest == SubSeq(q, m + 1, Len(q))
         IN  /\ rest \in Seq(S) /\ Once(rest)
             /\ Elements(rest) = {q[i] : i \in m + 1 .. Len(q)}
<1> DEFINE rest == SubSeq(q, m + 1, Len(q))
<1>1. Len(q) \in Nat /\ DOMAIN q = 1 .. Len(q) /\ m \in Nat /\ m <= Len(q)
  BY LenProperties
<1>2. \A i \in m + 1 .. Len(q) : q[i] \in S
  BY <1>1, ElementOfSeq
<1>3. rest \in Seq(S) /\ Len(rest) = Len(q) - m
  <2>1. m + 1 \in Int /\ Len(q) \in Int
    BY <1>1
  <2>2. rest \in Seq(S) /\ Len(rest) = IF m + 1 <= Len(q) THEN Len(q) - (m + 1) + 1 ELSE 0
    BY <1>2, <2>1, SubSeqProperties
  <2>3. m + 1 <= Len(q) => Len(rest) = Len(q) - (m + 1) + 1
    BY <2>2
  <2>4. ~(m + 1 <= Len(q)) => Len(rest) = 0
    BY <2>2
  <2> HIDE DEF rest
  <2>5. Len(rest) = Len(q) - m
    <3>1. Len(q) \in Nat /\ m \in Nat /\ m <= Len(q)
      BY <1>1
    <3>2. CASE m + 1 <= Len(q)
      BY <2>3, <3>1, <3>2
    <3>3. CASE ~(m + 1 <= Len(q))
      <4>1. m = Len(q)
        BY <3>1, <3>3
      <4> QED
        BY <2>4, <3>1, <3>3, <4>1
    <3> QED
      BY <3>2, <3>3
  <2> QED
    BY <2>2, <2>5
<1>4. \A i \in 1 .. Len(q) - m : rest[i] = q[m + i]
  <2> m + 1 \in Int /\ Len(q) \in Int
    BY <1>1
  <2>1. \A i \in 1 .. Len(q) - (m + 1) + 1 : rest[i] = q[(m + 1) + i - 1]
    BY <1>2, SubSeqProperties
  <2> HIDE DEF rest
  <2> QED
    BY <1>1, <2>1
<1>5. DOMAIN rest = 1 .. Len(q) - m
  BY <1>3, LenProperties
<1> HIDE DEF rest
<1>6. Once(rest)
  <2> SUFFICES ASSUME NEW i \in 1 .. Len(q) - m, NEW j \in 1 .. Len(q) - m, rest[i] = rest[j]
               PROVE  i = j
    BY <1>5 DEF Once
  <2>1. m + i \in DOMAIN q /\ m + j \in DOMAIN q /\ q[m + i] = q[m + j]
    BY <1>1, <1>4
  <2> QED
    BY <1>1, <2>1 DEF Once
<1>7. Elements(rest) = {q[i] : i \in m + 1 .. Len(q)}
  <2>1. ASSUME NEW i \in 1 .. Len(q) - m
        PROVE  rest[i] \in {q[k] : k \in m + 1 .. Len(q)}
    <3>1. m + i \in m + 1 .. Len(q) /\ rest[i] = q[m + i]
      BY <1>1, <1>4
    <3> QED
      BY <3>1
  <2>2. ASSUME NEW k \in m + 1 .. Len(q)
        PROVE  q[k] \in Elements(rest)
    <3>1. k - m \in 1 .. Len(q) - m /\ rest[k - m] = q[k]
      BY <1>1, <1>4
    <3> QED
      BY <1>5, <3>1 DEF Elements
  <2> QED
    BY <1>5, <2>1, <2>2 DEF Elements
<1>8. QED
  BY <1>3, <1>6, <1>7 DEF rest

-----------------------------------------------------------------------------
(* The queues and the requests in flight.                                  *)

Lanes == high \in Seq(High) /\ low \in Seq(Requests \ High) /\ QueuedOnce

(* The requests that were sent are finitely many, whatever Requests is.    *)
SentInv == IsFiniteSet(Sent) /\ InflightExact /\ InflightLimit

Settings == mode \in RelayModes /\ faults \in 0 .. MaxFaults

(* The invariant that is inductive together with Inv.                      *)
QueuesInv == Settings /\ Lanes /\ SentInv

LEMMA SameLanes ==
  ASSUME Lanes, high' = high, low' = low,
         \A r \in Requests : stage'[r] = "queued" <=> stage[r] = "queued"
  PROVE  Lanes'
BY DEF Lanes, QueuedOnce, Once, Elements

LEMMA SameSent ==
  ASSUME Types, SentInv, Sent' = Sent, inflight' \in Int, finished' \in Nat,
         inflight' - finished' = inflight - finished
  PROVE  SentInv'
<1>1. Cardinality(Sent) \in Nat
  BY FS_CardinalityType DEF SentInv
<1>2. inflight' = Cardinality(Sent) + finished'
  BY <1>1 DEF SentInv, InflightExact, Types
<1>3. QED
  BY <1>2 DEF SentInv, InflightExact, InflightLimit

(* An Immediate request has been sent.                                     *)
LEMMA MoreSent ==
  ASSUME Types, SentInv, NEW x \in Exchanges \ Requests, x \notin Sent, Sent' = Sent \cup {x},
         inflight' = inflight + 1, finished' = finished
  PROVE  SentInv'
<1>1. Cardinality(Sent) \in Nat
  BY FS_CardinalityType DEF SentInv
<1>2. IsFiniteSet(Sent') /\ Cardinality(Sent') = Cardinality(Sent) + 1
  BY FS_AddElement DEF SentInv
<1>3. inflight' = Cardinality(Sent') + finished'
  BY <1>1, <1>2 DEF SentInv, InflightExact, Types
<1>4. Sent' \cap Requests = Sent \cap Requests
  OBVIOUS
<1>5. QED
  BY <1>2, <1>3, <1>4 DEF SentInv, InflightExact, InflightLimit

(* The TrackedFuture of exchange x has finished.                           *)
LEMMA LessSent ==
  ASSUME Types, SentInv, NEW x \in Sent, Sent' = Sent \ {x},
         inflight' = inflight, finished' = finished + 1
  PROVE  SentInv'
<1>1. Cardinality(Sent) \in Nat
  BY FS_CardinalityType DEF SentInv
<1>2. IsFiniteSet(Sent') /\ Cardinality(Sent') = Cardinality(Sent) - 1
  BY FS_RemoveElement DEF SentInv
<1>3. inflight' = Cardinality(Sent') + finished'
  BY <1>1, <1>2 DEF SentInv, InflightExact, Types
<1>4. InflightLimit'
  <2>1. IsFiniteSet(Sent \cap Requests)
    BY FS_Intersection DEF SentInv
  <2>2. Sent' \cap Requests \subseteq Sent \cap Requests
    OBVIOUS
  <2>3. Cardinality(Sent' \cap Requests) <= Cardinality(Sent \cap Requests)
    BY <2>1, <2>2, FS_Subset
  <2>4. Cardinality(Sent' \cap Requests) \in Nat /\ Cardinality(Sent \cap Requests) \in Nat
    BY <2>1, <2>2, FS_Subset, FS_CardinalityType
  <2> QED
    BY <2>3, <2>4, BoundsAssumption DEF SentInv, InflightLimit
<1>5. QED
  BY <1>2, <1>3, <1>4 DEF SentInv, InflightExact

LEMMA QueuedRequests ==
  ASSUME Lanes, NEW r \in Requests
  PROVE  /\ r \in Elements(high) \cup Elements(low) <=> stage[r] = "queued"
         /\ r \in Elements(high) => r \in High
         /\ r \in Elements(low) => r \notin High
<1>1. DOMAIN high = 1 .. Len(high) /\ DOMAIN low = 1 .. Len(low)
  BY LenProperties DEF Lanes
<1>2. Elements(high) \subseteq High
  BY <1>1, ElementOfSeq DEF Lanes, Elements
<1>3. Elements(low) \subseteq Requests \ High
  BY <1>1, ElementOfSeq DEF Lanes, Elements
<1>4. QED
  BY <1>2, <1>3 DEF Lanes, QueuedOnce

(* Request r, which is not queued, is put at either end of its queue.      *)
LEMMA Enqueued ==
  ASSUME Types, Lanes, NEW r \in Requests, stage[r] # "queued",
         stage' = [stage EXCEPT ![r] = "queued"],
         \/ /\ high' = IF r \in High THEN Append(high, r) ELSE high
            /\ low' = IF r \in High THEN low ELSE Append(low, r)
         \/ /\ high' = IF r \in High THEN <<r>> \o high ELSE high
            /\ low' = IF r \in High THEN low ELSE <<r>> \o low
  PROVE  Lanes'
<1>1. r \notin Elements(high) /\ r \notin Elements(low)
  BY QueuedRequests
<1>2. Once(high) /\ Once(low)
  BY DEF Lanes, QueuedOnce
<1>3. r \in Exchanges
  BY DEF Exchanges
<1>4. {y \in Requests : stage'[y] = "queued"} = {y \in Requests : stage[y] = "queued"} \cup {r}
  BY <1>3 DEF Types, Exchanges
<1>5. CASE r \in High
  <2>1. /\ high' \in Seq(High) /\ Once(high') /\ Elements(high') = Elements(high) \cup {r}
        /\ low' = low
    <3>1. high \in Seq(High) /\ r \in High
      BY <1>5 DEF Lanes
    <3>2. /\ Append(high, r) \in Seq(High) /\ Once(Append(high, r))
          /\ Elements(Append(high, r)) = Elements(high) \cup {r}
      BY <1>1, <1>2, <3>1, AppendOnce
    <3>3. /\ <<r>> \o high \in Seq(High) /\ Once(<<r>> \o high)
          /\ Elements(<<r>> \o high) = Elements(high) \cup {r}
      BY <1>1, <1>2, <3>1, PrependOnce
    <3>4. low' = low /\ (high' = Append(high, r) \/ high' = <<r>> \o high)
      BY <1>5
    <3> QED
      BY <3>2, <3>3, <3>4
  <2>2. Elements(high') \cup Elements(low') = {y \in Requests : stage'[y] = "queued"}
    BY <1>4, <2>1 DEF Lanes, QueuedOnce
  <2> QED
    BY <1>2, <2>1, <2>2 DEF Lanes, QueuedOnce
<1>6. CASE r \notin High
  <2>1. /\ low' \in Seq(Requests \ High) /\ Once(low') /\ Elements(low') = Elements(low) \cup {r}
        /\ high' = high
    <3>1. low \in Seq(Requests \ High) /\ r \in (Requests \ High)
      BY <1>6 DEF Lanes
    <3>2. /\ Append(low, r) \in Seq(Requests \ High) /\ Once(Append(low, r))
          /\ Elements(Append(low, r)) = Elements(low) \cup {r}
      BY <1>1, <1>2, <3>1, AppendOnce
    <3>3. /\ <<r>> \o low \in Seq(Requests \ High) /\ Once(<<r>> \o low)
          /\ Elements(<<r>> \o low) = Elements(low) \cup {r}
      BY <1>1, <1>2, <3>1, PrependOnce
    <3>4. high' = high /\ (low' = Append(low, r) \/ low' = <<r>> \o low)
      BY <1>6
    <3> QED
      BY <3>2, <3>3, <3>4
  <2>2. Elements(high') \cup Elements(low') = {y \in Requests : stage'[y] = "queued"}
    BY <1>4, <2>1 DEF Lanes, QueuedOnce
  <2> QED
    BY <1>2, <2>1, <2>2 DEF Lanes, QueuedOnce
<1>7. QED
  BY <1>5, <1>6

-----------------------------------------------------------------------------
(* The loop of the pump.                                                   *)

LEMMA PopOrderOnce ==
  ASSUME Types, Lanes
  PROVE  /\ Len(high) \in Nat /\ Len(low) \in Nat
         /\ PopOrder \in Seq(Requests) /\ Len(PopOrder) = Len(high) + Len(low)
         /\ DOMAIN PopOrder = 1 .. Len(high) + Len(low)
         /\ \A i \in 1 .. Len(high) : PopOrder[i] = high[i] /\ high[i] \in High
         /\ \A i \in Len(high) + 1 .. Len(high) + Len(low) :
              PopOrder[i] = low[i - Len(high)] /\ low[i - Len(high)] \in Requests \ High
         /\ Once(PopOrder)
         /\ Elements(PopOrder) = {r \in Requests : stage[r] = "queued"}
<1>1. /\ Len(high) \in Nat /\ Len(low) \in Nat
      /\ DOMAIN high = 1 .. Len(high) /\ DOMAIN low = 1 .. Len(low)
  BY LenProperties DEF Lanes
<1>2. PopOrder \in Seq(Requests) /\ Len(PopOrder) = Len(high) + Len(low)
  BY PopOrderProperties
<1>3. DOMAIN PopOrder = 1 .. Len(high) + Len(low)
  BY <1>2, LenProperties
<1>4. \A i \in 1 .. Len(high) + Len(low) :
        PopOrder[i] = IF i <= Len(high) THEN high[i] ELSE low[i - Len(high)]
  BY ConcatProperties DEF PopOrder, Types
<1>5. \A i \in 1 .. Len(high) : PopOrder[i] = high[i] /\ high[i] \in High
  BY <1>1, <1>4, ElementOfSeq DEF Lanes
<1>6. ASSUME NEW i \in Len(high) + 1 .. Len(high) + Len(low)
      PROVE  /\ i - Len(high) \in 1 .. Len(low)
             /\ PopOrder[i] = low[i - Len(high)] /\ low[i - Len(high)] \in Requests \ High
  <2>1. i - Len(high) \in 1 .. Len(low) /\ i \in 1 .. Len(high) + Len(low) /\ ~(i <= Len(high))
    BY <1>1
  <2> QED
    BY <1>4, <2>1, ElementOfSeq DEF Lanes
<1>7. \A i \in 1 .. Len(high) + Len(low) :
        i \in 1 .. Len(high) \/ i \in Len(high) + 1 .. Len(high) + Len(low)
  BY <1>1
<1>8. Once(PopOrder)
  <2> SUFFICES ASSUME NEW i \in 1 .. Len(high) + Len(low), NEW j \in 1 .. Len(high) + Len(low),
                      PopOrder[i] = PopOrder[j]
               PROVE  i = j
    BY <1>3 DEF Once
  <2>1. CASE i \in 1 .. Len(high) /\ j \in 1 .. Len(high)
    BY <1>1, <1>5, <2>1 DEF Lanes, QueuedOnce, Once
  <2>2. CASE i \in Len(high) + 1 .. Len(high) + Len(low) /\ j \in Len(high) + 1 .. Len(high) + Len(low)
    <3>1. /\ i - Len(high) \in 1 .. Len(low) /\ j - Len(high) \in 1 .. Len(low)
          /\ low[i - Len(high)] = low[j - Len(high)]
      BY <1>6, <2>2
    <3>2. i - Len(high) = j - Len(high)
      BY <1>1, <3>1 DEF Lanes, QueuedOnce, Once
    <3> QED
      BY <1>1, <3>2
  <2> QED
    BY <1>5, <1>6, <1>7, <2>1, <2>2
<1>9. Elements(PopOrder) = Elements(high) \cup Elements(low)
  <2>1. ASSUME NEW i \in 1 .. Len(high) + Len(low)
        PROVE  PopOrder[i] \in Elements(high) \cup Elements(low)
    BY <1>1, <1>5, <1>6, <1>7 DEF Elements
  <2>2. ASSUME NEW i \in 1 .. Len(high)
        PROVE  high[i] \in Elements(PopOrder)
    <3>1. i \in DOMAIN PopOrder /\ PopOrder[i] = high[i]
      BY <1>1, <1>3, <1>5
    <3> QED
      BY <3>1 DEF Elements
  <2>3. ASSUME NEW i \in 1 .. Len(low)
        PROVE  low[i] \in Elements(PopOrder)
    <3>1. Len(high) + i \in Len(high) + 1 .. Len(high) + Len(low) /\ (Len(high) + i) - Len(high) = i
      BY <1>1
    <3>2. PopOrder[Len(high) + i] = low[i] /\ Len(high) + i \in DOMAIN PopOrder
      BY <1>1, <1>3, <1>6, <3>1
    <3> QED
      BY <3>2 DEF Elements
  <2> QED
    BY <1>1, <1>3, <2>1, <2>2, <2>3 DEF Elements
<1>10. QED
  BY <1>1, <1>2, <1>3, <1>5, <1>6, <1>8, <1>9 DEF Lanes, QueuedOnce

(* What the pump leaves in the queues.                                     *)
LEMMA PopRest ==
  ASSUME Types, Lanes, NEW n \in 0 .. Len(PopOrder),
         high' = SubSeq(high, n + 1, Len(high)),
         low' = IF n <= Len(high) THEN low ELSE SubSeq(low, n - Len(high) + 1, Len(low))
  PROVE  /\ high' \in Seq(High) /\ low' \in Seq(Requests \ High) /\ Once(high') /\ Once(low')
         /\ Elements(high') \cup Elements(low') = {PopOrder[i] : i \in n + 1 .. Len(PopOrder)}
<1> DEFINE Rest == {PopOrder[i] : i \in n + 1 .. Len(PopOrder)}
<1>1. /\ Len(high) \in Nat /\ Len(low) \in Nat /\ Len(PopOrder) = Len(high) + Len(low)
      /\ \A i \in 1 .. Len(high) : PopOrder[i] = high[i]
      /\ \A i \in Len(high) + 1 .. Len(high) + Len(low) : PopOrder[i] = low[i - Len(high)]
  BY PopOrderOnce
<1>2. n \in Nat /\ n <= Len(high) + Len(low)
  BY <1>1
<1>3. /\ DOMAIN low = 1 .. Len(low) /\ Once(high) /\ Once(low)
      /\ high \in Seq(High) /\ low \in Seq(Requests \ High)
  BY LenProperties DEF Lanes, QueuedOnce
<1>4. \A i \in 1 .. Len(low) : PopOrder[Len(high) + i] = low[i]
  <2> SUFFICES ASSUME NEW i \in 1 .. Len(low) PROVE PopOrder[Len(high) + i] = low[i]
    OBVIOUS
  <2>1. Len(high) + i \in Len(high) + 1 .. Len(high) + Len(low) /\ (Len(high) + i) - Len(high) = i
    BY <1>1
  <2> QED
    BY <1>1, <2>1
<1>5. CASE n <= Len(high)
  <2>1. n \in 0 .. Len(high) /\ low' = low
    BY <1>1, <1>2, <1>5
  <2>2. /\ high' \in Seq(High) /\ Once(high')
        /\ Elements(high') = {high[i] : i \in n + 1 .. Len(high)}
    BY <1>3, <2>1, RestOnce
  <2>3. ASSUME NEW i \in n + 1 .. Len(high)
        PROVE  high[i] \in Rest
    <3>1. i \in n + 1 .. Len(PopOrder) /\ PopOrder[i] = high[i]
      BY <1>1, <1>2
    <3> QED
      BY <3>1
  <2>4. ASSUME NEW i \in 1 .. Len(low)
        PROVE  low[i] \in Rest
    <3>1. Len(high) + i \in n + 1 .. Len(PopOrder) /\ PopOrder[Len(high) + i] = low[i]
      BY <1>1, <1>2, <1>4, <1>5
    <3> QED
      BY <3>1
  <2>5. ASSUME NEW i \in n + 1 .. Len(PopOrder)
        PROVE  PopOrder[i] \in Elements(high') \cup Elements(low)
    <3>1. CASE i <= Len(high)
      <4>1. i \in n + 1 .. Len(high) /\ PopOrder[i] = high[i]
        BY <1>1, <1>2, <3>1
      <4> QED
        BY <2>2, <4>1
    <3>2. CASE ~(i <= Len(high))
      <4>1. i - Len(high) \in 1 .. Len(low) /\ PopOrder[i] = low[i - Len(high)]
        BY <1>1, <1>2, <3>2
      <4> QED
        BY <1>3, <4>1 DEF Elements
    <3> QED
      BY <3>1, <3>2
  <2>6. Elements(high') \cup Elements(low) = Rest
    <3>1. Elements(high') \subseteq Rest
      BY <2>2, <2>3
    <3>2. Elements(low) = {low[i] : i \in 1 .. Len(low)}
      BY <1>3 DEF Elements
    <3>3. Elements(low) \subseteq Rest
      BY <2>4, <3>2
    <3>4. Rest \subseteq Elements(high') \cup Elements(low)
      BY <2>5
    <3> QED
      BY <3>1, <3>3, <3>4
  <2> QED
    BY <1>3, <2>1, <2>2, <2>6
<1>6. CASE ~(n <= Len(high))
  <2> DEFINE k == n - Len(high)
  <2>1. k \in 0 .. Len(low) /\ low' = SubSeq(low, k + 1, Len(low))
    BY <1>1, <1>2, <1>6
  <2>2. high' = <<>>
    BY <1>1, <1>2, <1>6, SubSeqEmpty
  <2>3. high' \in Seq(High) /\ Once(high') /\ Elements(high') = {}
    <3>1. <<>> \in Seq(High) /\ DOMAIN <<>> = {}
      OBVIOUS
    <3> QED
      BY <2>2, <3>1 DEF Once, Elements
  <2>4. /\ low' \in Seq(Requests \ High) /\ Once(low')
        /\ Elements(low') = {low[i] : i \in k + 1 .. Len(low)}
    BY <1>3, <2>1, RestOnce
  <2>5. ASSUME NEW i \in k + 1 .. Len(low)
        PROVE  low[i] \in Rest
    <3>1. i \in 1 .. Len(low) /\ Len(high) + i \in n + 1 .. Len(PopOrder)
      BY <1>1, <1>2, <1>6
    <3> QED
      BY <1>4, <3>1
  <2>6. ASSUME NEW i \in n + 1 .. Len(PopOrder)
        PROVE  PopOrder[i] \in {low[j] : j \in k + 1 .. Len(low)}
    <3>1. i - Len(high) \in k + 1 .. Len(low) /\ PopOrder[i] = low[i - Len(high)]
      BY <1>1, <1>2, <1>6
    <3> QED
      BY <3>1
  <2> QED
    BY <2>3, <2>4, <2>5, <2>6
<1>7. QED
  BY <1>5, <1>6

(* As many requests are sent as can be built.                              *)
LEMMA BuiltCount ==
  ASSUME Types, Lanes, NEW n \in 0 .. Len(PopOrder)
  PROVE  LET built == {PopOrder[i] : i \in {j \in 1 .. n : PopOrder[j] \notin Unbuildable}}
         IN  IsFiniteSet(built) /\ Cardinality(built) = Built(n)
<1> DEFINE at == {j \in 1 .. n : PopOrder[j] \notin Unbuildable}
           built == {PopOrder[i] : i \in at}
           f == [i \in at |-> PopOrder[i]]
<1>1. Len(PopOrder) \in Nat /\ DOMAIN PopOrder = 1 .. Len(PopOrder) /\ Once(PopOrder)
  BY PopOrderOnce
<1>2. IsFiniteSet(at)
  <2>1. IsFiniteSet(1 .. n)
    BY <1>1, FS_Interval
  <2> QED
    BY <2>1, FS_Subset
<1>3. at \subseteq DOMAIN PopOrder
  BY <1>1
<1>4. f \in Surjection(at, built)
  BY DEF Surjection
<1>5. f \in Injection(at, built)
  <2>1. f \in [at -> built]
    OBVIOUS
  <2>2. \A i, j \in at : f[i] = f[j] => i = j
    BY <1>1, <1>3 DEF Once
  <2> HIDE DEF f
  <2> QED
    BY <2>1, <2>2 DEF Injection, IsInjective
<1> HIDE DEF f
<1>6. IsFiniteSet(built) /\ Cardinality(built) = Cardinality(at)
  BY <1>2, <1>4, <1>5, FS_Surjection
<1>7. QED
  BY <1>6 DEF Built

LEMMA BuiltStep ==
  ASSUME NEW n \in Nat \ {0}
  PROVE  Built(n) <= Built(n - 1) + 1
<1> DEFINE at == {i \in 1 .. n : PopOrder[i] \notin Unbuildable}
           before == {i \in 1 .. n - 1 : PopOrder[i] \notin Unbuildable}
<1>1. IsFiniteSet(before)
  <2>1. IsFiniteSet(1 .. n - 1)
    BY FS_Interval
  <2> QED
    BY <2>1, FS_Subset
<1>2. at \subseteq before \cup {n}
  OBVIOUS
<1>3. /\ IsFiniteSet(before \cup {n}) /\ Cardinality(before) \in Nat
      /\ Cardinality(before \cup {n}) <= Cardinality(before) + 1
  BY <1>1, FS_AddElement, FS_CardinalityType
<1>4. /\ Cardinality(at) <= Cardinality(before \cup {n}) /\ Cardinality(at) \in Nat
      /\ Cardinality(before \cup {n}) \in Nat
  BY <1>2, <1>3, FS_Subset, FS_CardinalityType
<1> HIDE DEF at, before
<1>5. Cardinality(at) <= Cardinality(before) + 1
  BY <1>3, <1>4
<1>6. QED
  BY <1>5 DEF Built, at, before

LEMMA PumpQueues ==
  ASSUME Inv, QueuesInv, Pump
  PROVE  QueuesInv'
<1>1. mode' = mode /\ faults' = faults /\ finished' = finished
  BY DEF Pump
<1>2. CASE ~IsReady
  <2>1. stage' = stage /\ inflight' = inflight /\ high' = high /\ low' = low
    BY <1>2 DEF Pump
  <2>2. Lanes'
    BY <2>1, SameLanes DEF QueuesInv
  <2>3. SentInv'
    BY <1>1, <2>1 DEF QueuesInv, SentInv, Sent, InflightExact, InflightLimit
  <2> QED
    BY <1>1, <2>2, <2>3 DEF QueuesInv, Settings
<1>3. CASE IsReady
  <2> USE DEF QueuesInv, Inv
  <2>1. PICK n \in 0 .. Len(PopOrder) :
          /\ \A i \in 0 .. n - 1 : SlotFree(i)
          /\ stage' = [x \in Exchanges |->
                         IF \A i \in 1 .. n : PopOrder[i] # x THEN stage[x]
                         ELSE IF x \in Unbuildable THEN "error" ELSE "sent"]
          /\ inflight' = inflight + Built(n)
          /\ high' = SubSeq(high, n + 1, Len(high))
          /\ low' = IF n <= Len(high) THEN low ELSE SubSeq(low, n - Len(high) + 1, Len(low))
    BY <1>3 DEF Pump
  <2>2. /\ PopOrder \in Seq(Requests) /\ Len(PopOrder) \in Nat
        /\ DOMAIN PopOrder = 1 .. Len(PopOrder) /\ Once(PopOrder)
        /\ Elements(PopOrder) = {r \in Requests : stage[r] = "queued"}
    BY PopOrderOnce
  <2>3. n \in Nat /\ n <= Len(PopOrder)
    BY <2>2
  <2>4. \A i \in 1 .. n : PopOrder[i] \in Requests /\ stage[PopOrder[i]] = "queued"
    BY <2>2, <2>3 DEF Elements
  <2>5. Requests \subseteq Exchanges
    BY DEF Exchanges
  <2>6. Lanes'
    <3>1. /\ high' \in Seq(High) /\ low' \in Seq(Requests \ High) /\ Once(high') /\ Once(low')
          /\ Elements(high') \cup Elements(low') = {PopOrder[i] : i \in n + 1 .. Len(PopOrder)}
      BY <2>1, PopRest
    <3>2. ASSUME NEW i \in n + 1 .. Len(PopOrder)
          PROVE  PopOrder[i] \in {r \in Requests : stage'[r] = "queued"}
      <4>1. i \in DOMAIN PopOrder /\ \A j \in 1 .. n : j \in DOMAIN PopOrder /\ j # i
        BY <2>2, <2>3
      <4>2. PopOrder[i] \in Requests /\ stage[PopOrder[i]] = "queued"
        BY <2>2, <4>1 DEF Elements
      <4>3. \A j \in 1 .. n : PopOrder[j] # PopOrder[i]
        BY <2>2, <4>1 DEF Once
      <4> QED
        BY <2>1, <2>5, <4>2, <4>3
    <3>3. ASSUME NEW r \in Requests, stage'[r] = "queued"
          PROVE  r \in {PopOrder[i] : i \in n + 1 .. Len(PopOrder)}
      <4>1. stage[r] = "queued" /\ \A i \in 1 .. n : PopOrder[i] # r
        BY <2>1, <2>5, <3>3
      <4>2. PICK i \in 1 .. Len(PopOrder) : PopOrder[i] = r
        BY <2>2, <4>1 DEF Elements
      <4>3. i \in n + 1 .. Len(PopOrder)
        BY <2>2, <2>3, <4>1, <4>2
      <4> QED
        BY <4>2, <4>3
    <3>4. Elements(high') \cup Elements(low') = {r \in Requests : stage'[r] = "queued"}
      BY <3>1, <3>2, <3>3
    <3> QED
      BY <3>1, <3>4 DEF Lanes, QueuedOnce
  <2>7. SentInv'
    <3> DEFINE built == {PopOrder[i] : i \in {j \in 1 .. n : PopOrder[j] \notin Unbuildable}}
    <3>1. IsFiniteSet(built) /\ Cardinality(built) = Built(n) /\ Built(n) \in Nat
      BY <2>3, BuiltCount, BuiltType
    <3>2. built \subseteq Requests /\ \A x \in built : stage[x] = "queued"
      BY <2>4
    <3>3. Sent' = Sent \cup built
      BY <2>1, <2>4, <2>5 DEF Sent
    <3>4. Sent \cap built = {}
      BY <3>2 DEF Sent
    <3> HIDE DEF built
    <3>5. Cardinality(Sent) \in Nat
      BY FS_CardinalityType DEF SentInv
    <3>6. IsFiniteSet(Sent') /\ Cardinality(Sent') = Cardinality(Sent) + Built(n)
      <4>1. Cardinality(Sent \cap built) = 0
        BY <3>4, FS_EmptySet
      <4>2. /\ IsFiniteSet(Sent \cup built)
            /\ Cardinality(Sent \cup built) = Cardinality(Sent) + Cardinality(built) - Cardinality(Sent \cap built)
        BY <3>1, FS_Union DEF SentInv
      <4> QED
        BY <3>1, <3>3, <3>5, <4>1, <4>2
    <3>7. InflightExact'
      BY <1>1, <2>1, <3>1, <3>5, <3>6 DEF SentInv, InflightExact, Types
    <3>8. InflightLimit'
      <4>1. CASE n = 0
        <5>1. built = {}
          BY <4>1 DEF built
        <5> QED
          BY <3>3, <5>1 DEF SentInv, InflightLimit
      <4>2. CASE n # 0
        <5>1. n - 1 \in 0 .. n - 1 /\ n \in Nat \ {0} /\ n - 1 \in Nat
          BY <2>3, <4>2
        <5>2. inflight + Built(n - 1) < MaxInflight
          BY <2>1, <5>1 DEF SlotFree
        <5>3. inflight + Built(n) <= MaxInflight
          <6>1. Built(n) <= Built(n - 1) + 1 /\ Built(n - 1) \in Nat
            BY <5>1, BuiltStep, BuiltType
          <6>2. inflight \in Int /\ MaxInflight \in Nat
            BY BoundsAssumption DEF Types
          <6> QED
            BY <3>1, <5>2, <6>1, <6>2
        <5>4. Cardinality(Sent') <= MaxInflight
          BY <3>1, <3>5, <3>6, <5>3, BoundsAssumption DEF SentInv, InflightExact, Types
        <5>5. Cardinality(Sent' \cap Requests) <= Cardinality(Sent') /\ Cardinality(Sent' \cap Requests) \in Nat
          BY <3>6, FS_Intersection, FS_CardinalityType
        <5> QED
          BY <3>1, <3>5, <3>6, <5>4, <5>5, BoundsAssumption DEF InflightLimit
      <4> QED
        BY <4>1, <4>2
    <3> QED
      BY <3>6, <3>7, <3>8 DEF SentInv
  <2> QED
    BY <1>1, <2>6, <2>7 DEF Settings
<1>4. QED
  BY <1>2, <1>3

-----------------------------------------------------------------------------
(* The other actions.                                                      *)

LEMMA SentMoved ==
  ASSUME Types, NEW x \in Exchanges, NEW s, stage' = [stage EXCEPT ![x] = s]
  PROVE  Sent' = IF s = "sent" THEN Sent \cup {x} ELSE Sent \ {x}
BY DEF Types, Sent

LEMMA FaultSettings ==
  ASSUME Settings, mode' = mode, NEW outcome, Fault(outcome)
  PROVE  Settings'
BY BoundsAssumption DEF Settings, Fault

LEMMA HandleHttpResponseQueues ==
  ASSUME Types, Lanes, NEW x \in Exchanges, NEW outcome \in Outcomes, stage[x] # "queued",
         HandleHttpResponse(x, outcome)
  PROVE  Lanes' /\ Sent' = Sent \ {x}
<1>1. CASE outcome = "network" /\ x \in Retrying
  <2>1. Retry(x) /\ x \in Requests
    BY <1>1, SetsAssumption DEF HandleHttpResponse
  <2>2. /\ stage' = [stage EXCEPT ![x] = "queued"]
        /\ high' = IF x \in High THEN <<x>> \o high ELSE high
        /\ low' = IF x \in High THEN low ELSE <<x>> \o low
    BY <2>1 DEF Retry
  <2>3. Lanes'
    BY <2>1, <2>2, Enqueued
  <2>4. Sent' = IF "queued" = "sent" THEN Sent \cup {x} ELSE Sent \ {x}
    BY <2>2, SentMoved
  <2> QED
    BY <2>3, <2>4
<1>2. CASE ~(outcome = "network" /\ x \in Retrying)
  <2>1. stage' = [stage EXCEPT ![x] = outcome] /\ high' = high /\ low' = low
    BY <1>2 DEF HandleHttpResponse
  <2>2. \A r \in Requests : stage'[r] = "queued" <=> stage[r] = "queued"
    BY <2>1, OutcomeStages DEF Types, Exchanges
  <2>3. Lanes'
    BY <2>1, <2>2, SameLanes
  <2>4. outcome # "sent"
    BY DEF Outcomes
  <2>5. Sent' = Sent \ {x}
    BY <2>1, <2>4, SentMoved
  <2> QED
    BY <2>3, <2>5
<1>3. QED
  BY <1>1, <1>2

LEMMA AnswersQueues ==
  ASSUME Inv, QueuesInv, NEW x \in Exchanges, Answers(x)
  PROVE  QueuesInv'
<1> USE DEF Inv, QueuesInv
<1>1. PICK outcome \in Outcomes :
        Respond(x, outcome) \/ RespondStatus(x, outcome) \/ BodyRead(x, outcome)
  BY DEF Answers
<1>2. CASE Respond(x, outcome)
  <2>1. /\ stage[x] = "sent" /\ Fault(outcome) /\ finished' = finished + 1 /\ mode' = mode
        /\ inflight' = inflight /\ HandleHttpResponse(x, outcome)
    BY <1>2 DEF Respond
  <2>2. x \in Sent
    BY <2>1 DEF Sent
  <2>3. Lanes' /\ Sent' = Sent \ {x}
    BY <2>1, HandleHttpResponseQueues
  <2>4. SentInv'
    BY <2>1, <2>2, <2>3, LessSent
  <2> QED
    BY <2>1, <2>3, <2>4, FaultSettings
<1>3. CASE RespondStatus(x, outcome)
  <2>1. /\ stage[x] = "sent" /\ Fault(outcome) /\ finished' = finished + 1 /\ mode' = mode
        /\ inflight' = inflight /\ high' = high /\ low' = low
        /\ outcome \in Outcomes \ {"ok"} /\ stage' = [stage EXCEPT ![x] = Body(outcome)]
    BY <1>3 DEF RespondStatus
  <2>2. x \in Sent
    BY <2>1 DEF Sent
  <2>3. Body(outcome) \notin {"none", "queued", "sent"}
    BY <2>1, BodyStage
  <2>4. Sent' = Sent \ {x}
    BY <2>1, <2>3, SentMoved
  <2>5. \A r \in Requests : stage'[r] = "queued" <=> stage[r] = "queued"
    BY <2>1, <2>3 DEF Types, Exchanges
  <2>6. Lanes'
    BY <2>1, <2>5, SameLanes
  <2>7. SentInv'
    BY <2>1, <2>2, <2>4, LessSent
  <2> QED
    BY <2>1, <2>6, <2>7, FaultSettings
<1>4. CASE BodyRead(x, outcome)
  <2>1. /\ finished' = finished /\ inflight' = inflight /\ mode' = mode /\ faults' = faults
        /\ outcome \in Outcomes \ {"ok"} /\ stage[x] = Body(outcome) /\ HandleHttpResponse(x, outcome)
    BY <1>4 DEF BodyRead
  <2>2. stage[x] \notin {"none", "queued", "sent"}
    BY <2>1, BodyStage
  <2>3. Lanes' /\ Sent' = Sent
    BY <2>1, <2>2, HandleHttpResponseQueues DEF Sent
  <2>4. SentInv'
    BY <2>1, <2>3, SameSent DEF Types
  <2> QED
    BY <2>1, <2>3, <2>4 DEF Settings
<1>5. QED
  BY <1>1, <1>2, <1>3, <1>4

LEMMA SendRequestQueues ==
  ASSUME Inv, QueuesInv, NEW r \in Requests, SendRequest(r)
  PROVE  QueuesInv'
<1> USE DEF Inv, QueuesInv
<1>1. /\ stage[r] = "none" /\ stage' = [stage EXCEPT ![r] = "queued"]
      /\ high' = IF r \in High THEN Append(high, r) ELSE high
      /\ low' = IF r \in High THEN low ELSE Append(low, r)
      /\ mode' = mode /\ faults' = faults /\ inflight' = inflight /\ finished' = finished
  BY DEF SendRequest
<1>2. Lanes'
  BY <1>1, Enqueued
<1>3. Sent' = Sent
  <2>1. r \in Exchanges /\ r \notin Sent
    BY <1>1 DEF Exchanges, Sent
  <2>2. Sent' = IF "queued" = "sent" THEN Sent \cup {r} ELSE Sent \ {r}
    BY <1>1, <2>1, SentMoved
  <2> QED
    BY <2>1, <2>2
<1>4. SentInv'
  BY <1>1, <1>3, SameSent DEF Types
<1>5. QED
  BY <1>1, <1>2, <1>4 DEF Settings

LEMMA TrackedFutureFinishedQueues ==
  ASSUME Inv, QueuesInv, TrackedFutureFinished
  PROVE  QueuesInv'
<1> USE DEF Inv, QueuesInv
<1>1. /\ stage' = stage /\ high' = high /\ low' = low /\ mode' = mode /\ faults' = faults
      /\ finished > 0 /\ finished' = finished - 1 /\ inflight' = inflight - 1
  BY DEF TrackedFutureFinished
<1>2. Lanes' /\ Sent' = Sent
  BY <1>1, SameLanes DEF Sent
<1>3. inflight' \in Int /\ finished' \in Nat /\ inflight' - finished' = inflight - finished
  BY <1>1 DEF Types
<1>4. SentInv'
  BY <1>2, <1>3, SameSent
<1>5. QED
  BY <1>1, <1>2, <1>4 DEF Settings

LEMMA CheckQueues ==
  ASSUME Inv, QueuesInv, NEW c \in Checks,
         CheckUpstreamConnection(c) \/ \E outcome \in Outcomes : CheckDone(c, outcome)
  PROVE  QueuesInv'
<1> USE DEF Inv, QueuesInv
<1>1. c \in Exchanges \ Requests
  BY SetsAssumption DEF Exchanges
<1>2. CASE CheckUpstreamConnection(c)
  <2>1. /\ stage[c] = "none" /\ stage' = [stage EXCEPT ![c] = "sent"] /\ inflight' = inflight + 1
        /\ finished' = finished /\ high' = high /\ low' = low /\ mode' = mode /\ faults' = faults
    BY <1>2 DEF CheckUpstreamConnection
  <2>2. c \notin Sent /\ Sent' = Sent \cup {c}
    BY <1>1, <2>1, SentMoved DEF Sent
  <2>3. SentInv'
    BY <1>1, <2>1, <2>2, MoreSent
  <2>4. Lanes'
    BY <1>1, <2>1, SameLanes DEF Types, Exchanges
  <2> QED
    BY <2>1, <2>3, <2>4 DEF Settings
<1>3. ASSUME NEW outcome \in Outcomes, CheckDone(c, outcome)
      PROVE  QueuesInv'
  <2>1. /\ stage[c] \in Outcomes /\ stage' = [stage EXCEPT ![c] = "none"] /\ inflight' = inflight
        /\ finished' = finished /\ high' = high /\ low' = low /\ mode' = mode
        /\ faults' = faults \/ Fault(outcome)
    BY <1>3 DEF CheckDone
  <2>2. stage[c] # "sent"
    BY <2>1 DEF Outcomes
  <2>3. Sent' = Sent
    BY <1>1, <2>1, <2>2, SentMoved DEF Sent
  <2>4. SentInv'
    BY <2>1, <2>3, SameSent DEF Types
  <2>5. Lanes'
    BY <1>1, <2>1, SameLanes DEF Types, Exchanges
  <2>6. Settings'
    BY <2>1, FaultSettings DEF Settings
  <2> QED
    BY <2>4, <2>5, <2>6
<1>4. QED
  BY <1>2, <1>3

LEMMA AuthQueues ==
  ASSUME Inv, QueuesInv, Authenticate \/ AuthChallenge \/ AuthRegistered \/ AuthEnds
  PROVE  QueuesInv'
<1> USE DEF Inv, QueuesInv
<1>1. /\ "challenge" \in Exchanges \ Requests /\ "response" \in Exchanges \ Requests
      /\ AuthRequests \cap Requests = {} /\ AuthRequests \subseteq Exchanges
  BY DisjointExchanges DEF Exchanges, AuthRequests
<1>2. CASE Authenticate
  <2>1. authTimers > 0 /\ high' = high /\ low' = low /\ mode' = mode /\ faults' = faults /\ finished' = finished
    BY <1>2 DEF Authenticate
  <2>2. ~AuthUnderWay /\ ~AuthStateError
    BY <2>1 DEF AuthInv, OneAuthentication
  <2>3. stage' = [stage EXCEPT !["challenge"] = "sent"] /\ inflight' = inflight + 1
    BY <1>2, <2>2 DEF Authenticate
  <2>4. "challenge" \notin Sent
    BY <2>2 DEF AuthUnderWay, AuthRequests, Sent
  <2>5. Sent' = Sent \cup {"challenge"}
    BY <1>1, <2>3, SentMoved
  <2>6. SentInv'
    BY <1>1, <2>1, <2>3, <2>4, <2>5, MoreSent
  <2>7. Lanes'
    BY <1>1, <2>1, <2>3, SameLanes DEF Types, Exchanges
  <2> QED
    BY <2>1, <2>6, <2>7 DEF Settings
<1>3. CASE AuthChallenge
  <2>1. /\ stage["challenge"] = "ok" /\ high' = high /\ low' = low /\ mode' = mode /\ faults' = faults
        /\ finished' = finished /\ inflight' = inflight + 1
        /\ stage' = [stage EXCEPT !["challenge"] = "none", !["response"] = "sent"]
    BY <1>3 DEF AuthChallenge
  <2>2. stage["response"] = "none"
    BY <2>1 DEF AuthInv, OneAuthentication
  <2>3. "response" \notin Sent /\ Sent' = Sent \cup {"response"}
    BY <1>1, <2>1, <2>2 DEF Sent, Types
  <2>4. SentInv'
    BY <1>1, <2>1, <2>3, MoreSent
  <2>5. Lanes'
    BY <1>1, <2>1, SameLanes DEF Types, Exchanges
  <2> QED
    BY <2>1, <2>4, <2>5 DEF Settings
<1>4. CASE AuthRegistered \/ AuthEnds
  <2>1. PICK x \in AuthRequests :
          /\ stage[x] \in Outcomes /\ stage' = [stage EXCEPT ![x] = "none"]
          /\ high' = high /\ low' = low /\ mode' = mode /\ inflight' = inflight /\ finished' = finished
          /\ faults' = faults \/ \E outcome \in Outcomes : Fault(outcome)
    <3>1. CASE AuthRegistered
      <4>1. stage["response"] \in Outcomes /\ "response" \in AuthRequests
        BY <3>1 DEF AuthRegistered, Outcomes, AuthRequests
      <4> QED
        BY <3>1, <4>1 DEF AuthRegistered
    <3>2. CASE AuthEnds
      BY <3>2 DEF AuthEnds, AuthFailed
    <3> QED
      BY <1>4, <3>1, <3>2
  <2>2. x \in Exchanges \ Requests /\ stage[x] # "sent"
    BY <1>1, <2>1 DEF Outcomes
  <2>3. Sent' = Sent
    BY <2>1, <2>2, SentMoved DEF Sent
  <2>4. SentInv'
    BY <2>1, <2>3, SameSent DEF Types
  <2>5. Lanes'
    BY <2>1, <2>2, SameLanes DEF Types, Exchanges
  <2>6. Settings'
    BY <2>1, FaultSettings DEF Settings
  <2> QED
    BY <2>4, <2>5, <2>6
<1>5. QED
  BY <1>2, <1>3, <1>4

LEMMA NextQueues ==
  ASSUME Inv, QueuesInv, [Next]_vars
  PROVE  QueuesInv'
<1>1. CASE \E r \in Requests : SendRequest(r)
  BY <1>1, SendRequestQueues
<1>2. CASE Pump
  BY <1>2, PumpQueues
<1>3. CASE TrackedFutureFinished
  BY <1>3, TrackedFutureFinishedQueues
<1>4. CASE \E x \in Exchanges : Answers(x)
  BY <1>4, AnswersQueues
<1>5. CASE \E c \in Checks : CheckUpstreamConnection(c) \/ \E outcome \in Outcomes : CheckDone(c, outcome)
  BY <1>5, CheckQueues
<1>6. CASE Authenticate \/ AuthChallenge \/ AuthRegistered \/ AuthEnds
  BY <1>6, AuthQueues
<1>7. CASE GracePasses \/ UNCHANGED vars
  <2>1. /\ mode' = mode /\ faults' = faults /\ inflight' = inflight /\ finished' = finished
        /\ high' = high /\ low' = low /\ stage' = stage
    BY <1>7 DEF GracePasses, vars
  <2>2. Lanes' /\ Sent' = Sent
    BY <2>1, SameLanes DEF QueuesInv, Sent
  <2> QED
    BY <2>1, <2>2, SameSent DEF Inv, QueuesInv, Types, Settings
<1>8. QED
  BY <1>1, <1>2, <1>3, <1>4, <1>5, <1>6, <1>7 DEF Next

LEMMA InitQueues ==
  ASSUME Init
  PROVE  QueuesInv
<1>1. Settings
  BY BoundsAssumption DEF Init, Settings
<1>2. Lanes
  BY DEF Init, Lanes, QueuedOnce, Once, Elements, Exchanges
<1>3. Sent = {}
  BY DEF Init, Sent
<1>4. SentInv
  <2>1. IsFiniteSet({}) /\ Cardinality({}) = 0
    BY FS_EmptySet
  <2>2. Sent \cap Requests = {}
    BY <1>3
  <2>3. InflightExact
    BY <1>3, <2>1 DEF Init, InflightExact
  <2>4. InflightLimit
    BY <2>1, <2>2, BoundsAssumption DEF InflightLimit
  <2> QED
    BY <1>3, <2>1, <2>3, <2>4 DEF SentInv
<1>5. QED
  BY <1>1, <1>2, <1>4 DEF QueuesInv

LEMMA QueuesInvExact ==
  ASSUME Inv, QueuesInv
  PROVE  QueuesExact
<1>1. inflight \in Nat
  <2>1. Cardinality(Sent) \in Nat
    BY FS_CardinalityType DEF QueuesInv, SentInv
  <2> QED
    BY <2>1 DEF Inv, Types, QueuesInv, SentInv, InflightExact
<1>2. TypeOK
  BY <1>1 DEF Inv, Types, QueuesInv, Settings, Lanes, TypeOK
<1>3. QED
  BY <1>2 DEF QueuesExact, QueuesInv, Lanes, SentInv

(* The queues hold every queued request once, num_inflight_requests counts *)
(* the requests that were sent and no other, and the queues never send     *)
(* more than max_concurrent_requests at a time.                            *)
THEOREM QueuesAreExact == Spec => []QueuesExact
<1>1. QED
  BY InitInv, NextInv, InitQueues, NextQueues, QueuesInvExact, PTL DEF Spec

-----------------------------------------------------------------------------
(* What HighFirst says of a step.                                          *)
HighPopped ==
  \A r, h \in Requests :
    /\ stage[r] = "queued" /\ stage'[r] = "sent" /\ r \notin High
    /\ stage[h] = "queued" /\ h \in High
    => stage'[h] # "queued"

LEMMA PumpHighFirst ==
  ASSUME Inv, QueuesInv, Pump
  PROVE  HighPopped
<1> SUFFICES ASSUME NEW r \in Requests, NEW h \in Requests,
                    stage[r] = "queued", stage'[r] = "sent", r \notin High,
                    stage[h] = "queued", h \in High
             PROVE  stage'[h] # "queued"
  BY DEF HighPopped
<1> USE DEF Inv, QueuesInv
<1>1. PICK n \in 0 .. Len(PopOrder) :
        stage' = [x \in Exchanges |->
                    IF \A i \in 1 .. n : PopOrder[i] # x THEN stage[x]
                    ELSE IF x \in Unbuildable THEN "error" ELSE "sent"]
  <2>1. IsReady
    BY DEF Pump
  <2> QED
    BY <2>1 DEF Pump
<1>2. /\ Len(high) \in Nat /\ Len(low) \in Nat /\ Len(PopOrder) = Len(high) + Len(low)
      /\ DOMAIN PopOrder = 1 .. Len(high) + Len(low)
      /\ \A i \in 1 .. Len(high) : PopOrder[i] \in High
      /\ \A i \in Len(high) + 1 .. Len(high) + Len(low) : PopOrder[i] \notin High
      /\ Elements(PopOrder) = {x \in Requests : stage[x] = "queued"}
  BY PopOrderOnce
<1>3. r \in Exchanges /\ h \in Exchanges
  BY DEF Exchanges
<1>4. PICK i \in 1 .. n : PopOrder[i] = r
  BY <1>1, <1>3
<1>5. i > Len(high)
  BY <1>1, <1>2, <1>4
<1>6. PICK j \in 1 .. Len(high) + Len(low) : PopOrder[j] = h
  BY <1>2 DEF Elements
<1>7. j \in 1 .. Len(high)
  BY <1>2, <1>6
<1>8. j \in 1 .. n
  BY <1>1, <1>2, <1>5, <1>7
<1>9. QED
  BY <1>1, <1>3, <1>6, <1>8

(* No other action sends a request of the queues.                          *)
LEMMA OthersHighFirst ==
  ASSUME Inv, QueuesInv, [Next]_vars, ~Pump
  PROVE  HighPopped
<1> SUFFICES ASSUME NEW r \in Requests, stage[r] = "queued"
             PROVE  stage'[r] # "sent"
  BY DEF HighPopped
<1> USE DEF Inv, QueuesInv
<1>1. r \in Exchanges /\ r \notin Checks /\ r \notin AuthRequests /\ r # "challenge" /\ r # "response"
  BY SetsAssumption, DisjointExchanges DEF Exchanges, AuthRequests
<1>2. ASSUME NEW s \in Requests, SendRequest(s)
      PROVE  stage'[r] # "sent"
  BY <1>1, <1>2 DEF SendRequest, Types
<1>3. ASSUME NEW x \in Exchanges, Answers(x)
      PROVE  stage'[r] # "sent"
  <2>1. PICK outcome \in Outcomes :
          Respond(x, outcome) \/ RespondStatus(x, outcome) \/ BodyRead(x, outcome)
    BY <1>3 DEF Answers
  <2>2. stage[x] # "queued"
    BY <2>1, BodyStage DEF Respond, RespondStatus, BodyRead
  <2>3. CASE RespondStatus(x, outcome)
    BY <1>1, <2>2, <2>3 DEF RespondStatus, Types
  <2>4. CASE Respond(x, outcome) \/ BodyRead(x, outcome)
    <3>1. HandleHttpResponse(x, outcome)
      BY <2>4 DEF Respond, BodyRead
    <3>2. \A y \in Exchanges \ {x} : stage'[y] = stage[y]
      BY <3>1, HandleHttpResponseStep
    <3> QED
      BY <1>1, <2>2, <3>2
  <2> QED
    BY <2>1, <2>3, <2>4
<1>4. ASSUME NEW c \in Checks, CheckUpstreamConnection(c) \/ \E outcome \in Outcomes : CheckDone(c, outcome)
      PROVE  stage'[r] # "sent"
  <2>1. stage' = [stage EXCEPT ![c] = "sent"] \/ stage' = [stage EXCEPT ![c] = "none"]
    BY <1>4 DEF CheckUpstreamConnection, CheckDone
  <2> QED
    BY <1>1, <2>1 DEF Types
<1>5. CASE Authenticate
  BY <1>1, <1>5 DEF Authenticate, Types
<1>6. CASE AuthChallenge
  BY <1>1, <1>6 DEF AuthChallenge, Types
<1>7. CASE AuthRegistered
  BY <1>1, <1>7 DEF AuthRegistered, Types
<1>8. CASE AuthEnds
  BY <1>1, <1>8 DEF AuthEnds, AuthFailed, Types
<1>9. CASE TrackedFutureFinished \/ GracePasses \/ UNCHANGED vars
  BY <1>9 DEF TrackedFutureFinished, GracePasses, vars
<1>10. QED
  BY <1>2, <1>3, <1>4, <1>5, <1>6, <1>7, <1>8, <1>9 DEF Next

(* PumpHttpMessageQueue sends a low priority request only when it has      *)
(* popped every high priority request, with any number of free slots.      *)
THEOREM HighPriorityFirst == Spec => HighFirst
<1>1. Inv /\ QueuesInv /\ [Next]_vars => HighPopped
  BY PumpHighFirst, OthersHighFirst
<1>2. HighPopped => [\A r, h \in Requests :
                       /\ stage[r] = "queued" /\ stage'[r] = "sent" /\ r \notin High
                       /\ stage[h] = "queued" /\ h \in High
                       => stage'[h] # "queued"]_vars
  BY DEF HighPopped
<1>3. QED
  BY <1>1, <1>2, InitInv, NextInv, InitQueues, NextQueues, PTL DEF Spec, HighFirst

-----------------------------------------------------------------------------
(* Requests that pass an envelope on.                                      *)

(* Meta data of a request, or partial meta data in the first line of an    *)
(* envelope: any sets where a value is optional.                           *)
IsMeta(m) ==
  /\ m = [dsn |-> m.dsn, version |-> m.version, client |-> m.client, origin |-> m.origin, remote_addr |-> m.remote_addr,
          forwarded_for |-> m.forwarded_for, user_agent |-> m.user_agent, no_cache |-> m.no_cache]
  /\ m.version \in Nat /\ m.no_cache \in BOOLEAN
  /\ \E S : m.forwarded_for \in Seq(S)

(* A DSN whose key could be parsed.                                        *)
IsDsn(dsn) ==
  \E key, project : key # "malformed" /\ dsn = {[public_key |-> key, project_id |-> project]}

IsRequest(request) ==
  /\ \E address : request.peer = {address}
  /\ \E S : request.forwarded \in Seq(S)
  /\ \A source \in {get_auth_header(request.x_sentry_auth), get_auth_header(request.authorization), request.query, request.segment} :
       \A a \in source : a.version \in Nat
  /\ request.header = {} \/ \E h : request.header = {h} /\ IsMeta(h) /\ (h.dsn = {} \/ IsDsn(h.dsn))

(* The body of an envelope as it is written, within a limit.               *)
IsBody(body, limit) == (\E S : body \in Seq(S)) /\ body # <<>> /\ body[1] = "{" /\ Len(body) <= limit

(* Meta data that says who sent the request and for whom.                  *)
IsComplete(m) == IsMeta(m) /\ IsDsn(m.dsn) /\ m.remote_addr # {} /\ m.forwarded_for # <<>>

LEMMA SingleToSeq ==
  ASSUME NEW a
  PROVE  SetToSeq({a}) = <<a>>
<1> DEFINE F == [1 .. 1 -> {a}]
<1>1. Cardinality({a}) = 1
  BY FS_Singleton
<1>2. <<a>> \in F /\ IsInjective(<<a>>)
  BY DEF IsInjective
<1>3. \A f \in F : f = <<a>>
  OBVIOUS
<1> QED
  BY <1>1, <1>2, <1>3 DEF SetToSeq

LEMMA SingleFlattened ==
  ASSUME NEW body
  PROVE  FlattenSeq(<<body>>) = body
<1> DEFINE P(g) == g = [i \in 1 .. 1 |-> IF i = 1 THEN <<body>>[i] ELSE g[i - 1] \o <<body>>[i]]
           g == CHOOSE g : P(g)
<1>1. P([i \in 1 .. 1 |-> body])
  OBVIOUS
<1>2. P(g)
  BY <1>1
<1>3. g[1] = body
  BY <1>2
<1>4. FlattenSeq(<<body>>) = g[1]
  BY DEF FlattenSeq
<1> QED
  BY <1>3, <1>4

(* What copy_to makes of complete meta data is complete.                   *)
LEMMA CopyCompletes ==
  ASSUME NEW partial, IsMeta(partial), NEW old, IsMeta(old), IsDsn(old.dsn),
         partial.remote_addr # {} \/ old.remote_addr # {},
         partial.forwarded_for # <<>> \/ old.forwarded_for # <<>>
  PROVE  IsComplete(copy_to(partial, old)) /\ copy_to(partial, old).dsn = old.dsn
<1> DEFINE m == copy_to(partial, old)
<1>1. /\ m.dsn = old.dsn /\ m.version = (IF partial.version # default_version THEN partial.version ELSE old.version)
      /\ m.remote_addr = Either(partial.remote_addr, old.remote_addr)
      /\ m.forwarded_for = (IF partial.forwarded_for # <<>> THEN partial.forwarded_for ELSE old.forwarded_for)
      /\ m.no_cache = (partial.no_cache \/ old.no_cache)
      /\ m = [dsn |-> m.dsn, version |-> m.version, client |-> m.client, origin |-> m.origin, remote_addr |-> m.remote_addr,
              forwarded_for |-> m.forwarded_for, user_agent |-> m.user_agent, no_cache |-> m.no_cache]
  BY DEF copy_to
<1> HIDE DEF m
<1>2. m.version \in Nat
  BY <1>1 DEF IsMeta
<1>3. m.no_cache \in BOOLEAN
  BY <1>1 DEF IsMeta
<1>4. \E S : m.forwarded_for \in Seq(S)
  BY <1>1 DEF IsMeta
<1>5. IsMeta(m)
  BY <1>1, <1>2, <1>3, <1>4 DEF IsMeta
<1> QED
  BY <1>1, <1>5 DEF IsComplete, Either, m

LEMMA HeadersRead ==
  ASSUME NEW request, IsRequest(request)
  PROVE  LET m == from_headers(request)
         IN  IsMeta(m) /\ m.remote_addr # {} /\ m.forwarded_for # <<>>
<1> DEFINE m == from_headers(request)
<1>1. PICK address : request.peer = {address}
  BY DEF IsRequest
<1>2. PICK S : request.forwarded \in Seq(S)
  BY DEF IsRequest
<1>3. ForwardedFor(request) = Append(request.forwarded, address)
  <2>1. ForwardedFor(request) = request.forwarded \o <<address>>
    BY <1>1, SingleToSeq DEF ForwardedFor
  <2> QED
    BY <1>2, <2>1
<1>4. request.forwarded \in Seq(S \cup {address})
  BY <1>2
<1>5. /\ Append(request.forwarded, address) \in Seq(S \cup {address})
      /\ Append(request.forwarded, address) # <<>>
  <2>1. Len(Append(request.forwarded, address)) = Len(request.forwarded) + 1 /\ Len(request.forwarded) \in Nat
    BY <1>4
  <2>2. Len(<<>>) = 0
    OBVIOUS
  <2> QED
    BY <1>4, <2>1, <2>2
<1>6. /\ m.version = default_version /\ m.no_cache = FALSE /\ m.remote_addr = request.peer
      /\ m.forwarded_for = ForwardedFor(request)
      /\ m = [dsn |-> m.dsn, version |-> m.version, client |-> m.client, origin |-> m.origin, remote_addr |-> m.remote_addr,
              forwarded_for |-> m.forwarded_for, user_agent |-> m.user_agent, no_cache |-> m.no_cache]
  BY DEF from_headers
<1> HIDE DEF m
<1>7. m.version \in Nat
  BY <1>6 DEF default_version
<1>8. IsMeta(m)
  BY <1>3, <1>5, <1>6, <1>7 DEF IsMeta
<1> QED
  BY <1>1, <1>3, <1>5, <1>6, <1>8 DEF m

LEMMA AuthRead ==
  ASSUME NEW request, IsRequest(request), auth_from_request(request).ok
  PROVE  auth_from_request(request).value.version \in Nat
<1> DEFINE sources == <<get_auth_header(request.x_sentry_auth), get_auth_header(request.authorization), request.query, request.segment>>
           given == {n \in DOMAIN sources : sources[n] # {}}
           first == CHOOSE n \in given : \A m \in given : n <= m
           given_auth == CHOOSE a \in sources[first] : TRUE
           result == auth_from_request(request)
<1>1. /\ result = IF given = {} THEN Err("MissingAuth") ELSE IF ~given_auth.ok THEN Err("BadAuth")
                  ELSE IF given # {first} THEN Err("MultipleAuth") ELSE Ok(given_auth)
  BY Zenon DEF auth_from_request, FirstAuth
<1>2. \A e : ~Err(e).ok
  BY DEF Err
<1>3. given = {first} /\ result = Ok(given_auth)
  BY <1>1, <1>2, Zenon
<1>4. result.value = given_auth
  <2> HIDE DEF given_auth, result
  <2> QED
    BY <1>3 DEF Ok
<1>5. given_auth \in sources[first] /\ first \in DOMAIN sources
  BY <1>3
<1>6. \A n \in DOMAIN sources : \A a \in sources[n] : a.version \in Nat
  BY DEF IsRequest
<1> QED
  BY <1>4, <1>5, <1>6

LEMMA RequestRead ==
  ASSUME NEW request, IsRequest(request), from_request(request).ok
  PROVE  IsComplete(from_request(request).value)
<1> DEFINE given_auth == auth_from_request(request)
           meta == from_headers(request)
           read == [dsn |-> {[public_key |-> given_auth.value.key, project_id |-> request.project]},
                    version |-> given_auth.value.version, client |-> given_auth.value.client, origin |-> meta.origin,
                    remote_addr |-> meta.remote_addr, forwarded_for |-> meta.forwarded_for, user_agent |-> meta.user_agent,
                    no_cache |-> "no-cache" \in given_auth.value.flags]
           result == from_request(request)
<1>1. result = IF ~given_auth.ok THEN given_auth ELSE IF "malformed" \in request.project THEN Err("BadProject")
               ELSE IF given_auth.value.key = "malformed" THEN Err("BadPublicKey") ELSE Ok(read)
  BY Zenon DEF from_request, WithAuth
<1>2. \A e : ~Err(e).ok
  BY DEF Err
<1>3. given_auth.ok /\ given_auth.value.key # "malformed" /\ result = Ok(read)
  BY <1>1, <1>2, Zenon
<1>4. result.value = read
  BY <1>3 DEF Ok
<1>5. given_auth.value.version \in Nat
  BY <1>3, AuthRead
<1>6. IsMeta(meta) /\ meta.remote_addr # {} /\ meta.forwarded_for # <<>>
  BY HeadersRead
<1> HIDE DEF given_auth, meta
<1>7. IsMeta(read)
  <2>1. \E S : meta.forwarded_for \in Seq(S)
    BY <1>6 DEF IsMeta
  <2>2. read.no_cache \in BOOLEAN
    OBVIOUS
  <2>3. /\ read.version = given_auth.value.version /\ read.forwarded_for = meta.forwarded_for
        /\ read = [dsn |-> read.dsn, version |-> read.version, client |-> read.client, origin |-> read.origin, remote_addr |-> read.remote_addr,
                   forwarded_for |-> read.forwarded_for, user_agent |-> read.user_agent, no_cache |-> read.no_cache]
    OBVIOUS
  <2> HIDE DEF read
  <2> QED
    BY <1>5, <2>1, <2>2, <2>3 DEF IsMeta
<1>8. read.remote_addr # {} /\ read.forwarded_for # <<>> /\ read.dsn = {[public_key |-> given_auth.value.key, project_id |-> request.project]}
  BY <1>6
<1> HIDE DEF read, result
<1>9. IsDsn(read.dsn)
  BY <1>3, <1>8 DEF IsDsn
<1> QED
  BY <1>4, <1>7, <1>8, <1>9 DEF IsComplete, result

LEMMA MetaRead ==
  ASSUME NEW request, IsRequest(request), EnvelopeMeta(request).meta.ok
  PROVE  IsComplete(EnvelopeMeta(request).meta.value)
<1> DEFINE result == from_request(request)
           peeked == PeekLine(SharedPayload(request.chunks))
           object == \E line \in peeked.line : line[1] = "{"
           parsed == {header \in request.header : object /\ header.dsn # {} /\ from_dsn(header.dsn).ok}
           unread == [payload |-> SharedPayload(request.chunks), meta |-> result]
           header == CHOOSE header \in parsed : TRUE
           copied == copy_to(from_headers(request), header)
           first == IF peeked.line = {} THEN result ELSE IF parsed = {} THEN Err("BadEnvelopeAuth") ELSE Ok(copied)
           found == EnvelopeMeta(request)
<1>1. found = IF result.ok \/ result.error # "MissingAuth" THEN unread ELSE [payload |-> peeked.payload, meta |-> first]
  BY Zenon DEF EnvelopeMeta
<1>2. found.meta = result \/ (~result.ok /\ found.meta = first)
  <2> HIDE DEF found, result, first
  <2> QED
    BY <1>1
<1>3. \A e : ~Err(e).ok
  BY DEF Err
<1>4. CASE found.meta = result
  BY <1>4, RequestRead
<1>5. CASE ~result.ok /\ found.meta = first
  <2>1. found.meta = Ok(copied)
    BY <1>3, <1>5, Zenon
  <2>2. header \in request.header /\ header.dsn # {}
    <3>1. parsed # {}
      BY <1>3, <1>5, Zenon
    <3> QED
      BY <3>1
  <2>3. IsMeta(header) /\ IsDsn(header.dsn)
    BY <2>2 DEF IsRequest
  <2> HIDE DEF header, found
  <2>4. IsComplete(copied)
    BY <2>3, HeadersRead, CopyCompletes
  <2> HIDE DEF copied
  <2>5. found.meta.value = copied
    BY <2>1 DEF Ok
  <2> QED
    BY <2>4, <2>5 DEF found
<1> QED
  BY <1>2, <1>4, <1>5

(* Whatever is accepted has complete meta data.                            *)
LEMMA AcceptedIsComplete ==
  ASSUME NEW request, IsRequest(request), NEW limit, store_envelope(request, limit).ok
  PROVE  IsComplete(store_envelope(request, limit).value.meta)
<1> DEFINE found == EnvelopeMeta(request)
           body == StoreBody(found.payload, request.length, limit)
           header == CHOOSE h \in request.header : TRUE
           meta == complete(header, found.meta.value)
           result == store_envelope(request, limit)
<1>1. result = IF ~found.meta.ok THEN found.meta
               ELSE IF found.meta.value.version > default_version THEN Err("UnsupportedProtocolVersion")
               ELSE IF ~body.ok THEN body
               ELSE IF body.value = <<>> THEN Err("EmptyBody")
               ELSE IF request.header = {} \/ ~from_dsn(header.dsn).ok THEN Err("InvalidHeader")
               ELSE IF meta.ok THEN Ok([meta |-> meta.value, body |-> body.value]) ELSE meta
  BY Zenon DEF store_envelope
<1>2. \A e : ~Err(e).ok
  BY DEF Err
<1>3. /\ found.meta.ok /\ request.header # {} /\ meta.ok
      /\ result = Ok([meta |-> meta.value, body |-> body.value])
  BY <1>1, <1>2, Zenon
<1>4. result.value.meta = meta.value
  BY <1>3 DEF Ok
<1>5. IsComplete(found.meta.value)
  BY <1>3, MetaRead
<1>6. IsMeta(header)
  BY <1>3 DEF IsRequest
<1> HIDE DEF header, found
<1>7. meta = Ok(copy_to(header, found.meta.value))
  BY <1>2, <1>3, Zenon DEF complete
<1>8. meta.value = copy_to(header, found.meta.value)
  BY <1>7 DEF Ok
<1>9. IsComplete(copy_to(header, found.meta.value))
  BY <1>5, <1>6, CopyCompletes DEF IsComplete
<1> QED
  BY <1>4, <1>8, <1>9

(* The meta data in the first line of an envelope that is passed on.       *)
KnownDsn(meta, project) == {[public_key |-> (CHOOSE d \in meta.dsn : TRUE).public_key, project_id |-> {project}]}

FirstLine(meta, dsn) ==
  [dsn |-> dsn, version |-> meta.version, client |-> meta.client, origin |-> meta.origin, remote_addr |-> meta.remote_addr,
   forwarded_for |-> meta.forwarded_for, user_agent |-> meta.user_agent, no_cache |-> meta.no_cache]

(* What the headers of the request that passes it on say.                  *)
ReadAs(meta, dsn, found) ==
  /\ IsMeta(found) /\ found.dsn = dsn /\ found.version = meta.version /\ found.client = meta.client
  /\ found.origin = parse_header_url(meta.origin) /\ found.user_agent = meta.user_agent /\ found.no_cache = FALSE

LEMMA MetaExcept ==
  ASSUME NEW meta, IsMeta(meta), NEW dsn
  PROVE  [meta EXCEPT !.dsn = dsn] = FirstLine(meta, dsn)
<1>1. \A d, v, c, o, r, f, u, n :
        [[dsn |-> d, version |-> v, client |-> c, origin |-> o, remote_addr |-> r, forwarded_for |-> f, user_agent |-> u, no_cache |-> n]
          EXCEPT !.dsn = dsn]
        = [dsn |-> dsn, version |-> v, client |-> c, origin |-> o, remote_addr |-> r, forwarded_for |-> f, user_agent |-> u, no_cache |-> n]
  OBVIOUS
<1> DEFINE line == FirstLine(meta, meta.dsn)
<1>2. meta = line
  BY Zenon DEF IsMeta, FirstLine
<1>3. [line EXCEPT !.dsn = dsn] = FirstLine(meta, dsn)
  BY <1>1 DEF FirstLine
<1> HIDE DEF line
<1>4. [meta EXCEPT !.dsn = dsn] = [line EXCEPT !.dsn = dsn]
  BY <1>2, Zenon
<1> QED
  BY <1>3, <1>4, Zenon

LEMMA WholeBody ==
  ASSUME NEW body, NEW limit \in Nat, IsBody(body, limit)
  PROVE  StoreBody(SharedPayload(<<body>>), {}, limit) = Ok(body)
<1> DEFINE n == Len(body)
           payload == SharedPayload(<<body>>)
<1>1. decode_bytes(body) = Ok(body)
  BY Zenon DEF decode_bytes, IsBody
<1>2. ~payload.done /\ payload.chunks = <<body>>
  BY DEF SharedPayload
<1>3. n \in Nat
  BY LenProperties DEF IsBody
<1>4. n <= limit
  BY Zenon DEF IsBody
<1> HIDE DEF n
<1>5. ~(n > limit)
  BY <1>3, <1>4
<1> HIDE DEF payload
<1>6. StoreBody(payload, {}, limit) = Ok(body)
  BY <1>1, <1>2, <1>5, SingleFlattened, Zenon DEF StoreBody, n
<1> QED
  BY <1>6 DEF payload

LEMMA HeaderGiven ==
  ASSUME NEW a
  PROVE  get_auth_header({[scheme |-> "sentry", auth |-> a]}) = {a} /\ get_auth_header({}) = {}
<1> DEFINE h == [scheme |-> "sentry", auth |-> a]
<1>1. h.scheme = "sentry" /\ h.auth = a
  OBVIOUS
<1> HIDE DEF h
<1>2. get_auth_header({h}) = {a}
  BY <1>1 DEF get_auth_header
<1>3. get_auth_header({}) = {}
  BY DEF get_auth_header
<1> QED
  BY <1>2, <1>3 DEF h

LEMMA ForwardedRead ==
  ASSUME NEW meta, IsComplete(meta), NEW body, NEW project, project # "malformed", NEW address
  PROVE  LET request == SendEnvelope(meta, body, project, address)
             dsn == KnownDsn(meta, project)
         IN  /\ \E found : /\ EnvelopeMeta(request) = [payload |-> SharedPayload(<<body>>), meta |-> Ok(found)]
                           /\ ReadAs(meta, dsn, found)
             /\ request.header = {FirstLine(meta, dsn)}
             /\ request.length = {}
<1> DEFINE request == SendEnvelope(meta, body, project, address)
           d == CHOOSE d \in meta.dsn : TRUE
           key == d.public_key
           dsn == KnownDsn(meta, project)
           given_auth == [ok |-> TRUE, key |-> key, flags |-> {}, version |-> meta.version, client |-> meta.client]
           header == FirstLine(meta, dsn)
           found == [dsn |-> dsn, version |-> meta.version, client |-> meta.client, origin |-> parse_header_url(meta.origin),
                     remote_addr |-> {address}, forwarded_for |-> ForwardedFor(request), user_agent |-> meta.user_agent, no_cache |-> FALSE]
<1>1. PICK k, p : k # "malformed" /\ meta.dsn = {[public_key |-> k, project_id |-> p]}
  BY DEF IsComplete, IsDsn
<1>2. d = [public_key |-> k, project_id |-> p] /\ key = k
  BY <1>1
<1>3. dsn = {[public_key |-> key, project_id |-> {project}]}
  BY Zenon DEF KnownDsn
<1>4. WrittenDsn(dsn) = dsn
  <2> DEFINE r == [public_key |-> key, project_id |-> {project}]
  <2>1. [r EXCEPT !.project_id = IF r.project_id = {} THEN {"0"} ELSE r.project_id] = r
    OBVIOUS
  <2> HIDE DEF r
  <2>2. WrittenDsn({r}) = {[r EXCEPT !.project_id = IF r.project_id = {} THEN {"0"} ELSE r.project_id]}
    BY Zenon DEF WrittenDsn
  <2>3. dsn = {r}
    BY <1>3 DEF r
  <2> QED
    BY <2>1, <2>2, <2>3, Zenon
<1>5. request = [x_sentry_auth |-> {[scheme |-> "sentry", auth |-> given_auth]}, authorization |-> {}, query |-> {}, segment |-> {},
                 project |-> {project}, origin |-> meta.origin, referer |-> {}, peer |-> {address}, forwarded |-> meta.forwarded_for,
                 agent |-> meta.user_agent, header |-> {header}, chunks |-> <<body>>, length |-> {}]
  <2>1. [meta EXCEPT !.dsn = dsn] = header
    BY MetaExcept DEF IsComplete
  <2>2. [meta EXCEPT !.dsn = WrittenDsn(dsn)] = header
    BY <1>4, <2>1, Zenon
  <2> QED
    BY <1>3, <2>2, Zenon DEF SendEnvelope
<1> HIDE DEF d
<1>6. /\ request.x_sentry_auth = {[scheme |-> "sentry", auth |-> given_auth]} /\ request.authorization = {}
      /\ request.query = {} /\ request.segment = {} /\ request.project = {project}
      /\ request.origin = meta.origin /\ request.referer = {} /\ request.peer = {address} /\ request.forwarded = meta.forwarded_for
      /\ request.agent = meta.user_agent /\ request.header = {header} /\ request.chunks = <<body>> /\ request.length = {}
  <2> HIDE DEF header, given_auth
  <2> QED
    BY <1>5
<1> HIDE DEF request, dsn
<1>7. auth_from_request(request) = Ok(given_auth)
  <2> DEFINE sources == <<get_auth_header(request.x_sentry_auth), get_auth_header(request.authorization), request.query, request.segment>>
             given == {n \in DOMAIN sources : sources[n] # {}}
             first == CHOOSE n \in given : \A m \in given : n <= m
             a == CHOOSE a \in sources[first] : TRUE
  <2>1. given_auth.ok
    OBVIOUS
  <2> HIDE DEF given_auth
  <2>2. get_auth_header(request.x_sentry_auth) = {given_auth} /\ get_auth_header(request.authorization) = {}
    BY <1>6, HeaderGiven
  <2>3. sources = <<{given_auth}, {}, {}, {}>>
    BY <1>6, <2>2
  <2>4. given = {1}
    BY <2>3
  <2>5. first = 1
    BY <2>4
  <2>6. a = given_auth
    BY <2>3, <2>5
  <2>7. auth_from_request(request) =
          IF given = {} THEN Err("MissingAuth") ELSE IF ~a.ok THEN Err("BadAuth")
          ELSE IF given # {first} THEN Err("MultipleAuth") ELSE Ok(a)
    BY Zenon DEF auth_from_request, FirstAuth
  <2> HIDE DEF given, first, a
  <2> QED
    BY <2>1, <2>4, <2>5, <2>6, <2>7
<1>8. from_headers(request) =
        [dsn |-> {}, version |-> default_version, client |-> {}, origin |-> parse_header_url(meta.origin),
         remote_addr |-> {address}, forwarded_for |-> ForwardedFor(request), user_agent |-> meta.user_agent, no_cache |-> FALSE]
  <2>1. parse_header_url({}) = {}
    BY DEF parse_header_url
  <2>2. Either(parse_header_url(request.origin), parse_header_url(request.referer)) = parse_header_url(meta.origin)
    BY <1>6, <2>1 DEF Either
  <2> QED
    BY <1>6, <2>2 DEF from_headers
<1>9. from_request(request) = Ok(found)
  <2> DEFINE m == from_headers(request)
             g == auth_from_request(request)
             read == [dsn |-> {[public_key |-> g.value.key, project_id |-> request.project]},
                      version |-> g.value.version, client |-> g.value.client, origin |-> m.origin,
                      remote_addr |-> m.remote_addr, forwarded_for |-> m.forwarded_for, user_agent |-> m.user_agent,
                      no_cache |-> "no-cache" \in g.value.flags]
  <2>1. from_request(request) = IF ~g.ok THEN g ELSE IF "malformed" \in request.project THEN Err("BadProject")
               ELSE IF g.value.key = "malformed" THEN Err("BadPublicKey") ELSE Ok(read)
    BY Zenon DEF from_request, WithAuth
  <2>2. /\ g.ok /\ g.value.key = key /\ g.value.version = meta.version /\ g.value.client = meta.client /\ g.value.flags = {}
    BY <1>7 DEF Ok
  <2>3. "malformed" \notin request.project /\ g.value.key # "malformed"
    BY <1>1, <1>2, <1>6, <2>2
  <2>4. /\ m.origin = parse_header_url(meta.origin) /\ m.remote_addr = {address} /\ m.forwarded_for = ForwardedFor(request)
        /\ m.user_agent = meta.user_agent
    BY <1>8
  <2> HIDE DEF g, m
  <2>5. ("no-cache" \in g.value.flags) = FALSE
    BY <2>2
  <2>6. read = found
    BY <1>3, <1>6, <2>2, <2>4, <2>5
  <2> HIDE DEF read
  <2> QED
    BY <2>1, <2>2, <2>3, <2>6
<1>10. EnvelopeMeta(request) = [payload |-> SharedPayload(<<body>>), meta |-> Ok(found)]
  <2> HIDE DEF found
  <2>1. from_request(request).ok
    BY <1>9 DEF Ok
  <2> QED
    BY <1>6, <1>9, <2>1, Zenon DEF EnvelopeMeta
<1>11. IsRequest(request)
  <2>1. IsMeta(header) /\ header.dsn = dsn
    BY DEF IsComplete, IsMeta, FirstLine
  <2>2. IsDsn(dsn)
    BY <1>1, <1>2, <1>3 DEF IsDsn
  <2>3. \E S : meta.forwarded_for \in Seq(S)
    BY DEF IsComplete, IsMeta
  <2>4. given_auth.version \in Nat
    BY DEF IsComplete, IsMeta
  <2> HIDE DEF given_auth, header
  <2>5. get_auth_header(request.x_sentry_auth) = {given_auth} /\ get_auth_header(request.authorization) = {}
    BY <1>6, HeaderGiven
  <2> QED
    BY <1>6, <2>1, <2>2, <2>3, <2>4, <2>5 DEF IsRequest
<1>12. IsMeta(found)
  <2> HIDE DEF found
  <2>1. from_request(request).ok /\ from_request(request).value = found
    BY <1>9 DEF Ok
  <2> QED
    BY <1>11, <2>1, RequestRead DEF IsComplete
<1>13. ReadAs(meta, dsn, found)
  BY <1>12 DEF ReadAs
<1> HIDE DEF found
<1> QED
  BY <1>6, <1>10, <1>13, Zenon DEF dsn, request

(* What the next Relay makes of it.                                        *)
LEMMA ForwardedAccepted ==
  ASSUME NEW meta, IsComplete(meta), NEW limit \in Nat, NEW body, IsBody(body, limit),
         NEW project, project # "malformed", project # "0", NEW address
  PROVE  ForwardsAlike(meta, body, project, address, limit)
<1> DEFINE request == SendEnvelope(meta, body, project, address)
           dsn == KnownDsn(meta, project)
           header == FirstLine(meta, dsn)
           next == store_envelope(request, limit)
           web == parse_header_url(meta.origin)
<1>1. PICK found : /\ EnvelopeMeta(request) = [payload |-> SharedPayload(<<body>>), meta |-> Ok(found)]
                   /\ ReadAs(meta, dsn, found)
  BY ForwardedRead, ZenonT(30)
<1>2. request.header = {header} /\ request.length = {}
  BY ForwardedRead, ZenonT(30)
<1>3. [meta EXCEPT !.dsn = dsn] = header
  BY MetaExcept DEF IsComplete
<1>4. /\ header.dsn = dsn /\ header.origin = meta.origin /\ header.version = meta.version /\ header.client = meta.client
      /\ header.remote_addr = meta.remote_addr /\ header.forwarded_for = meta.forwarded_for
      /\ header.user_agent = meta.user_agent /\ header.no_cache = meta.no_cache
  BY DEF FirstLine
<1> HIDE DEF request
<1>5. (CHOOSE h \in request.header : TRUE) = header /\ request.header # {}
  <2> HIDE DEF header
  <2> QED
    BY <1>2
<1>6. from_dsn(dsn).ok
  <2> DEFINE r == [public_key |-> (CHOOSE d \in meta.dsn : TRUE).public_key, project_id |-> {project}]
  <2>1. r.project_id = {project}
    OBVIOUS
  <2>2. {project} # {"0"}
    OBVIOUS
  <2> HIDE DEF r
  <2>3. ~\E d \in {r} : d.project_id = {"0"}
    BY <2>1, <2>2
  <2> QED
    BY <2>3 DEF from_dsn, Ok, r, KnownDsn
<1>7. StoreBody(SharedPayload(<<body>>), request.length, limit) = Ok(body)
  BY <1>2, WholeBody, Zenon
<1> DEFINE payload == SharedPayload(<<body>>)
           read == StoreBody(payload, request.length, limit)
           meta2 == complete(header, found)
<1>8. next = IF found.version > default_version THEN Err("UnsupportedProtocolVersion")
             ELSE IF meta2.ok THEN Ok([meta |-> meta2.value, body |-> body]) ELSE meta2
  <2> DEFINE m == EnvelopeMeta(request)
  <2>1. m.meta = Ok(found) /\ m.meta.ok /\ m.meta.value = found /\ m.payload = payload
    BY <1>1 DEF Ok
  <2>2. read.ok /\ read.value = body
    <3> HIDE DEF read
    <3> QED
      BY <1>7 DEF Ok, read
  <2>3. body # <<>>
    BY DEF IsBody
  <2> HIDE DEF m, read, header, payload, meta2, dsn
  <2>4. next = IF ~m.meta.ok THEN m.meta
               ELSE IF m.meta.value.version > default_version THEN Err("UnsupportedProtocolVersion")
               ELSE IF ~read.ok THEN read
               ELSE IF read.value = <<>> THEN Err("EmptyBody")
               ELSE IF request.header = {} \/ ~from_dsn(header.dsn).ok THEN Err("InvalidHeader")
               ELSE IF meta2.ok THEN Ok([meta |-> meta2.value, body |-> read.value]) ELSE meta2
    BY <1>5, <2>1, Zenon DEF store_envelope, m, read, meta2
  <2> QED
    BY <1>4, <1>5, <1>6, <2>3, <2>1, <2>2, <2>4, Zenon
<1> HIDE DEF header, dsn, web, meta2, next
<1>9. CASE Forwardable(meta)
  <2>1. web = meta.origin /\ ~(found.version > default_version)
    BY <1>1, <1>9 DEF Forwardable, web, default_version, IsComplete, IsMeta, ReadAs
  <2>2. meta2 = Ok(copy_to(header, found))
    BY <1>1, <1>4, <2>1 DEF complete, meta2, ReadAs, web
  <2>3. copy_to(header, found) = header
    <3>1. \A x : Either(x, x) = x
      BY DEF Either
    <3>2. Either(meta.remote_addr, found.remote_addr) = meta.remote_addr
      BY DEF Either, IsComplete
    <3>3. (meta.no_cache \/ FALSE) = meta.no_cache
      BY DEF IsComplete, IsMeta
    <3>4. /\ Either(header.client, found.client) = meta.client /\ Either(header.origin, found.origin) = meta.origin
          /\ Either(header.user_agent, found.user_agent) = meta.user_agent
          /\ Either(header.remote_addr, found.remote_addr) = meta.remote_addr
      BY <1>1, <1>4, <2>1, <3>1, <3>2, Zenon DEF ReadAs, web
    <3>5. /\ (IF header.version # default_version THEN header.version ELSE found.version) = meta.version
          /\ (IF header.forwarded_for # <<>> THEN header.forwarded_for ELSE found.forwarded_for) = meta.forwarded_for
          /\ (header.no_cache \/ found.no_cache) = meta.no_cache
      BY <1>1, <1>4, <3>3, Zenon DEF IsComplete, ReadAs
    <3>6. copy_to(header, found) = [dsn |-> dsn, client |-> meta.client, version |-> meta.version, origin |-> meta.origin,
                                    remote_addr |-> meta.remote_addr, forwarded_for |-> meta.forwarded_for,
                                    user_agent |-> meta.user_agent, no_cache |-> meta.no_cache]
      BY <1>1, <3>4, <3>5, Zenon DEF copy_to, ReadAs
    <3> QED
      BY <3>6 DEF header, FirstLine
  <2>4. meta2.ok /\ meta2.value = header
    BY <2>2, <2>3 DEF Ok
  <2>5. next = Ok([meta |-> header, body |-> body])
    BY <1>8, <2>1, <2>4, Zenon
  <2> QED
    BY <1>3, <1>9, <2>5, Zenon DEF ForwardsAlike, next, dsn, request, KnownDsn
<1>10. CASE ~Forwardable(meta)
  <2>1. \A e : ~Err(e).ok
    BY DEF Err
  <2>2. CASE found.version > default_version
    BY <1>8, <1>10, <2>1, <2>2, Zenon DEF ForwardsAlike, next, request
  <2>3. CASE ~(found.version > default_version)
    <3>1. web # meta.origin
      BY <1>1, <1>10, <2>3 DEF Forwardable, web, default_version, IsComplete, IsMeta, ReadAs
    <3>2. meta.origin # {}
      BY <3>1 DEF web, parse_header_url
    <3>3. ~meta2.ok
      BY <1>1, <1>4, <2>1, <3>1, <3>2 DEF complete, meta2, ReadAs, web
    <3> QED
      BY <1>8, <1>10, <2>3, <3>3, Zenon DEF ForwardsAlike, next, request
  <2> QED
    BY <2>2, <2>3
<1> QED
  BY <1>9, <1>10

(* EnvelopesForwardedAlike: whatever envelope this Relay accepts, in       *)
(* whatever way its request gives the key and the rest, the next Relay     *)
(* accepts it when it is passed on and sees the same client, agent,        *)
(* origin, addresses, version and wish for a fresh project, with the       *)
(* project that is known by then; it refuses exactly those whose first     *)
(* line gives a version or an origin that the headers of a request may not *)
(* (EnvelopeMeta::from_request, PartialMeta::copy_to,                      *)
(* EnvelopeHeaders::complete, SendEnvelope).                               *)
THEOREM EnvelopesForwardedAlike ==
  ASSUME NEW request, IsRequest(request), NEW limit, store_envelope(request, limit).ok,
         NEW next_limit \in Nat, NEW body, IsBody(body, next_limit),
         NEW project, project # "malformed", project # "0", NEW address
  PROVE  ForwardsAlike(store_envelope(request, limit).value.meta, body, project, address, next_limit)
BY AcceptedIsComplete, ForwardedAccepted

=============================================================================
