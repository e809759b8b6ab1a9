---------------------------- MODULE RateLimiter -----------------------------
(***************************************************************************)
(* Rate limiting by several relays that share the counters in Redis        *)
(* (relay-quotas/src/redis.rs and is_rate_limited.lua), with the limits    *)
(* that each relay caches with its projects, and with relays in front of   *)
(* them that learn limits from the header X-Sentry-Rate-Limits             *)
(* (relay-server/src/utils/rate_limits.rs).                                *)
(*                                                                         *)
(* A quota is a record with the fields of struct Quota, without the reason *)
(* code. A rate limit is the record of its categories, its scope (a kind   *)
(* and an identifier) and the time at which it expires. RateLimits is the  *)
(* set of them, since two never agree in categories and scope.             *)
(*                                                                         *)
(* Time is the clock of Redis. A relay reads its own clock to find the     *)
(* slot of a counter, calls the script some time later, and another relay  *)
(* may disagree about the time.                                            *)
(***************************************************************************)
EXTENDS Integers, FiniteSetsExt

CONSTANTS
  None,         \* Option::None
  Relays,       \* relays that process
  Edges,        \* relays that forward to them
  ProjectQuotas,\* the quotas in the project states
  Scopings,     \* the scopings of the items
  Quantities,   \* the quantities that attachments can have (0: none)
  Grace,        \* GRACE
  Drift,        \* how much the clock of a relay may differ
  MaxDelay,     \* how long a call of the script, or a response, can take
  Start,        \* the time at the start
  MaxTime,      \* bound: the time at the end
  MaxRefunds    \* bound: how much is refunded

ASSUME TimesAssumption ==
  /\ {Grace, Drift, MaxDelay, Start, MaxTime} \subseteq Nat
  /\ Drift + MaxDelay <= Grace /\ Start <= MaxTime
ASSUME QuotasAssumption ==
  \A q \in ProjectQuotas :
    /\ q.limit \in Nat \cup {-1}
    /\ q.window = None \/ q.window \in 1 .. Start - Drift
ASSUME ItemsAssumption ==
  Quantities \subseteq Nat /\ \A s \in Scopings : s.organization_id \in Nat
ASSUME RelaysAssumption == Relays \cap Edges = {}

VARIABLES
  clock,
  skew,         \* relay -> what its clock is ahead of Redis, which never changes
  counters,     \* Redis: key -> its value and when it expires
  limits,       \* relay -> Project::rate_limits, those that have not expired
  jobs,         \* relay -> what its worker is doing in enforce_quotas
  header,       \* edge -> a response on its way, or None
  consumed,     \* history: key -> the quantity the script has let pass
  refunded      \* Redis: key -> the refunds, which Sentry writes

vars == <<clock, skew, counters, limits, jobs, header, consumed, refunded>>

-----------------------------------------------------------------------------
(* Quotas and rate limits: quota.rs and rate_limit.rs.                     *)

Unlimited == -1         \* RedisQuota::limit() of a quota without a limit
REJECT_ALL_SECS == 60
ScopeKinds == {"organization", "project", "key", "unknown"}

(* ItemScoping::scope_id                                                   *)
scope_id(scoping, scope) ==
  CASE scope = "organization" -> scoping.organization_id
    [] scope = "project" -> scoping.project_id
    [] scope = "key" -> scoping.key_id
    [] OTHER -> None

matches_categories(categories, category) == categories = {} \/ category \in categories

(* Quota::matches_scope: an identifier that is not a number matches        *)
(* nothing, and neither does one of an unknown scope.                      *)
quota_matches_scope(quota, scoping) ==
  quota.scope_id # None =>
    /\ quota.scope_id \in Nat
    /\ scope_id(scoping, quota.scope) = quota.scope_id

(* Quota::matches                                                          *)
quota_matches(quota, scoping, category) ==
  quota_matches_scope(quota, scoping) /\ matches_categories(quota.categories, category)

(* RateLimitScope::for_quota: an unknown scope is the most specific one.   *)
for_quota(scoping, scope) ==
  CASE scope = "organization" -> <<"organization", scoping.organization_id>>
    [] scope = "project" -> <<"project", scoping.project_id>>
    [] OTHER -> <<"key", scoping.project_key>>

(* RateLimit::from_quota                                                   *)
from_quota(quota, scoping, when) ==
  [categories |-> quota.categories, scope |-> for_quota(scoping, quota.scope), when |-> when]

(* RateLimit::matches                                                      *)
limit_matches(limit, scoping, category) ==
  limit.scope = for_quota(scoping, limit.scope[1]) /\ matches_categories(limit.categories, category)

Overlaps(a, b) == a.categories = b.categories /\ a.scope = b.scope

(* RateLimits::merge and add: the longest of the limits that overlap stays.*)
merge(known, more) ==
  {l \in known \cup more : \A m \in known \cup more : Overlaps(l, m) => m.when <= l.when}

clean_expired(known, now) == {l \in known : l.when > now}
is_limited(known, now) == clean_expired(known, now) # {}

(* RateLimits::check_with_quotas                                           *)
check_with_quotas(known, quotas, scoping, category, now) ==
  merge(merge({}, {from_quota(q, scoping, now + REJECT_ALL_SECS) :
                     q \in {q \in quotas : q.limit = 0 /\ quota_matches(q, scoping, category)}}),
        {l \in known : limit_matches(l, scoping, category)})

-----------------------------------------------------------------------------
(* RedisQuota                                                              *)

shift(q, scoping) == scoping.organization_id % q.window
slot(q, scoping, ts) == (ts - shift(q, scoping)) \div q.window

expiry_Late(q, scoping, ts) == (slot(q, scoping, ts) + 2) * q.window + shift(q, scoping)

expiry(q, scoping, ts) == (slot(q, scoping, ts) + 1) * q.window + shift(q, scoping)

(* RedisQuota::key                                                         *)
key(q, scoping, ts) ==
  <<q.id, scoping.organization_id,
    IF q.scope = "organization" THEN None ELSE scope_id(scoping, q.scope),
    slot(q, scoping, ts)>>

Trackable(q) == q.id # None /\ q.window # None
Tracked == {q \in ProjectQuotas : Trackable(q) /\ q.limit # 0}
Keys == {key(q, s, ts) : q \in Tracked, s \in Scopings, ts \in Start - Drift .. MaxTime + Drift}

(* The id is the "unique identifier for counting this quota".              *)
ASSUME IdAssumption == \A p, q \in Tracked : p.id = q.id => p = q
QuotaOf(k) == CHOOSE q \in Tracked : q.id = k[1]

NoCounter == [value |-> 0, expireat |-> 0]
IdleJob == [stage |-> "idle", scoping |-> None, quantity |-> 0, ts |-> 0, began |-> 0, limits |-> {}]
Zero == [k \in Keys |-> 0]

TypeOK ==
  /\ clock \in Start .. MaxTime
  /\ skew \in [Relays -> -Drift .. Drift]
  /\ \A k \in Keys : counters[k].value \in Nat /\ counters[k].expireat \in Nat
  /\ DOMAIN limits = Relays \cup Edges
  /\ \A r \in Relays \cup Edges : \A a, b \in limits[r] : Overlaps(a, b) => a = b
  /\ \A r \in Relays : jobs[r].stage \in {"idle", "event", "event_call", "attachment",
                                          "attachment_call", "respond"}
  /\ \A r \in Relays : jobs[r].stage \in {"attachment", "attachment_call"} => jobs[r].quantity > 0
  /\ consumed \in [Keys -> Nat] /\ refunded \in [Keys -> Nat]

Init ==
  /\ clock = Start
  /\ skew \in [Relays -> -Drift .. Drift]
  /\ counters = [k \in Keys |-> NoCounter]
  /\ limits = [r \in Relays \cup Edges |-> {}]
  /\ jobs = [r \in Relays |-> IdleJob]
  /\ header = [e \in Edges |-> None]
  /\ consumed = Zero
  /\ refunded = Zero

Now(r) == clock + skew[r]

-----------------------------------------------------------------------------
(* The cached limits                                                       *)

Cached(r, scoping, category) ==
  check_with_quotas(limits[r], ProjectQuotas, scoping, category, clock)

(* check_envelope for an event with attachments: nothing is left if the    *)
(* event is limited, and the event alone if the attachments are. Then a    *)
(* worker takes the envelope.                                              *)
CheckEnvelope(r, scoping, quantity) ==
  /\ jobs[r].stage = "idle"
  /\ Cached(r, scoping, "error") = {}
  /\ jobs' = [jobs EXCEPT ![r] =
       [IdleJob EXCEPT !.stage = "event", !.scoping = scoping,
                       !.quantity = IF Cached(r, scoping, "attachment") = {} THEN quantity ELSE 0]]
  /\ UNCHANGED <<clock, skew, counters, limits, header, consumed, refunded>>

(* The project is evicted from the cache, with the limits.                 *)
Evict(r) ==
  /\ limits[r] # {}
  /\ limits' = [limits EXCEPT ![r] = {}]
  /\ UNCHANGED <<clock, skew, counters, jobs, header, consumed, refunded>>

-----------------------------------------------------------------------------
(* enforce_quotas with is_rate_limited                                     *)

CategoryOf(stage) == IF stage \in {"event", "event_call"} THEN "error" ELSE "attachment"
QuantityOf(job) == IF job.stage \in {"event", "event_call"} THEN 1 ELSE job.quantity

Matching(job, qs) == {q \in qs : quota_matches(q, job.scoping, CategoryOf(job.stage))}

(* The quotas that are neither zero nor impossible to track.               *)
tracked_quotas(job) == Matching(job, Tracked)
zero_quotas(job) == {q \in Matching(job, ProjectQuotas) : q.limit = 0}

AfterCheck_Empty(job, new) ==
  [job EXCEPT !.limits = merge(@, new), !.ts = 0, !.began = 0,
              !.stage = IF CategoryOf(@) = "error" /\ ~is_limited(new, clock)
                        THEN "attachment" ELSE "respond"]

(* The job once one check has returned new limits.                         *)
AfterCheck(job, new) ==
  LET checked == [job EXCEPT !.limits = merge(@, new), !.ts = 0, !.began = 0]
  IN  IF CategoryOf(job.stage) = "error" /\ ~is_limited(new, clock) /\ job.quantity > 0
      THEN [checked EXCEPT !.stage = "attachment"]
      ELSE [checked EXCEPT !.stage = "respond"]

(* The loop over the quotas, up to the call of the script, if there is one.*)
Prepare(r) ==
  LET job == jobs[r]
      zero == {from_quota(q, job.scoping, clock + REJECT_ALL_SECS) : q \in zero_quotas(job)}
  IN  /\ job.stage \in {"event", "attachment"}
      /\ jobs' = [jobs EXCEPT ![r] =
           IF zero # {} \/ tracked_quotas(job) = {} THEN AfterCheck(job, zero)
           ELSE [job EXCEPT !.ts = Now(r), !.began = clock,
                            !.stage = IF @ = "event" THEN "event_call" ELSE "attachment_call"]]
      /\ UNCHANGED <<clock, skew, counters, limits, header, consumed, refunded>>

Get(k) == counters[k].value

(* The check of is_rate_limited.lua for one quota.                         *)
rejected(q, k, quantity) == q.limit >= 0 /\ Get(k) - refunded[k] + quantity > q.limit

incremented_Each(quotas, rejections) == quotas \ rejections

(* The quotas whose counters the script increments.                        *)
incremented(quotas, rejections) == IF rejections = {} THEN quotas ELSE {}

expireat_NoGrace(q, job) == expiry(q, job.scoping, job.ts)

(* invocation.arg(quota.expiry() + GRACE)                                  *)
expireat(q, job) == expiry(q, job.scoping, job.ts) + Grace

(* The script runs, and its answer is handled, or lost.                    *)
Invoke(r) ==
  LET job == jobs[r]
      keyOf(q) == key(q, job.scoping, job.ts)
      rejections == {q \in tracked_quotas(job) : rejected(q, keyOf(q), QuantityOf(job))}
      passed == incremented(tracked_quotas(job), rejections)
      new == {from_quota(q, job.scoping, clock + expiry(q, job.scoping, job.ts) - job.ts) :
                q \in rejections}
  IN  /\ job.stage \in {"event_call", "attachment_call"}
      /\ counters' = [k \in Keys |->
           IF \E q \in passed : k = keyOf(q) /\ expireat(q, job) > clock
           THEN [value |-> Get(k) + QuantityOf(job), expireat |-> expireat(QuotaOf(k), job)]
           ELSE IF \E q \in passed : k = keyOf(q) THEN NoCounter ELSE counters[k]]
      /\ consumed' = [k \in Keys |->
           IF rejections = {} /\ \E q \in tracked_quotas(job) : k = keyOf(q)
           THEN consumed[k] + QuantityOf(job) ELSE consumed[k]]
      /\ \E after \in {AfterCheck(job, new), IdleJob} : jobs' = [jobs EXCEPT ![r] = after]
      /\ UNCHANGED <<clock, skew, limits, header, refunded>>

(* A RateLimitingError fails the envelope; what was counted stays counted. *)
InvokeFails(r) ==
  /\ jobs[r].stage \in {"event_call", "attachment_call"}
  /\ jobs' = [jobs EXCEPT ![r] = IdleJob]
  /\ UNCHANGED <<clock, skew, counters, limits, header, consumed, refunded>>

(* UpdateRateLimits with merge_rate_limits, if is_limited().               *)
Respond(r) ==
  /\ jobs[r].stage = "respond"
  /\ limits' = [limits EXCEPT ![r] =
       IF is_limited(jobs[r].limits, clock)
       THEN clean_expired(merge(@, jobs[r].limits), clock) ELSE @]
  /\ jobs' = [jobs EXCEPT ![r] = IdleJob]
  /\ UNCHANGED <<clock, skew, counters, header, consumed, refunded>>

-----------------------------------------------------------------------------
(* The relays in front                                                     *)

(* A relay answers a request with 429 and the header: format_rate_limits.  *)
Reject(e, r, scoping) ==
  LET applied == Cached(r, scoping, "error")
  IN  /\ header[e] = None
      /\ Cached(e, scoping, "error") = {}
      /\ applied # {}
      /\ header' = [header EXCEPT ![e] =
           [scoping |-> scoping, began |-> clock,
            limits |-> {[categories |-> l.categories, scope |-> l.scope[1], secs |-> l.when - clock] :
                          l \in applied}]]
      /\ UNCHANGED <<clock, skew, counters, limits, jobs, consumed, refunded>>

(* parse_rate_limits and UpdateRateLimits                                  *)
Learn(e) ==
  /\ header[e] # None
  /\ limits' = [limits EXCEPT ![e] =
       merge(@, {[categories |-> l.categories, scope |-> for_quota(header[e].scoping, l.scope),
                  when |-> clock + l.secs] : l \in header[e].limits})]
  /\ header' = [header EXCEPT ![e] = None]
  /\ UNCHANGED <<clock, skew, counters, jobs, consumed, refunded>>

-----------------------------------------------------------------------------
(* The environment                                                         *)

(* A second passes. Calls and responses take up to MaxDelay. Redis removes *)
(* the keys that expire; limits that expire are not used any more, since   *)
(* check_envelope calls clean_expired first.                               *)
Tick ==
  /\ clock < MaxTime
  /\ \A r \in Relays : jobs[r].stage \in {"event_call", "attachment_call"} =>
                         clock - jobs[r].began < MaxDelay
  /\ \A e \in Edges : header[e] # None => clock - header[e].began < MaxDelay
  /\ clock' = clock + 1
  /\ counters' = [k \in Keys |-> IF counters[k].expireat <= clock' THEN NoCounter ELSE counters[k]]
  /\ limits' = [r \in Relays \cup Edges |-> clean_expired(limits[r], clock')]
  /\ UNCHANGED <<skew, jobs, header, consumed, refunded>>

Refunds == MapThenSumSet(LAMBDA k : refunded[k], Keys)

(* Sentry refunds a unit that it has dropped later.                        *)
Refund(k) ==
  /\ refunded[k] < Get(k)
  /\ Refunds < MaxRefunds
  /\ refunded' = [refunded EXCEPT ![k] = @ + 1]
  /\ UNCHANGED <<clock, skew, counters, limits, jobs, header, consumed>>

Next ==
  \/ \E r \in Relays, s \in Scopings, n \in Quantities : CheckEnvelope(r, s, n)
  \/ \E r \in Relays : Prepare(r) \/ Invoke(r) \/ InvokeFails(r) \/ Respond(r) \/ Evict(r)
  \/ \E e \in Edges, r \in Relays, s \in Scopings : Reject(e, r, s)
  \/ \E e \in Edges : Learn(e)
  \/ \E k \in Keys : Refund(k)
  \/ Tick

Spec == Init /\ [][Next]_vars

-----------------------------------------------------------------------------
(* The properties.                                                         *)

(* Together, the relays never let more pass in a window than its quota     *)
(* allows, apart from refunds: a slow clock or a slow call does not meet   *)
(* a counter that has expired already.                                     *)
WindowBound ==
  \A k \in Keys : QuotaOf(k).limit # Unlimited => consumed[k] - refunded[k] <= QuotaOf(k).limit

(* A counter holds exactly what has passed as long as a relay may use it:  *)
(* what one of several quotas rejects is counted against none of them.     *)
CountedExactly ==
  /\ TypeOK
  /\ \A k \in Keys : counters[k] # NoCounter => counters[k].value = consumed[k]

(* The window of a counter has not been over for long: by its own clock    *)
(* for a relay that has asked Redis itself, by any clock for the others.   *)
Lasts(r, q, scoping, k) ==
  LET end == (k[4] + 1) * q.window + shift(q, scoping)
  IN  IF r \in Relays THEN Now(r) < end + MaxDelay ELSE clock < end + Drift + 2 * MaxDelay

(* A limit that a relay applies is due to a quota of 0, or to a window in  *)
(* which the next item may not have passed any more, and it does not       *)
(* outlast that window by more than the clocks and the delays allow.       *)
LimitJustified ==
  \A r \in Relays \cup Edges : \A l \in limits[r] :
    \E q \in ProjectQuotas, s \in Scopings :
      /\ from_quota(q, s, l.when) = l
      /\ \/ q.limit = 0
         \/ q \in Tracked /\ \E k \in {key(q, s, ts) : ts \in Start - Drift .. clock + Drift} :
              Lasts(r, q, s, k) /\ \E n \in Quantities \cup {1} : consumed[k] + n > q.limit

=============================================================================
