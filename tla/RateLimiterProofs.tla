------------------------- MODULE RateLimiterProofs --------------------------
(***************************************************************************)
(* Proofs about RateLimiter for every set of relays, of quotas and of      *)
(* scopings, and for every drift of the clocks and delay of the calls that *)
(* the grace period covers: the counters in Redis are exact as long as a   *)
(* relay may use them, no window lets more pass than its quota, and a      *)
(* limit does not outlast the window that it is due to.                    *)
(***************************************************************************)
EXTENDS RateLimiter, TLAPS

-----------------------------------------------------------------------------
(* The inductive invariant.                                                *)

Calls == {"event_call", "attachment_call"}

(* The time at which the window of a counter ends, which its key tells.    *)
End(k) == (k[4] + 1) * QuotaOf(k).window + (k[2] % QuotaOf(k).window)

Times ==
  /\ clock \in Start .. MaxTime
  /\ skew \in [Relays -> -Drift .. Drift]

(* A counter that is not there has not been used, or no relay will use it  *)
(* any more.                                                               *)
CounterOK(k) ==
  IF counters[k] = NoCounter THEN consumed[k] = 0 \/ End(k) + Grace <= clock
  ELSE counters[k].value = consumed[k] /\ counters[k].expireat = End(k) + Grace

Counts ==
  /\ counters = [k \in Keys |-> counters[k]]
  /\ \A k \in Keys : counters[k].value \in Nat /\ counters[k].expireat \in Nat /\ CounterOK(k)
  /\ consumed \in [Keys -> Nat] /\ refunded \in [Keys -> Nat]

(* What a limit is due to, and by how much it may outlast its window. In   *)
(* contrast to LimitJustified this speaks of the time at which the limit   *)
(* expires, which does not change as time passes.                          *)
Exhausted(q, s, ts, used) == \E n \in Quantities \cup {1} : used[key(q, s, ts)] + n > q.limit
Justified(l, slack, now, used) ==
  /\ l.when \in Int
  /\ \E q \in ProjectQuotas, s \in Scopings :
       /\ l = from_quota(q, s, l.when)
       /\ \/ q.limit = 0
          \/ /\ q \in Tracked
             /\ \E ts \in Start - Drift .. now + Drift :
                  l.when <= expiry(q, s, ts) + slack /\ Exhausted(q, s, ts, used)

(* A call of the script is not older than MaxDelay, and was made with the  *)
(* time of the relay.                                                      *)
JobOK(job, ahead, now, used) ==
  /\ job = [stage |-> job.stage, scoping |-> job.scoping, quantity |-> job.quantity,
            ts |-> job.ts, began |-> job.began, limits |-> job.limits]
  /\ job.stage \in {"idle", "event", "attachment", "respond"} \cup Calls
  /\ job.stage # "idle" => job.scoping \in Scopings
  /\ job.quantity \in Quantities \cup {0}
  /\ job.stage \in {"attachment", "attachment_call"} => job.quantity > 0
  /\ job.stage \in Calls => /\ job.began \in Start .. now /\ now - job.began <= MaxDelay
                            /\ job.ts = job.began + ahead
  /\ \A l \in job.limits : Justified(l, MaxDelay - ahead, now, used)
Jobs ==
  /\ jobs = [r \in Relays |-> jobs[r]]
  /\ \A r \in Relays : JobOK(jobs[r], skew[r], clock, consumed)

Slack(r) == IF r \in Relays THEN MaxDelay - skew[r] ELSE Drift + 2 * MaxDelay
Limits ==
  /\ limits = [r \in Relays \cup Edges |-> limits[r]]
  /\ \A r \in Relays \cup Edges :
       /\ \A a, b \in limits[r] : Overlaps(a, b) => a = b
       /\ \A l \in limits[r] : l.when > clock /\ Justified(l, Slack(r), clock, consumed)

(* The limit that a relay learns at a time from a header.                  *)
Learned(h, l, time) ==
  [categories |-> l.categories, scope |-> for_quota(h.scoping, l.scope), when |-> time + l.secs]
Headers ==
  /\ header = [e \in Edges |-> header[e]]
  /\ \A e \in Edges : header[e] # None =>
       /\ header[e].began \in Start .. clock /\ clock - header[e].began <= MaxDelay
       /\ \A l \in header[e].limits :
            /\ l.secs \in Nat \ {0}
            /\ Justified(Learned(header[e], l, header[e].began), Drift + MaxDelay, clock, consumed)

Inv == Times /\ Counts /\ WindowBound /\ Jobs /\ Limits /\ Headers

-----------------------------------------------------------------------------
(* Quotas, keys and windows.                                               *)

LEMMA Division ==
  ASSUME NEW a \in Int, NEW w \in Nat, w > 0
  PROVE  /\ a \div w \in Int /\ a % w \in 0 .. w - 1
         /\ (a \div w + 1) * w > a
<1>1. a \div w \in Int /\ a % w \in 0 .. w - 1
  OBVIOUS
<1>2. (a \div w + 1) * w > a
  OBVIOUS
<1>3. QED
  BY <1>1, <1>2

LEMMA TrackedQuota ==
  ASSUME NEW q \in Tracked
  PROVE  /\ q \in ProjectQuotas /\ q.limit \in Nat \cup {-1} /\ q.limit # 0
         /\ q.window \in Nat /\ q.window > 0 /\ q.window <= Start - Drift
BY QuotasAssumption, TimesAssumption DEF Tracked, Trackable

(* The window of a time has not ended at that time.                        *)
LEMMA WindowIsAhead ==
  ASSUME NEW q \in Tracked, NEW s \in Scopings, NEW ts \in Int
  PROVE  /\ expiry(q, s, ts) \in Int /\ expiry(q, s, ts) > ts
         /\ slot(q, s, ts) \in Int /\ shift(q, s) \in Nat
<1> DEFINE w == q.window
           a == ts - shift(q, s)
<1>1. w \in Nat /\ w > 0 /\ s.organization_id \in Nat
  BY TrackedQuota, ItemsAssumption
<1>2. shift(q, s) \in Nat
  BY <1>1, Division DEF shift
<1>3. a \in Int
  BY <1>2
<1>4. a \div w \in Int /\ (a \div w + 1) * w > a /\ slot(q, s, ts) = a \div w
  BY <1>1, <1>3, Division DEF slot
<1>5. expiry(q, s, ts) = (a \div w + 1) * w + shift(q, s)
  BY <1>4 DEF expiry
<1>6. (a \div w + 1) * w \in Int
  BY <1>1, <1>4
<1>7. ts = a + shift(q, s)
  BY <1>2
<1> HIDE DEF w, a
<1>8. QED
  BY <1>2, <1>3, <1>4, <1>5, <1>6, <1>7

LEMMA KeyOfQuota ==
  ASSUME NEW q \in Tracked, NEW s \in Scopings, NEW ts \in Int
  PROVE  /\ QuotaOf(key(q, s, ts)) = q /\ End(key(q, s, ts)) = expiry(q, s, ts)
         /\ ts \in Start - Drift .. MaxTime + Drift => key(q, s, ts) \in Keys
<1> DEFINE k == key(q, s, ts)
<1>1. k[1] = q.id /\ k[2] = s.organization_id /\ k[4] = slot(q, s, ts)
  BY DEF key
<1>2. QuotaOf(k) = q
  BY <1>1, IdAssumption DEF QuotaOf
<1>3. End(k) = expiry(q, s, ts)
  BY <1>1, <1>2 DEF End, expiry, shift
<1>4. ts \in Start - Drift .. MaxTime + Drift => k \in Keys
  BY DEF Keys
<1>5. QED
  BY <1>2, <1>3, <1>4

(* A key belongs to one quota, and its window ends at a time.              *)
LEMMA QuotaOfKey ==
  ASSUME NEW k \in Keys
  PROVE  QuotaOf(k) \in Tracked /\ End(k) \in Nat
<1>1. PICK q \in Tracked, s \in Scopings, ts \in Start - Drift .. MaxTime + Drift : k = key(q, s, ts)
  BY DEF Keys
<1>2. ts \in Int /\ ts >= 0
  BY TrackedQuota, TimesAssumption
<1>3. QuotaOf(k) = q /\ End(k) = expiry(q, s, ts)
  BY <1>1, <1>2, KeyOfQuota
<1>4. QED
  BY <1>2, <1>3, WindowIsAhead

(* The clock, the skews and the constants are numbers within their bounds. *)
LEMMA Numbers ==
  ASSUME Times
  PROVE  /\ clock \in Nat /\ Start \in Nat /\ MaxTime \in Nat /\ Start <= clock /\ clock <= MaxTime
         /\ Drift \in Nat /\ MaxDelay \in Nat /\ Grace \in Nat /\ Drift + MaxDelay <= Grace
         /\ \A r \in Relays : skew[r] \in Int /\ -Drift <= skew[r] /\ skew[r] <= Drift
<1>1. /\ Start \in Nat /\ MaxTime \in Nat /\ Drift \in Nat /\ MaxDelay \in Nat /\ Grace \in Nat
      /\ Drift + MaxDelay <= Grace
  BY TimesAssumption
<1>2. clock \in Nat /\ Start <= clock /\ clock <= MaxTime
  BY <1>1 DEF Times
<1>3. ASSUME NEW r \in Relays
      PROVE  skew[r] \in Int /\ -Drift <= skew[r] /\ skew[r] <= Drift
  <2>1. skew[r] \in -Drift .. Drift
    BY DEF Times
  <2> QED
    BY <1>1, <2>1
<1>4. QED
  BY <1>1, <1>2, <1>3

(* The key of a time that has come.                                        *)
LEMMA KeyOfNow ==
  ASSUME NEW q \in Tracked, NEW s \in Scopings, NEW now \in Nat, now <= MaxTime,
         NEW ts \in Start - Drift .. now + Drift
  PROVE  key(q, s, ts) \in Keys /\ ts \in Int
<1>1. Start - Drift \in Int /\ now + Drift \in Int /\ now + Drift <= MaxTime + Drift
  BY TimesAssumption
<1>2. ts \in Int /\ ts \in Start - Drift .. MaxTime + Drift
  BY <1>1, TimesAssumption
<1>3. QED
  BY <1>2, KeyOfQuota

-----------------------------------------------------------------------------
(* Limits and what they are due to.                                        *)

(* A reason for a limit stays one as time passes and more is consumed.     *)
LEMMA JustifiedStays ==
  ASSUME NEW l, NEW slack \in Int, NEW wide \in Int, slack <= wide,
         NEW now \in Nat, NEW later \in Nat, now <= later, later <= MaxTime,
         NEW used \in [Keys -> Nat], NEW more \in [Keys -> Nat], \A k \in Keys : used[k] <= more[k],
         Justified(l, slack, now, used)
  PROVE  Justified(l, wide, later, more)
<1>1. PICK q \in ProjectQuotas, s \in Scopings :
        /\ l.when \in Int /\ l = from_quota(q, s, l.when)
        /\ \/ q.limit = 0
           \/ /\ q \in Tracked
              /\ \E ts \in Start - Drift .. now + Drift :
                   l.when <= expiry(q, s, ts) + slack /\ Exhausted(q, s, ts, used)
  BY DEF Justified
<1>2. CASE q.limit = 0
  BY <1>1, <1>2 DEF Justified
<1>3. CASE q.limit # 0
  <2>1. PICK ts \in Start - Drift .. now + Drift :
          l.when <= expiry(q, s, ts) + slack /\ Exhausted(q, s, ts, used)
    BY <1>1, <1>3
  <2>2. q \in Tracked
    BY <1>1, <1>3
  <2>3. key(q, s, ts) \in Keys /\ ts \in Int
    BY <2>2, KeyOfNow, TimesAssumption
  <2>4. ts \in Start - Drift .. later + Drift
    BY <2>3, TimesAssumption
  <2>5. expiry(q, s, ts) \in Int
    BY <2>2, <2>3, WindowIsAhead
  <2>6. l.when <= expiry(q, s, ts) + wide
    BY <1>1, <2>1, <2>5
  <2>7. Exhausted(q, s, ts, more)
    <3>1. PICK n \in Quantities \cup {1} : used[key(q, s, ts)] + n > q.limit
      BY <2>1 DEF Exhausted
    <3>2. n \in Nat /\ q.limit \in Int
      BY <2>2, ItemsAssumption, TrackedQuota
    <3>3. used[key(q, s, ts)] \in Nat /\ more[key(q, s, ts)] \in Nat /\ used[key(q, s, ts)] <= more[key(q, s, ts)]
      BY <2>3
    <3>4. more[key(q, s, ts)] + n > q.limit
      BY <3>1, <3>2, <3>3
    <3> QED
      BY <3>4 DEF Exhausted
  <2> QED
    BY <1>1, <2>2, <2>4, <2>6, <2>7 DEF Justified
<1>4. QED
  BY <1>2, <1>3

(* It stays one if the limit is longer, and may outlast its window longer. *)
LEMMA JustifiedLonger ==
  ASSUME NEW c, NEW sc, NEW time \in Int, NEW d \in Nat, NEW slack \in Int, NEW now, NEW used,
         Justified([categories |-> c, scope |-> sc, when |-> time], slack, now, used)
  PROVE  Justified([categories |-> c, scope |-> sc, when |-> time + d], slack + d, now, used)
<1> DEFINE l == [categories |-> c, scope |-> sc, when |-> time]
           m == [categories |-> c, scope |-> sc, when |-> time + d]
<1>1. PICK q \in ProjectQuotas, s \in Scopings :
        /\ l = from_quota(q, s, time)
        /\ \/ q.limit = 0
           \/ /\ q \in Tracked
              /\ \E ts \in Start - Drift .. now + Drift :
                   time <= expiry(q, s, ts) + slack /\ Exhausted(q, s, ts, used)
  BY DEF Justified
<1>2. m.when = time + d /\ m.when \in Int /\ m = from_quota(q, s, m.when)
  BY <1>1 DEF from_quota
<1>3. ASSUME q \in Tracked, NEW ts \in Start - Drift .. now + Drift, time <= expiry(q, s, ts) + slack
      PROVE  time + d <= expiry(q, s, ts) + (slack + d)
  <2>1. ts \in Int
    OBVIOUS
  <2>2. expiry(q, s, ts) \in Int
    BY <1>3, <2>1, WindowIsAhead
  <2> QED
    BY <1>3, <2>2
<1> HIDE DEF l, m
<1>4. Justified(m, slack + d, now, used)
  <2>1. CASE q.limit = 0
    BY <1>2, <2>1 DEF Justified
  <2>2. ASSUME q \in Tracked, NEW ts \in Start - Drift .. now + Drift, time <= expiry(q, s, ts) + slack,
               Exhausted(q, s, ts, used)
        PROVE  Justified(m, slack + d, now, used)
    <3>1. m.when <= expiry(q, s, ts) + (slack + d)
      BY <1>2, <1>3, <2>2
    <3> QED
      BY <1>2, <2>2, <3>1 DEF Justified
  <2> QED
    BY <1>1, <2>1, <2>2
<1>5. QED
  BY <1>4 DEF m

(* merge keeps one limit of those that overlap.                            *)
LEMMA MergeOfJustified ==
  ASSUME NEW known, NEW more, NEW slack, NEW now, NEW used,
         \A l \in known \cup more : Justified(l, slack, now, used)
  PROVE  /\ \A l \in merge(known, more) : l \in known \cup more /\ Justified(l, slack, now, used)
         /\ \A a, b \in merge(known, more) : Overlaps(a, b) => a = b
<1>1. \A l \in merge(known, more) : l \in known \cup more
  BY DEF merge
<1>2. ASSUME NEW a \in merge(known, more), NEW b \in merge(known, more), Overlaps(a, b)
      PROVE  a = b
  <2>1. Overlaps(b, a)
    BY <1>2 DEF Overlaps
  <2>2. a.when <= b.when /\ b.when <= a.when
    BY <1>2, <2>1 DEF merge
  <2>3. a.when \in Int /\ b.when \in Int
    BY <1>1 DEF Justified
  <2>4. a.when = b.when
    BY <2>2, <2>3
  <2>5. \A l \in {a, b} : l = [categories |-> l.categories, scope |-> l.scope, when |-> l.when]
    <3> SUFFICES ASSUME NEW l \in {a, b}
                 PROVE  l = [categories |-> l.categories, scope |-> l.scope, when |-> l.when]
      OBVIOUS
    <3>1. PICK q, s : l = from_quota(q, s, l.when)
      BY <1>1 DEF Justified
    <3> QED
      BY <3>1 DEF from_quota
  <2> QED
    BY <1>2, <2>4, <2>5 DEF Overlaps
<1>3. QED
  BY <1>1, <1>2

(* A quota of 0 is a reason at any time.                                   *)
LEMMA ZeroIsJustified ==
  ASSUME NEW q \in ProjectQuotas, q.limit = 0, NEW s \in Scopings, NEW time \in Int,
         NEW slack, NEW now, NEW used
  PROVE  Justified(from_quota(q, s, time), slack, now, used) /\ from_quota(q, s, time).when = time
<1>1. from_quota(q, s, time).when = time
  BY DEF from_quota
<1>2. QED
  BY <1>1 DEF Justified

-----------------------------------------------------------------------------
(* Jobs.                                                                   *)

LEMMA IdleJobOK ==
  ASSUME NEW ahead, NEW now, NEW used
  PROVE  JobOK(IdleJob, ahead, now, used)
BY DEF JobOK, IdleJob, Calls

LEMMA JobStays ==
  ASSUME NEW job, NEW ahead \in Int, NEW now \in Nat, NEW later \in Nat, now <= later, later <= MaxTime,
         NEW used \in [Keys -> Nat], NEW more \in [Keys -> Nat], \A k \in Keys : used[k] <= more[k],
         job.stage \in Calls => later - job.began <= MaxDelay,
         JobOK(job, ahead, now, used)
  PROVE  JobOK(job, ahead, later, more)
<1>1. \A l \in job.limits : Justified(l, MaxDelay - ahead, later, more)
  <2>1. MaxDelay - ahead \in Int /\ MaxDelay - ahead <= MaxDelay - ahead
    BY TimesAssumption
  <2> QED
    BY <2>1, JustifiedStays DEF JobOK
<1>2. job.stage \in Calls => job.began \in Start .. later
  <2>1. \A b \in Start .. now : b \in Start .. later
    BY TimesAssumption
  <2> QED
    BY <2>1 DEF JobOK
<1>3. QED
  BY <1>1, <1>2 DEF JobOK

(* The records that EXCEPT makes of a job.                                 *)
Job(stage, scoping, quantity, ts, began, ls) ==
  [stage |-> stage, scoping |-> scoping, quantity |-> quantity, ts |-> ts, began |-> began, limits |-> ls]

LEMMA JobFields ==
  ASSUME NEW st, NEW sc, NEW n, NEW t, NEW b, NEW ls
  PROVE  LET job == Job(st, sc, n, t, b, ls)
         IN  /\ job.stage = st /\ job.scoping = sc /\ job.quantity = n
             /\ job.ts = t /\ job.began = b /\ job.limits = ls
BY DEF Job

LEMMA NewJob ==
  ASSUME NEW st, NEW sc, NEW n
  PROVE  [IdleJob EXCEPT !.stage = st, !.scoping = sc, !.quantity = n] = Job(st, sc, n, 0, 0, {})
<1> DEFINE v == [IdleJob EXCEPT !.stage = st]
           w == [v EXCEPT !.scoping = sc]
<1>1. v = Job(st, None, 0, 0, 0, {})
  BY DEF Job, IdleJob
<1>2. w = Job(st, sc, 0, 0, 0, {})
  <2> HIDE DEF v
  <2> QED
    BY <1>1 DEF Job
<1>3. [w EXCEPT !.quantity = n] = Job(st, sc, n, 0, 0, {})
  <2> HIDE DEF w
  <2> QED
    BY <1>2 DEF Job
<1>4. QED
  BY <1>3

(* What JobOK asks of the fields of a job.                                 *)
LEMMA JobIsOK ==
  ASSUME NEW st \in {"idle", "event", "attachment", "respond"} \cup Calls, NEW sc \in Scopings,
         NEW n \in Quantities \cup {0}, NEW t, NEW b, NEW ls, NEW ahead, NEW now, NEW used,
         st \in {"attachment", "attachment_call"} => n > 0,
         st \in Calls => b \in Start .. now /\ now - b <= MaxDelay /\ t = b + ahead,
         \A l \in ls : Justified(l, MaxDelay - ahead, now, used)
  PROVE  JobOK(Job(st, sc, n, t, b, ls), ahead, now, used)
<1> DEFINE job == Job(st, sc, n, t, b, ls)
<1>1. /\ job.stage = st /\ job.scoping = sc /\ job.quantity = n
      /\ job.ts = t /\ job.began = b /\ job.limits = ls
  BY JobFields
<1>2. job = [stage |-> st, scoping |-> sc, quantity |-> n, ts |-> t, began |-> b, limits |-> ls]
  BY DEF Job
<1> HIDE DEF job
<1>3. JobOK(job, ahead, now, used)
  BY <1>1, <1>2 DEF JobOK
<1>4. QED
  BY <1>3 DEF job

LEMMA JobShape ==
  ASSUME NEW job, NEW ahead, NEW now, NEW used, JobOK(job, ahead, now, used)
  PROVE  job = Job(job.stage, job.scoping, job.quantity, job.ts, job.began, job.limits)
BY DEF JobOK, Job

(* One check of enforce_quotas is over, with limits that are due.          *)
LEMMA AfterCheckOK ==
  ASSUME NEW job, NEW ahead, NEW now, NEW used, JobOK(job, ahead, now, used), job.stage # "idle",
         NEW new, \A l \in new : Justified(l, MaxDelay - ahead, now, used)
  PROVE  JobOK(AfterCheck(job, new), ahead, now, used)
<1> DEFINE all == merge(job.limits, new)
           more == CategoryOf(job.stage) = "error" /\ ~is_limited(new, clock) /\ job.quantity > 0
           stage == IF more THEN "attachment" ELSE "respond"
<1>1. \A l \in all : Justified(l, MaxDelay - ahead, now, used)
  <2>1. \A l \in job.limits \cup new : Justified(l, MaxDelay - ahead, now, used)
    BY DEF JobOK
  <2> QED
    BY <2>1, MergeOfJustified
<1>2. job.scoping \in Scopings /\ job.quantity \in Quantities \cup {0}
  BY DEF JobOK
<1>3. /\ stage \in {"attachment", "respond"}
      /\ stage = "attachment" => job.quantity > 0
  OBVIOUS
<1>4. AfterCheck(job, new) = Job(stage, job.scoping, job.quantity, 0, 0, all)
  <2> DEFINE u == [job EXCEPT !.limits = all]
             v == [u EXCEPT !.ts = 0]
             w == [v EXCEPT !.began = 0]
  <2>1. AfterCheck(job, new) = IF more THEN [w EXCEPT !.stage = "attachment"]
                                       ELSE [w EXCEPT !.stage = "respond"]
    BY DEF AfterCheck
  <2>2. job = Job(job.stage, job.scoping, job.quantity, job.ts, job.began, job.limits)
    BY JobShape
  <2> HIDE DEF all
  <2>3. u = Job(job.stage, job.scoping, job.quantity, job.ts, job.began, all)
    BY <2>2 DEF Job
  <2> HIDE DEF u
  <2>4. v = Job(job.stage, job.scoping, job.quantity, 0, job.began, all)
    BY <2>3 DEF Job
  <2> HIDE DEF v
  <2>5. w = Job(job.stage, job.scoping, job.quantity, 0, 0, all)
    BY <2>4 DEF Job
  <2> HIDE DEF w, more
  <2>6. /\ [w EXCEPT !.stage = "attachment"] = Job("attachment", job.scoping, job.quantity, 0, 0, all)
        /\ [w EXCEPT !.stage = "respond"] = Job("respond", job.scoping, job.quantity, 0, 0, all)
    BY <2>5 DEF Job
  <2> QED
    BY <2>1, <2>6
<1> HIDE DEF all, stage
<1>5. JobOK(Job(stage, job.scoping, job.quantity, 0, 0, all), ahead, now, used)
  BY <1>1, <1>2, <1>3, JobIsOK DEF Calls
<1>6. QED
  BY <1>4, <1>5

(* A worker takes its next step, and nothing else changes.                 *)
LEMMA JobMoves ==
  ASSUME Inv, NEW r \in Relays, NEW job, JobOK(job, skew[r], clock, consumed),
         jobs' = [jobs EXCEPT ![r] = job],
         UNCHANGED <<clock, skew, counters, limits, header, consumed, refunded>>
  PROVE  Inv'
<1>1. /\ jobs'[r] = job /\ \A o \in Relays \ {r} : jobs'[o] = jobs[o]
      /\ jobs' = [o \in Relays |-> jobs'[o]]
  BY DEF Inv, Jobs
<1>2. Jobs'
  BY <1>1 DEF Inv, Jobs
<1>3. Times' /\ Counts' /\ WindowBound'
  BY DEF Inv, Times, Counts, CounterOK, WindowBound
<1>4. Limits' /\ Headers'
  BY DEF Inv, Limits, Slack, Headers
<1>5. QED
  BY <1>2, <1>3, <1>4 DEF Inv

LEMMA CheckEnvelopeInv ==
  ASSUME Inv, NEW r \in Relays, NEW s \in Scopings, NEW n \in Quantities, CheckEnvelope(r, s, n)
  PROVE  Inv'
<1> DEFINE m == IF Cached(r, s, "attachment") = {} THEN n ELSE 0
<1>1. m \in Quantities \cup {0}
  OBVIOUS
<1>2. jobs' = [jobs EXCEPT ![r] = [IdleJob EXCEPT !.stage = "event", !.scoping = s, !.quantity = m]]
  BY DEF CheckEnvelope
<1> HIDE DEF m
<1>3. jobs' = [jobs EXCEPT ![r] = Job("event", s, m, 0, 0, {})]
  BY <1>2, NewJob
<1>4. JobOK(Job("event", s, m, 0, 0, {}), skew[r], clock, consumed)
  BY <1>1, JobIsOK DEF Calls
<1>5. QED
  BY <1>3, <1>4, JobMoves DEF CheckEnvelope

LEMMA PrepareInv ==
  ASSUME Inv, NEW r \in Relays, Prepare(r)
  PROVE  Inv'
<1> DEFINE job == jobs[r]
           zero == {from_quota(q, job.scoping, clock + REJECT_ALL_SECS) : q \in zero_quotas(job)}
           stage == IF job.stage = "event" THEN "event_call" ELSE "attachment_call"
           call == [job EXCEPT !.ts = Now(r), !.began = clock, !.stage = stage]
<1>1. JobOK(job, skew[r], clock, consumed) /\ job.stage \in {"event", "attachment"}
  BY DEF Inv, Jobs, Prepare
<1>2. job.scoping \in Scopings /\ job.stage # "idle"
  BY <1>1 DEF JobOK
<1>3. clock \in Nat /\ MaxDelay \in Nat /\ clock \in Start .. clock /\ clock - clock <= MaxDelay
  BY Numbers DEF Inv
<1>4. \A l \in zero : Justified(l, MaxDelay - skew[r], clock, consumed)
  <2>1. clock + REJECT_ALL_SECS \in Int
    BY <1>3 DEF REJECT_ALL_SECS
  <2>2. \A q \in zero_quotas(job) : q \in ProjectQuotas /\ q.limit = 0
    BY DEF zero_quotas, Matching
  <2> HIDE DEF job
  <2> QED
    BY <1>2, <2>1, <2>2, ZeroIsJustified
<1>5. JobOK(AfterCheck(job, zero), skew[r], clock, consumed)
  <2> HIDE DEF zero, job
  <2> QED
    BY <1>1, <1>2, <1>4, AfterCheckOK
<1>6. call = Job(stage, job.scoping, job.quantity, Now(r), clock, job.limits)
  <2> HIDE DEF job, stage
  <2> DEFINE v == [job EXCEPT !.ts = Now(r)]
             w == [v EXCEPT !.began = clock]
  <2>1. job = Job(job.stage, job.scoping, job.quantity, job.ts, job.began, job.limits)
    BY <1>1, JobShape
  <2>2. v = Job(job.stage, job.scoping, job.quantity, Now(r), job.began, job.limits)
    BY <2>1 DEF Job
  <2>3. call = [w EXCEPT !.stage = stage]
    OBVIOUS
  <2> HIDE DEF v
  <2>4. w = Job(job.stage, job.scoping, job.quantity, Now(r), clock, job.limits)
    BY <2>2 DEF Job
  <2> HIDE DEF w, call
  <2>5. [w EXCEPT !.stage = stage] = Job(stage, job.scoping, job.quantity, Now(r), clock, job.limits)
    BY <2>4 DEF Job
  <2> QED
    BY <2>3, <2>5
<1>7. JobOK(call, skew[r], clock, consumed)
  <2>1. stage \in Calls /\ (stage = "attachment_call" => job.quantity > 0)
    BY <1>1 DEF JobOK, Calls
  <2>2. job.quantity \in Quantities \cup {0} /\ \A l \in job.limits : Justified(l, MaxDelay - skew[r], clock, consumed)
    BY <1>1 DEF JobOK
  <2> HIDE DEF job, stage, call
  <2>3. JobOK(Job(stage, job.scoping, job.quantity, Now(r), clock, job.limits), skew[r], clock, consumed)
    BY <1>2, <1>3, <2>1, <2>2, JobIsOK DEF Now, Calls
  <2> QED
    BY <1>6, <2>3
<1>8. jobs' = [jobs EXCEPT ![r] = AfterCheck(job, zero)] \/ jobs' = [jobs EXCEPT ![r] = call]
  BY DEF Prepare
<1> HIDE DEF job, zero, call
<1>9. QED
  BY <1>5, <1>7, <1>8, JobMoves DEF Prepare

LEMMA InvokeFailsInv ==
  ASSUME Inv, NEW r \in Relays, InvokeFails(r)
  PROVE  Inv'
BY IdleJobOK, JobMoves DEF InvokeFails

-----------------------------------------------------------------------------
(* The script.                                                             *)

(* As time passes and more is consumed, what is due stays due.             *)
LEMMA DueStays ==
  ASSUME Inv, clock' \in Nat, clock <= clock', clock' <= MaxTime,
         consumed' \in [Keys -> Nat], \A k \in Keys : consumed[k] <= consumed'[k]
  PROVE  /\ \A r \in Relays : (jobs[r].stage \in Calls => clock' - jobs[r].began <= MaxDelay) =>
                                JobOK(jobs[r], skew[r], clock', consumed')
         /\ \A r \in Relays \cup Edges : \A l \in limits[r] : Justified(l, Slack(r), clock', consumed')
         /\ \A e \in Edges : header[e] # None => \A l \in header[e].limits :
              Justified(Learned(header[e], l, header[e].began), Drift + MaxDelay, clock', consumed')
<1>1. /\ clock \in Nat /\ consumed \in [Keys -> Nat] /\ Drift \in Nat /\ MaxDelay \in Nat
      /\ \A r \in Relays : skew[r] \in Int
  BY Numbers DEF Inv, Counts
<1>2. \A r \in Relays : (jobs[r].stage \in Calls => clock' - jobs[r].began <= MaxDelay) =>
                          JobOK(jobs[r], skew[r], clock', consumed')
  <2> SUFFICES ASSUME NEW r \in Relays, jobs[r].stage \in Calls => clock' - jobs[r].began <= MaxDelay
               PROVE  JobOK(jobs[r], skew[r], clock', consumed')
    OBVIOUS
  <2>1. JobOK(jobs[r], skew[r], clock, consumed)
    BY DEF Inv, Jobs
  <2> QED
    BY <1>1, <2>1, JobStays
<1>4. ASSUME NEW l, NEW slack \in Int, Justified(l, slack, clock, consumed)
      PROVE  Justified(l, slack, clock', consumed')
  <2>1. slack <= slack
    OBVIOUS
  <2> QED
    BY <1>1, <1>4, <2>1, JustifiedStays
<1>5. \A r \in Relays \cup Edges : Slack(r) \in Int
  BY <1>1 DEF Slack
<1>6. Drift + MaxDelay \in Int
  BY <1>1
<1>7. QED
  BY <1>2, <1>4, <1>5, <1>6 DEF Inv, Limits, Headers

(* A call of the script, with the time that the relay has read.            *)
LEMMA CallIsRecent ==
  ASSUME Inv, NEW r \in Relays, jobs[r].stage \in Calls
  PROVE  /\ jobs[r].scoping \in Scopings
         /\ jobs[r].ts \in Start - Drift .. clock + Drift /\ jobs[r].ts \in Int
         /\ clock < jobs[r].ts + Grace + 1 /\ clock - jobs[r].ts <= MaxDelay - skew[r]
         /\ QuantityOf(jobs[r]) \in Quantities \cup {1} /\ QuantityOf(jobs[r]) \in Nat
<1> DEFINE job == jobs[r]
<1>1. JobOK(job, skew[r], clock, consumed)
  BY DEF Inv, Jobs
<1>2. job.scoping \in Scopings
  BY <1>1 DEF JobOK, Calls
<1>3. job.began \in Start .. clock /\ clock - job.began <= MaxDelay /\ job.ts = job.began + skew[r]
  BY <1>1 DEF JobOK
<1>4. /\ clock \in Nat /\ Start \in Nat /\ Drift \in Nat /\ MaxDelay \in Nat /\ Grace \in Nat
      /\ Drift + MaxDelay <= Grace /\ skew[r] \in Int /\ -Drift <= skew[r] /\ skew[r] <= Drift
  BY Numbers DEF Inv
<1>5. QuantityOf(job) \in Quantities \cup {1}
  <2>1. CASE job.stage = "event_call"
    BY <2>1 DEF QuantityOf
  <2>2. CASE job.stage = "attachment_call"
    <3>1. job.quantity \in Quantities \cup {0} /\ job.quantity > 0
      BY <1>1, <2>2 DEF JobOK
    <3>2. job.quantity \in Quantities
      BY <3>1
    <3> QED
      BY <2>2, <3>2 DEF QuantityOf
  <2> QED
    BY <2>1, <2>2 DEF Calls
<1>6. QuantityOf(job) \in Nat
  <2>1. \A n \in Quantities \cup {1} : n \in Nat
    BY ItemsAssumption
  <2> QED
    BY <1>5, <2>1
<1> HIDE DEF job
<1>7. job.began \in Int /\ Start <= job.began /\ job.began <= clock
  BY <1>3, <1>4
<1>8. /\ job.ts \in Int /\ Start - Drift <= job.ts /\ job.ts <= clock + Drift
      /\ clock < job.ts + Grace + 1 /\ clock - job.ts <= MaxDelay - skew[r]
  <2> DEFINE b == job.began
             d == skew[r]
  <2>1. job.ts = b + d /\ b \in Int /\ Start <= b /\ b <= clock /\ clock - b <= MaxDelay
    BY <1>3, <1>7
  <2>2. d \in Int /\ -Drift <= d /\ d <= Drift
    BY <1>4
  <2> HIDE DEF b, d
  <2>3. /\ b + d \in Int /\ Start - Drift <= b + d /\ b + d <= clock + Drift
        /\ clock < b + d + Grace + 1 /\ clock - (b + d) <= MaxDelay - d
    BY <1>4, <2>1, <2>2
  <2> QED
    BY <2>1, <2>3 DEF d
<1>9. QED
  BY <1>2, <1>4, <1>5, <1>6, <1>8 DEF job

(* The counters that a call uses are there, unless they have not been used.*)
LEMMA CounterIsLive ==
  ASSUME Inv, NEW r \in Relays, jobs[r].stage \in Calls, NEW q \in tracked_quotas(jobs[r])
  PROVE  LET k == key(q, jobs[r].scoping, jobs[r].ts)
         IN  /\ q \in Tracked /\ k \in Keys /\ QuotaOf(k) = q
             /\ End(k) = expiry(q, jobs[r].scoping, jobs[r].ts) /\ End(k) \in Nat
             /\ End(k) + Grace > clock /\ Get(k) = consumed[k]
<1> DEFINE k == key(q, jobs[r].scoping, jobs[r].ts)
<1>1. q \in Tracked
  BY DEF tracked_quotas, Matching
<1>2. /\ jobs[r].scoping \in Scopings /\ jobs[r].ts \in Start - Drift .. clock + Drift
      /\ jobs[r].ts \in Int /\ clock < jobs[r].ts + Grace + 1
  BY CallIsRecent
<1>3. clock \in Nat /\ clock <= MaxTime /\ Grace \in Nat
  BY Numbers DEF Inv
<1>4. k \in Keys
  BY <1>1, <1>2, <1>3, KeyOfNow
<1>5. QuotaOf(k) = q /\ End(k) = expiry(q, jobs[r].scoping, jobs[r].ts)
  BY <1>1, <1>2, KeyOfQuota
<1>6. End(k) \in Nat /\ End(k) > jobs[r].ts
  BY <1>1, <1>2, <1>4, <1>5, QuotaOfKey, WindowIsAhead
<1>7. End(k) + Grace > clock
  BY <1>2, <1>3, <1>6
<1>8. Get(k) = consumed[k]
  <2>1. CounterOK(k)
    BY <1>4 DEF Inv, Counts
  <2>2. CASE counters[k] = NoCounter
    <3>1. consumed[k] = 0
      BY <1>3, <1>6, <1>7, <2>1, <2>2 DEF CounterOK
    <3> QED
      BY <2>2, <3>1 DEF Get, NoCounter
  <2>3. CASE counters[k] # NoCounter
    BY <2>1, <2>3 DEF CounterOK, Get
  <2> QED
    BY <2>2, <2>3
<1>9. QED
  BY <1>1, <1>4, <1>5, <1>6, <1>7, <1>8

(* What one run of the script does to a counter: it takes the quantity of  *)
(* an item that passes, or stays as it is.                                 *)
Takes(r, k) ==
  /\ \A q \in tracked_quotas(jobs[r]) :
       ~rejected(q, key(q, jobs[r].scoping, jobs[r].ts), QuantityOf(jobs[r]))
  /\ \E q \in tracked_quotas(jobs[r]) : k = key(q, jobs[r].scoping, jobs[r].ts)

LEMMA InvokeCounts ==
  ASSUME Inv, NEW r \in Relays, Invoke(r), NEW k \in Keys
  PROVE  LET n == QuantityOf(jobs[r])
         IN  IF Takes(r, k)
             THEN /\ counters'[k] = [value |-> Get(k) + n, expireat |-> End(k) + Grace]
                  /\ consumed'[k] = consumed[k] + n /\ Get(k) = consumed[k]
                  /\ ~rejected(QuotaOf(k), k, n) /\ End(k) \in Nat /\ End(k) + Grace > clock
             ELSE counters'[k] = counters[k] /\ consumed'[k] = consumed[k]
<1> DEFINE job == jobs[r]
           n == QuantityOf(job)
           keyOf(q) == key(q, job.scoping, job.ts)
           rejections == {q \in tracked_quotas(job) : rejected(q, keyOf(q), n)}
           passed == incremented(tracked_quotas(job), rejections)
<1>1. job.stage \in Calls
  BY DEF Invoke, Calls
<1>2. /\ counters' = [j \in Keys |->
           IF \E q \in passed : j = keyOf(q) /\ expireat(q, job) > clock
           THEN [value |-> Get(j) + n, expireat |-> expireat(QuotaOf(j), job)]
           ELSE IF \E q \in passed : j = keyOf(q) THEN NoCounter ELSE counters[j]]
      /\ consumed' = [j \in Keys |->
           IF rejections = {} /\ \E q \in tracked_quotas(job) : j = keyOf(q)
           THEN consumed[j] + n ELSE consumed[j]]
  BY DEF Invoke
<1>3. \A q \in tracked_quotas(job) :
        /\ keyOf(q) \in Keys /\ QuotaOf(keyOf(q)) = q /\ End(keyOf(q)) = expiry(q, job.scoping, job.ts)
        /\ End(keyOf(q)) \in Nat /\ End(keyOf(q)) + Grace > clock /\ Get(keyOf(q)) = consumed[keyOf(q)]
  BY <1>1, CounterIsLive
<1>4. Takes(r, k) <=> rejections = {} /\ \E q \in tracked_quotas(job) : k = keyOf(q)
  BY DEF Takes
<1>5. passed = IF rejections = {} THEN tracked_quotas(job) ELSE {}
  BY DEF incremented
<1> HIDE DEF job, n, keyOf, rejections, passed
<1>6. CASE Takes(r, k)
  <2>1. PICK q \in tracked_quotas(job) : k = keyOf(q)
    BY <1>4, <1>6
  <2>2. rejections = {} /\ passed = tracked_quotas(job)
    BY <1>4, <1>5, <1>6
  <2>3. /\ QuotaOf(k) = q /\ End(k) = expiry(q, job.scoping, job.ts) /\ End(k) \in Nat
        /\ End(k) + Grace > clock /\ Get(k) = consumed[k]
    BY <1>3, <2>1
  <2>4. expireat(q, job) = End(k) + Grace /\ expireat(QuotaOf(k), job) = End(k) + Grace
    BY <2>3 DEF expireat
  <2>5. \E p \in passed : k = keyOf(p) /\ expireat(p, job) > clock
    BY <2>1, <2>2, <2>3, <2>4
  <2>6. counters'[k] = [value |-> Get(k) + n, expireat |-> End(k) + Grace]
    BY <1>2, <2>4, <2>5
  <2>7. consumed'[k] = consumed[k] + n
    BY <1>2, <2>1, <2>2
  <2>8. ~rejected(q, k, n)
    BY <2>1, <2>2 DEF rejections
  <2> QED
    BY <1>6, <2>3, <2>6, <2>7, <2>8 DEF n, job
<1>7. CASE ~Takes(r, k)
  <2>1. ~\E q \in passed : k = keyOf(q)
    BY <1>4, <1>5, <1>7
  <2>2. ~(rejections = {} /\ \E q \in tracked_quotas(job) : k = keyOf(q))
    BY <1>4, <1>7
  <2>3. counters'[k] = counters[k]
    BY <1>2, <2>1
  <2>4. consumed'[k] = consumed[k]
    BY <1>2, <2>2
  <2> QED
    BY <1>7, <2>3, <2>4
<1>8. QED
  BY <1>6, <1>7

(* A limit that the script makes a relay return is due to its counter.     *)
LEMMA RejectionIsJustified ==
  ASSUME Inv, NEW r \in Relays, jobs[r].stage \in Calls, NEW q \in tracked_quotas(jobs[r]),
         rejected(q, key(q, jobs[r].scoping, jobs[r].ts), QuantityOf(jobs[r]))
  PROVE  Justified(from_quota(q, jobs[r].scoping,
                              clock + expiry(q, jobs[r].scoping, jobs[r].ts) - jobs[r].ts),
                   MaxDelay - skew[r], clock, consumed)
<1> DEFINE s == jobs[r].scoping
           ts == jobs[r].ts
           n == QuantityOf(jobs[r])
           k == key(q, s, ts)
           x == expiry(q, s, ts)
           l == from_quota(q, s, clock + x - ts)
<1>1. /\ s \in Scopings /\ ts \in Start - Drift .. clock + Drift /\ ts \in Int
      /\ clock - ts <= MaxDelay - skew[r] /\ n \in Quantities \cup {1} /\ n \in Nat
  BY CallIsRecent
<1>2. q \in Tracked /\ k \in Keys /\ Get(k) = consumed[k]
  BY CounterIsLive
<1>3. /\ x \in Int /\ q \in ProjectQuotas /\ q.limit \in Int
      /\ clock \in Nat /\ MaxDelay \in Nat /\ skew[r] \in Int
  BY <1>1, <1>2, WindowIsAhead, TrackedQuota, Numbers DEF Inv
<1>4. consumed[k] \in Nat /\ refunded[k] \in Nat
  BY <1>2 DEF Inv, Counts
<1>5. Get(k) - refunded[k] + n > q.limit
  BY DEF rejected
<1> HIDE DEF k
<1>6. consumed[k] + n > q.limit
  BY <1>1, <1>2, <1>3, <1>4, <1>5
<1>7. Exhausted(q, s, ts, consumed)
  BY <1>1, <1>6 DEF Exhausted, k
<1>8. l.when = clock + x - ts /\ l = from_quota(q, s, l.when)
  BY DEF from_quota
<1> HIDE DEF l, n, s, ts, x
<1>9. l.when \in Int /\ l.when <= x + (MaxDelay - skew[r])
  BY <1>1, <1>3, <1>8
<1>10. Justified(l, MaxDelay - skew[r], clock, consumed)
  BY <1>1, <1>2, <1>3, <1>7, <1>8, <1>9 DEF Justified, x
<1>11. QED
  BY <1>10 DEF l, s, ts, x

LEMMA InvokeInv ==
  ASSUME Inv, NEW r \in Relays, Invoke(r)
  PROVE  Inv'
<1> DEFINE job == jobs[r]
           n == QuantityOf(job)
           keyOf(q) == key(q, job.scoping, job.ts)
           rejections == {q \in tracked_quotas(job) : rejected(q, keyOf(q), n)}
           new == {from_quota(q, job.scoping, clock + expiry(q, job.scoping, job.ts) - job.ts) : q \in rejections}
<1>1. /\ job.stage \in Calls /\ UNCHANGED <<clock, skew, limits, header, refunded>>
      /\ counters' = [k \in Keys |-> counters'[k]] /\ consumed' = [k \in Keys |-> consumed'[k]]
  BY DEF Invoke, Calls
<1>2. \E after \in {AfterCheck(job, new), IdleJob} : jobs' = [jobs EXCEPT ![r] = after]
  BY DEF Invoke
<1>3. n \in Nat
  BY <1>1, CallIsRecent
<1>4. clock \in Nat /\ clock <= MaxTime /\ Grace \in Nat
  BY Numbers DEF Inv
<1>5. \A l \in new : Justified(l, MaxDelay - skew[r], clock, consumed)
  BY <1>1, RejectionIsJustified
<1>6. JobOK(job, skew[r], clock, consumed) /\ job.stage # "idle"
  BY <1>1 DEF Inv, Jobs, Calls
<1> HIDE DEF job, n, new
<1>7. PICK after : jobs' = [jobs EXCEPT ![r] = after] /\ JobOK(after, skew[r], clock, consumed)
  BY <1>2, <1>5, <1>6, AfterCheckOK, IdleJobOK
<1>8. ASSUME NEW k \in Keys
      PROVE  /\ consumed'[k] \in Nat /\ consumed[k] <= consumed'[k]
             /\ counters'[k].value \in Nat /\ counters'[k].expireat \in Nat /\ CounterOK(k)'
             /\ QuotaOf(k).limit # Unlimited => consumed'[k] - refunded'[k] <= QuotaOf(k).limit
  <2>1. /\ consumed[k] \in Nat /\ refunded[k] \in Nat /\ refunded'[k] = refunded[k]
        /\ counters[k].value \in Nat /\ counters[k].expireat \in Nat /\ CounterOK(k)
        /\ QuotaOf(k).limit # Unlimited => consumed[k] - refunded[k] <= QuotaOf(k).limit
    BY <1>1 DEF Inv, Counts, WindowBound
  <2>2. CASE Takes(r, k)
    <3>1. /\ counters'[k] = [value |-> Get(k) + n, expireat |-> End(k) + Grace]
          /\ consumed'[k] = consumed[k] + n /\ Get(k) = consumed[k]
          /\ ~rejected(QuotaOf(k), k, n) /\ End(k) \in Nat /\ End(k) + Grace > clock
      BY <2>2, InvokeCounts DEF n, job
    <3>2. QuotaOf(k).limit \in Nat \cup {-1}
      BY QuotaOfKey, TrackedQuota
    <3>3. consumed'[k] \in Nat /\ consumed[k] <= consumed'[k] /\ End(k) + Grace \in Nat
      BY <1>3, <1>4, <2>1, <3>1
    <3>4. counters'[k].value = consumed'[k] /\ counters'[k].expireat = End(k) + Grace
      BY <3>1
    <3>5. counters'[k] # NoCounter
      BY <1>4, <3>1, <3>4 DEF NoCounter
    <3>6. CounterOK(k)'
      BY <3>4, <3>5 DEF CounterOK
    <3>7. ASSUME QuotaOf(k).limit # Unlimited
          PROVE  consumed'[k] - refunded'[k] <= QuotaOf(k).limit
      <4>1. QuotaOf(k).limit \in Nat
        BY <3>2, <3>7 DEF Unlimited
      <4>2. ~(consumed[k] - refunded[k] + n > QuotaOf(k).limit)
        BY <3>1, <4>1 DEF rejected
      <4> QED
        BY <1>3, <2>1, <3>1, <4>1, <4>2
    <3> QED
      BY <3>3, <3>4, <3>6, <3>7
  <2>3. CASE ~Takes(r, k)
    <3>1. counters'[k] = counters[k] /\ consumed'[k] = consumed[k]
      BY <2>3, InvokeCounts
    <3> QED
      BY <1>1, <2>1, <3>1 DEF CounterOK
  <2> QED
    BY <2>2, <2>3
<1>9. consumed' \in [Keys -> Nat] /\ \A k \in Keys : consumed[k] <= consumed'[k]
  BY <1>1, <1>8
<1>10. Times'
  BY <1>1 DEF Inv, Times
<1>11. Counts'
  BY <1>1, <1>8, <1>9 DEF Inv, Counts
<1>12. WindowBound'
  BY <1>8 DEF WindowBound
<1>13. clock' = clock /\ clock' \in Nat /\ clock <= clock' /\ clock' <= MaxTime /\ skew' = skew
  BY <1>1, <1>4
<1>14. Jobs'
  <2>1. \A o \in Relays : JobOK(jobs[o], skew[o], clock', consumed')
    <3> SUFFICES ASSUME NEW o \in Relays
                 PROVE  jobs[o].stage \in Calls => clock' - jobs[o].began <= MaxDelay
      BY <1>9, <1>13, DueStays
    <3> QED
      BY <1>13 DEF Inv, Jobs, JobOK
  <2>2. JobOK(after, skew[r], clock', consumed')
    <3>1. after.stage \in Calls => clock' - after.began <= MaxDelay
      BY <1>7, <1>13 DEF JobOK
    <3>2. skew[r] \in Int /\ consumed \in [Keys -> Nat]
      BY Numbers DEF Inv, Counts
    <3> QED
      BY <1>4, <1>7, <1>9, <1>13, <3>1, <3>2, JobStays
  <2>3. /\ jobs'[r] = after /\ \A o \in Relays \ {r} : jobs'[o] = jobs[o]
        /\ jobs' = [o \in Relays |-> jobs'[o]]
    BY <1>7 DEF Inv, Jobs
  <2> QED
    BY <1>13, <2>1, <2>2, <2>3 DEF Jobs
<1>15. Limits'
  <2>1. \A o \in Relays \cup Edges : \A l \in limits[o] : Justified(l, Slack(o), clock', consumed')
    BY <1>9, <1>13, DueStays
  <2> QED
    BY <1>1, <1>13, <2>1 DEF Inv, Limits, Slack
<1>16. Headers'
  <2>1. \A e \in Edges : header[e] # None => \A l \in header[e].limits :
          Justified(Learned(header[e], l, header[e].began), Drift + MaxDelay, clock', consumed')
    BY <1>9, <1>13, DueStays
  <2> QED
    BY <1>1, <1>13, <2>1 DEF Inv, Headers
<1>17. QED
  BY <1>10, <1>11, <1>12, <1>14, <1>15, <1>16 DEF Inv

-----------------------------------------------------------------------------
(* The cached limits.                                                      *)

(* A relay replaces its limits by others that are due.                     *)
LEMMA LimitsMove ==
  ASSUME Inv, NEW r \in Relays \cup Edges, NEW new,
         \A a, b \in new : Overlaps(a, b) => a = b,
         \A l \in new : l.when > clock /\ Justified(l, Slack(r), clock, consumed),
         limits' = [limits EXCEPT ![r] = new], Jobs', Headers',
         UNCHANGED <<clock, skew, counters, consumed, refunded>>
  PROVE  Inv'
<1>1. /\ limits'[r] = new /\ \A o \in (Relays \cup Edges) \ {r} : limits'[o] = limits[o]
      /\ limits' = [o \in Relays \cup Edges |-> limits'[o]]
  BY DEF Inv, Limits
<1>2. \A o \in Relays \cup Edges : Slack(o)' = Slack(o)
  BY DEF Slack
<1>3. ASSUME NEW o \in Relays \cup Edges
      PROVE  /\ \A a, b \in limits'[o] : Overlaps(a, b) => a = b
             /\ \A l \in limits'[o] : l.when > clock' /\ Justified(l, Slack(o)', clock', consumed')
  BY <1>1, <1>2 DEF Inv, Limits
<1>4. Limits'
  BY <1>1, <1>3 DEF Limits
<1>5. Times' /\ Counts' /\ WindowBound'
  BY DEF Inv, Times, Counts, CounterOK, WindowBound
<1>6. QED
  BY <1>4, <1>5 DEF Inv

LEMMA RespondInv ==
  ASSUME Inv, NEW r \in Relays, Respond(r)
  PROVE  Inv'
<1> DEFINE all == merge(limits[r], jobs[r].limits)
           kept == clean_expired(all, clock)
           new == IF is_limited(jobs[r].limits, clock) THEN kept ELSE limits[r]
<1>1. /\ jobs' = [jobs EXCEPT ![r] = IdleJob] /\ limits' = [limits EXCEPT ![r] = new]
      /\ UNCHANGED <<clock, skew, counters, header, consumed, refunded>>
  BY DEF Respond
<1>2. Jobs'
  <2>1. /\ jobs'[r] = IdleJob /\ \A o \in Relays \ {r} : jobs'[o] = jobs[o]
        /\ jobs' = [o \in Relays |-> jobs'[o]]
    BY <1>1 DEF Inv, Jobs
  <2> QED
    BY <1>1, <2>1, IdleJobOK DEF Inv, Jobs
<1>3. Headers'
  BY <1>1 DEF Inv, Headers
<1>4. Slack(r) = MaxDelay - skew[r]
  BY DEF Slack
<1>5. /\ \A l \in limits[r] : l.when > clock /\ Justified(l, Slack(r), clock, consumed)
      /\ \A a, b \in limits[r] : Overlaps(a, b) => a = b
  BY DEF Inv, Limits
<1>6. \A l \in limits[r] \cup jobs[r].limits : Justified(l, Slack(r), clock, consumed)
  BY <1>4, <1>5 DEF Inv, Jobs, JobOK
<1>7. /\ \A l \in all : Justified(l, Slack(r), clock, consumed)
      /\ \A a, b \in all : Overlaps(a, b) => a = b
  BY <1>6, MergeOfJustified
<1> HIDE DEF all
<1>8. /\ \A l \in new : l.when > clock /\ Justified(l, Slack(r), clock, consumed)
      /\ \A a, b \in new : Overlaps(a, b) => a = b
  BY <1>5, <1>7 DEF clean_expired
<1> HIDE DEF new
<1>9. QED
  BY <1>1, <1>2, <1>3, <1>8, LimitsMove

LEMMA EvictInv ==
  ASSUME Inv, NEW r \in Relays, Evict(r)
  PROVE  Inv'
<1> DEFINE new == {}
<1>1. Jobs' /\ Headers'
  BY DEF Evict, Inv, Jobs, Headers
<1>2. limits' = [limits EXCEPT ![r] = new] /\ UNCHANGED <<clock, skew, counters, consumed, refunded>>
  BY DEF Evict
<1>3. /\ \A a, b \in new : Overlaps(a, b) => a = b
      /\ \A l \in new : l.when > clock /\ Justified(l, Slack(r), clock, consumed)
  OBVIOUS
<1> HIDE DEF new
<1>4. QED
  BY <1>1, <1>2, <1>3, LimitsMove

(* The limits that a relay applies to an item hold for its scoping.        *)
LEMMA AppliedLimits ==
  ASSUME Inv, NEW r \in Relays, NEW s \in Scopings, NEW l \in Cached(r, s, "error")
  PROVE  /\ l.when \in Int /\ l.when > clock /\ Justified(l, MaxDelay - skew[r], clock, consumed)
         /\ l.scope = for_quota(s, l.scope[1])
         /\ l = [categories |-> l.categories, scope |-> l.scope, when |-> l.when]
<1> DEFINE slack == MaxDelay - skew[r]
           zero == {from_quota(q, s, clock + REJECT_ALL_SECS) :
                      q \in {q \in ProjectQuotas : q.limit = 0 /\ quota_matches(q, s, "error")}}
           own == {m \in limits[r] : limit_matches(m, s, "error")}
<1>1. l \in zero \cup own
  BY DEF Cached, check_with_quotas, merge
<1>2. clock \in Nat
  BY Numbers DEF Inv
<1>3. ASSUME l \in zero
      PROVE  l.when > clock /\ Justified(l, slack, clock, consumed) /\ l.scope = for_quota(s, l.scope[1])
  <2>1. PICK q \in ProjectQuotas : q.limit = 0 /\ l = from_quota(q, s, clock + REJECT_ALL_SECS)
    BY <1>3
  <2>2. clock + REJECT_ALL_SECS \in Int /\ clock + REJECT_ALL_SECS > clock
    BY <1>2 DEF REJECT_ALL_SECS
  <2>3. Justified(l, slack, clock, consumed) /\ l.when = clock + REJECT_ALL_SECS
    BY <2>1, <2>2, ZeroIsJustified
  <2>4. l.scope = for_quota(s, q.scope)
    BY <2>1 DEF from_quota
  <2>5. for_quota(s, q.scope) = for_quota(s, for_quota(s, q.scope)[1])
    BY DEF for_quota
  <2> QED
    BY <2>2, <2>3, <2>4, <2>5
<1>4. ASSUME l \in own
      PROVE  l.when > clock /\ Justified(l, slack, clock, consumed) /\ l.scope = for_quota(s, l.scope[1])
  <2>1. l.when > clock /\ Justified(l, Slack(r), clock, consumed)
    BY <1>4 DEF Inv, Limits
  <2>2. Slack(r) = slack
    BY DEF Slack
  <2>3. l.scope = for_quota(s, l.scope[1])
    BY <1>4 DEF limit_matches
  <2> QED
    BY <2>1, <2>2, <2>3
<1>5. l.when > clock /\ Justified(l, slack, clock, consumed) /\ l.scope = for_quota(s, l.scope[1])
  BY <1>1, <1>3, <1>4
<1>6. l.when \in Int /\ \E q, t : l = from_quota(q, t, l.when)
  BY <1>5 DEF Justified
<1>7. l = [categories |-> l.categories, scope |-> l.scope, when |-> l.when]
  BY <1>6 DEF from_quota
<1>8. QED
  BY <1>5, <1>6, <1>7

LEMMA RejectInv ==
  ASSUME Inv, NEW e \in Edges, NEW r \in Relays, NEW s \in Scopings, Reject(e, r, s)
  PROVE  Inv'
<1> DEFINE applied == Cached(r, s, "error")
           sent == {[categories |-> l.categories, scope |-> l.scope[1], secs |-> l.when - clock] : l \in applied}
           h == [scoping |-> s, began |-> clock, limits |-> sent]
<1>1. header' = [header EXCEPT ![e] = h] /\ UNCHANGED <<clock, skew, counters, limits, jobs, consumed, refunded>>
  BY DEF Reject
<1>2. /\ clock \in Nat /\ Start \in Nat /\ Start <= clock /\ MaxDelay \in Nat /\ Drift \in Nat
      /\ clock <= MaxTime /\ skew[r] \in Int /\ -Drift <= skew[r] /\ consumed \in [Keys -> Nat]
  BY Numbers DEF Inv, Counts
<1>3. h.began = clock /\ h.scoping = s /\ h.limits = sent
  OBVIOUS
<1>4. ASSUME NEW x \in sent
      PROVE  x.secs \in Nat \ {0} /\ Justified(Learned(h, x, clock), Drift + MaxDelay, clock, consumed)
  <2>1. PICK l \in applied : x = [categories |-> l.categories, scope |-> l.scope[1], secs |-> l.when - clock]
    BY <1>4
  <2>2. /\ l.when \in Int /\ l.when > clock /\ Justified(l, MaxDelay - skew[r], clock, consumed)
        /\ l.scope = for_quota(s, l.scope[1])
        /\ l = [categories |-> l.categories, scope |-> l.scope, when |-> l.when]
    BY AppliedLimits
  <2>3. x.categories = l.categories /\ x.scope = l.scope[1] /\ x.secs = l.when - clock
    BY <2>1
  <2>4. x.secs \in Nat \ {0} /\ clock + x.secs = l.when
    BY <1>2, <2>2, <2>3
  <2>5. Learned(h, x, clock) = l
    BY <1>3, <2>2, <2>3, <2>4 DEF Learned
  <2>6. MaxDelay - skew[r] \in Int /\ Drift + MaxDelay \in Int /\ MaxDelay - skew[r] <= Drift + MaxDelay
    BY <1>2
  <2>7. clock <= clock /\ \A k \in Keys : consumed[k] <= consumed[k]
    BY <1>2
  <2>8. Justified(l, Drift + MaxDelay, clock, consumed)
    BY <1>2, <2>2, <2>6, <2>7, JustifiedStays
  <2> QED
    BY <2>4, <2>5, <2>8
<1>5. clock \in Start .. clock /\ clock - clock <= MaxDelay
  BY <1>2
<1> HIDE DEF h, sent
<1>6. Headers'
  <2>1. /\ header'[e] = h /\ \A o \in Edges \ {e} : header'[o] = header[o]
        /\ header' = [o \in Edges |-> header'[o]]
    BY <1>1 DEF Inv, Headers
  <2>2. ASSUME NEW o \in Edges, header'[o] # None
        PROVE  /\ header'[o].began \in Start .. clock /\ clock - header'[o].began <= MaxDelay
               /\ \A l \in header'[o].limits :
                    /\ l.secs \in Nat \ {0}
                    /\ Justified(Learned(header'[o], l, header'[o].began), Drift + MaxDelay, clock, consumed)
    <3>1. CASE o = e
      BY <1>3, <1>4, <1>5, <2>1, <3>1
    <3>2. CASE o # e
      BY <2>1, <2>2, <3>2 DEF Inv, Headers
    <3> QED
      BY <3>1, <3>2
  <2> QED
    BY <1>1, <2>1, <2>2 DEF Headers
<1>7. Times' /\ Counts' /\ WindowBound'
  BY <1>1 DEF Inv, Times, Counts, CounterOK, WindowBound
<1>8. Jobs' /\ Limits'
  BY <1>1 DEF Inv, Jobs, Limits, Slack
<1>9. QED
  BY <1>6, <1>7, <1>8 DEF Inv

LEMMA LearnInv ==
  ASSUME Inv, NEW e \in Edges, Learn(e)
  PROVE  Inv'
<1> DEFINE h == header[e]
           more == {Learned(h, l, clock) : l \in h.limits}
           new == merge(limits[e], more)
<1>1. /\ h # None /\ limits' = [limits EXCEPT ![e] = new] /\ header' = [header EXCEPT ![e] = None]
      /\ UNCHANGED <<clock, skew, counters, jobs, consumed, refunded>>
  BY DEF Learn, Learned
<1>2. /\ clock \in Nat /\ Start \in Nat /\ MaxDelay \in Nat /\ Drift \in Nat
      /\ clock <= MaxTime /\ consumed \in [Keys -> Nat]
  BY Numbers DEF Inv, Counts
<1>3. e \notin Relays /\ Slack(e) = Drift + 2 * MaxDelay
  BY RelaysAssumption DEF Slack
<1>4. h.began \in Start .. clock /\ clock - h.began <= MaxDelay
  BY <1>1 DEF Inv, Headers
<1>5. ASSUME NEW l \in h.limits
      PROVE  /\ Learned(h, l, clock).when > clock
             /\ Justified(Learned(h, l, clock), Slack(e), clock, consumed)
  <2> DEFINE d == clock - h.began
             c == l.categories
             sc == for_quota(h.scoping, l.scope)
             time == h.began + l.secs
  <2>1. l.secs \in Nat \ {0} /\ Justified(Learned(h, l, h.began), Drift + MaxDelay, clock, consumed)
    BY <1>1 DEF Inv, Headers
  <2>2. d \in Nat /\ d <= MaxDelay /\ h.began \in Int /\ time \in Int /\ time + d = clock + l.secs
    BY <1>2, <1>4, <2>1
  <2>3. Justified([categories |-> c, scope |-> sc, when |-> time], Drift + MaxDelay, clock, consumed)
    BY <2>1 DEF Learned
  <2>4. Drift + MaxDelay \in Int
    BY <1>2
  <2> HIDE DEF d, c, sc, time
  <2>5. Justified([categories |-> c, scope |-> sc, when |-> time + d], (Drift + MaxDelay) + d, clock, consumed)
    BY <2>2, <2>3, <2>4, JustifiedLonger
  <2>6. /\ (Drift + MaxDelay) + d \in Int /\ Drift + 2 * MaxDelay \in Int
        /\ (Drift + MaxDelay) + d <= Drift + 2 * MaxDelay
    BY <1>2, <2>2
  <2>7. clock <= clock /\ \A k \in Keys : consumed[k] <= consumed[k]
    BY <1>2
  <2>8. Justified([categories |-> c, scope |-> sc, when |-> time + d], Drift + 2 * MaxDelay, clock, consumed)
    BY <1>2, <2>5, <2>6, <2>7, JustifiedStays
  <2>9. Learned(h, l, clock) = [categories |-> c, scope |-> sc, when |-> time + d]
    BY <2>2 DEF Learned, c, sc
  <2>10. Learned(h, l, clock).when = clock + l.secs
    BY DEF Learned
  <2>11. clock + l.secs > clock
    BY <1>2, <2>1
  <2> QED
    BY <1>3, <2>8, <2>9, <2>10, <2>11
<1>6. \A l \in limits[e] \cup more : l.when > clock /\ Justified(l, Slack(e), clock, consumed)
  BY <1>5 DEF Inv, Limits
<1> HIDE DEF more
<1>7. /\ \A l \in new : l.when > clock /\ Justified(l, Slack(e), clock, consumed)
      /\ \A a, b \in new : Overlaps(a, b) => a = b
  BY <1>6, MergeOfJustified
<1>8. Jobs'
  BY <1>1 DEF Inv, Jobs
<1>9. Headers'
  <2>1. /\ header'[e] = None /\ \A o \in Edges \ {e} : header'[o] = header[o]
        /\ header' = [o \in Edges |-> header'[o]]
    BY <1>1 DEF Inv, Headers
  <2> QED
    BY <1>1, <2>1 DEF Inv, Headers
<1> HIDE DEF new
<1>10. QED
  BY <1>1, <1>7, <1>8, <1>9, LimitsMove

-----------------------------------------------------------------------------
(* The environment.                                                        *)

LEMMA RefundInv ==
  ASSUME Inv, NEW k \in Keys, Refund(k)
  PROVE  Inv'
<1>1. refunded' = [refunded EXCEPT ![k] = refunded[k] + 1]
      /\ UNCHANGED <<clock, skew, counters, limits, jobs, header, consumed>>
  BY DEF Refund
<1>2. consumed \in [Keys -> Nat] /\ refunded \in [Keys -> Nat] /\ refunded' \in [Keys -> Nat]
  BY <1>1 DEF Inv, Counts
<1>3. Counts'
  BY <1>1, <1>2 DEF Inv, Counts, CounterOK
<1>4. WindowBound'
  <2> SUFFICES ASSUME NEW j \in Keys, QuotaOf(j).limit # Unlimited
               PROVE  consumed'[j] - refunded'[j] <= QuotaOf(j).limit
    BY DEF WindowBound
  <2>1. QuotaOf(j).limit \in Int
    BY QuotaOfKey, TrackedQuota
  <2>2. consumed[j] - refunded[j] <= QuotaOf(j).limit
    BY DEF Inv, WindowBound
  <2>3. consumed[j] \in Nat /\ refunded[j] \in Nat /\ refunded'[j] \in Nat
    BY <1>2
  <2>4. refunded[j] <= refunded'[j] /\ consumed'[j] = consumed[j]
    BY <1>1, <1>2, <2>3
  <2> QED
    BY <2>1, <2>2, <2>3, <2>4
<1>5. Times' /\ Jobs' /\ Limits' /\ Headers'
  BY <1>1 DEF Inv, Times, Jobs, Limits, Slack, Headers
<1>6. QED
  BY <1>3, <1>4, <1>5 DEF Inv

LEMMA TickInv ==
  ASSUME Inv, Tick
  PROVE  Inv'
<1>1. /\ clock < MaxTime /\ clock' = clock + 1
      /\ counters' = [k \in Keys |-> IF counters[k].expireat <= clock' THEN NoCounter ELSE counters[k]]
      /\ limits' = [r \in Relays \cup Edges |-> clean_expired(limits[r], clock')]
      /\ UNCHANGED <<skew, jobs, header, consumed, refunded>>
  BY DEF Tick
<1>2. /\ clock \in Nat /\ MaxTime \in Nat /\ Start \in Nat /\ Start <= clock
      /\ Grace \in Nat /\ MaxDelay \in Nat /\ consumed \in [Keys -> Nat]
  BY Numbers DEF Inv, Counts
<1>3. clock' \in Nat /\ clock <= clock' /\ clock' <= MaxTime
  BY <1>1, <1>2
<1>4. consumed' \in [Keys -> Nat] /\ \A k \in Keys : consumed[k] <= consumed'[k]
  BY <1>1, <1>2
<1>5. Times'
  BY <1>1, <1>2, <1>3 DEF Inv, Times
<1>6. Counts'
  <2>1. ASSUME NEW k \in Keys
        PROVE  counters'[k].value \in Nat /\ counters'[k].expireat \in Nat /\ CounterOK(k)'
    <3>1. counters[k].value \in Nat /\ counters[k].expireat \in Nat /\ CounterOK(k)
      BY DEF Inv, Counts
    <3>2. End(k) \in Nat
      BY QuotaOfKey
    <3>3. CASE counters[k].expireat <= clock'
      <4>1. counters'[k] = NoCounter
        BY <1>1, <3>3
      <4>2. consumed[k] = 0 \/ End(k) + Grace <= clock'
        BY <1>2, <1>3, <3>1, <3>2, <3>3 DEF CounterOK
      <4> QED
        BY <1>1, <4>1, <4>2 DEF CounterOK, NoCounter
    <3>4. CASE ~(counters[k].expireat <= clock')
      <4>1. counters'[k] = counters[k]
        BY <1>1, <3>4
      <4>2. counters[k] # NoCounter
        BY <1>3, <3>4 DEF NoCounter
      <4> QED
        BY <1>1, <3>1, <4>1, <4>2 DEF CounterOK
    <3> QED
      BY <3>3, <3>4
  <2> QED
    BY <1>1, <2>1 DEF Inv, Counts
<1>7. WindowBound'
  BY <1>1 DEF Inv, WindowBound
<1>8. Jobs'
  <2>1. ASSUME NEW r \in Relays
        PROVE  JobOK(jobs[r], skew[r], clock', consumed')
    <3>1. ASSUME jobs[r].stage \in Calls
          PROVE  clock' - jobs[r].began <= MaxDelay
      <4>1. clock - jobs[r].began < MaxDelay
        BY <3>1 DEF Tick, Calls
      <4>2. jobs[r].began \in Start .. clock
        BY <3>1 DEF Inv, Jobs, JobOK
      <4>3. jobs[r].began \in Int
        BY <4>2
      <4> QED
        BY <1>1, <1>2, <4>1, <4>3
    <3> QED
      BY <1>3, <1>4, <3>1, DueStays
  <2> QED
    BY <1>1, <2>1 DEF Inv, Jobs
<1>9. Limits'
  <2>1. \A r \in Relays \cup Edges : \A l \in limits[r] : Justified(l, Slack(r), clock', consumed')
    BY <1>3, <1>4, DueStays
  <2>2. \A r \in Relays \cup Edges : Slack(r)' = Slack(r)
    BY <1>1 DEF Slack
  <2>3. \A r \in Relays \cup Edges : limits'[r] = {l \in limits[r] : l.when > clock'}
    BY <1>1 DEF clean_expired
  <2>4. ASSUME NEW r \in Relays \cup Edges
        PROVE  /\ \A a, b \in limits'[r] : Overlaps(a, b) => a = b
               /\ \A l \in limits'[r] : l.when > clock' /\ Justified(l, Slack(r)', clock', consumed')
    <3>1. \A a, b \in limits[r] : Overlaps(a, b) => a = b
      BY DEF Inv, Limits
    <3>2. \A l \in limits'[r] : l \in limits[r] /\ l.when > clock'
      BY <2>3
    <3>3. \A l \in limits'[r] : Justified(l, Slack(r)', clock', consumed')
      BY <2>1, <2>2, <3>2
    <3> QED
      BY <3>1, <3>2, <3>3
  <2> QED
    BY <1>1, <2>4 DEF Limits
<1>10. Headers'
  <2>1. \A e \in Edges : header[e] # None => \A l \in header[e].limits :
          Justified(Learned(header[e], l, header[e].began), Drift + MaxDelay, clock', consumed')
    BY <1>3, <1>4, DueStays
  <2>2. ASSUME NEW e \in Edges, header[e] # None
        PROVE  header[e].began \in Start .. clock' /\ clock' - header[e].began <= MaxDelay
    <3>1. clock - header[e].began < MaxDelay
      BY <2>2 DEF Tick
    <3>2. header[e].began \in Start .. clock
      BY <2>2 DEF Inv, Headers
    <3>3. header[e].began \in Int /\ Start <= header[e].began /\ header[e].began <= clock
      BY <1>2, <3>2
    <3> QED
      BY <1>1, <1>2, <3>1, <3>3
  <2> QED
    BY <1>1, <2>1, <2>2 DEF Inv, Headers
<1>11. QED
  BY <1>5, <1>6, <1>7, <1>8, <1>9, <1>10 DEF Inv

-----------------------------------------------------------------------------
(* The theorems.                                                           *)

LEMMA InitInv == Init => Inv
<1> SUFFICES ASSUME Init PROVE Inv
  OBVIOUS
<1>1. Times
  BY TimesAssumption DEF Init, Times
<1>2. Counts
  BY DEF Init, Counts, CounterOK, NoCounter, Zero
<1>3. WindowBound
  <2> SUFFICES ASSUME NEW k \in Keys, QuotaOf(k).limit # Unlimited
               PROVE  consumed[k] - refunded[k] <= QuotaOf(k).limit
    BY DEF WindowBound
  <2>1. QuotaOf(k).limit \in Nat
    BY QuotaOfKey, TrackedQuota DEF Unlimited
  <2>2. consumed[k] = 0 /\ refunded[k] = 0
    BY DEF Init, Zero
  <2> QED
    BY <2>1, <2>2
<1>4. Jobs
  BY IdleJobOK DEF Init, Jobs
<1>5. Limits /\ Headers
  BY DEF Init, Limits, Headers
<1>6. QED
  BY <1>1, <1>2, <1>3, <1>4, <1>5 DEF Inv

LEMMA NextInv == Inv /\ [Next]_vars => Inv'
<1> SUFFICES ASSUME Inv, [Next]_vars PROVE Inv'
  OBVIOUS
<1>1. CASE UNCHANGED vars
  BY <1>1 DEF vars, Inv, Times, Counts, CounterOK, WindowBound, Jobs, Limits, Slack, Headers
<1>2. CASE Next
  BY <1>2, CheckEnvelopeInv, PrepareInv, InvokeInv, InvokeFailsInv, RespondInv, EvictInv,
     RejectInv, LearnInv, RefundInv, TickInv DEF Next
<1>3. QED
  BY <1>1, <1>2

LEMMA InvHolds == Spec => []Inv
BY InitInv, NextInv, PTL DEF Spec

(* Whatever relays do at the same time, and however their clocks and calls *)
(* differ within the grace period, a counter in Redis holds exactly what   *)
(* has passed.                                                             *)
THEOREM CountersStayExact == Spec => []CountedExactly
<1>1. Inv => CountedExactly
  <2> SUFFICES ASSUME Inv PROVE CountedExactly
    OBVIOUS
  <2>1. TypeOK
    <3>1. DOMAIN limits = Relays \cup Edges
      BY DEF Inv, Limits
    <3>2. \A r \in Relays : jobs[r].stage \in {"idle", "event", "event_call", "attachment",
                                               "attachment_call", "respond"}
      BY DEF Inv, Jobs, JobOK, Calls
    <3>3. \A r \in Relays : jobs[r].stage \in {"attachment", "attachment_call"} => jobs[r].quantity > 0
      BY DEF Inv, Jobs, JobOK
    <3> QED
      BY <3>1, <3>2, <3>3 DEF TypeOK, Inv, Times, Counts, Limits
  <2>2. \A k \in Keys : counters[k] # NoCounter => counters[k].value = consumed[k]
    BY DEF Inv, Counts, CounterOK
  <2> QED
    BY <2>1, <2>2 DEF CountedExactly
<1>2. QED
  BY <1>1, InvHolds, PTL

(* No window lets more pass than its quota allows, apart from refunds.     *)
THEOREM WindowsStayBounded == Spec => []WindowBound
<1>1. Inv => WindowBound
  BY DEF Inv
<1>2. QED
  BY <1>1, InvHolds, PTL

(* A limit is due to a quota of 0 or to a window that was exhausted, and   *)
(* outlasts that window by the drift and the delays at most, on the relay  *)
(* that has called the script and on those that have learned of it.        *)
THEOREM LimitsStayJustified == Spec => []LimitJustified
<1>1. Inv => LimitJustified
  <2> SUFFICES ASSUME Inv, NEW r \in Relays \cup Edges, NEW l \in limits[r]
               PROVE  \E q \in ProjectQuotas, s \in Scopings :
                        /\ from_quota(q, s, l.when) = l
                        /\ \/ q.limit = 0
                           \/ q \in Tracked /\ \E k \in {key(q, s, ts) : ts \in Start - Drift .. clock + Drift} :
                                Lasts(r, q, s, k) /\ \E n \in Quantities \cup {1} : consumed[k] + n > q.limit
    BY DEF LimitJustified
  <2>1. l.when > clock /\ Justified(l, Slack(r), clock, consumed)
    BY DEF Inv, Limits
  <2>2. PICK q \in ProjectQuotas, s \in Scopings :
          /\ l.when \in Int /\ l = from_quota(q, s, l.when)
          /\ \/ q.limit = 0
             \/ /\ q \in Tracked
                /\ \E ts \in Start - Drift .. clock + Drift :
                     l.when <= expiry(q, s, ts) + Slack(r) /\ Exhausted(q, s, ts, consumed)
    BY <2>1 DEF Justified
  <2>3. CASE q.limit = 0
    BY <2>2, <2>3
  <2>4. ASSUME q \in Tracked, NEW ts \in Start - Drift .. clock + Drift,
               l.when <= expiry(q, s, ts) + Slack(r), Exhausted(q, s, ts, consumed)
        PROVE  Lasts(r, q, s, key(q, s, ts))
    <3>1. /\ clock \in Nat /\ MaxDelay \in Nat /\ Drift \in Nat /\ \A o \in Relays : skew[o] \in Int
      BY Numbers DEF Inv
    <3>2. ts \in Int
      BY <3>1
    <3>3. expiry(q, s, ts) \in Int
      BY <2>4, <3>2, WindowIsAhead
    <3>4. Lasts(r, q, s, key(q, s, ts)) =
            IF r \in Relays THEN Now(r) < expiry(q, s, ts) + MaxDelay
            ELSE clock < expiry(q, s, ts) + Drift + 2 * MaxDelay
      BY DEF Lasts, key, expiry
    <3>5. CASE r \in Relays
      <4>1. skew[r] \in Int /\ Slack(r) = MaxDelay - skew[r]
        BY <3>1, <3>5 DEF Slack
      <4>2. clock + skew[r] < expiry(q, s, ts) + MaxDelay
        BY <2>1, <2>2, <2>4, <3>1, <3>3, <4>1
      <4> QED
        BY <3>4, <3>5, <4>2 DEF Now
    <3>6. CASE r \notin Relays
      <4>1. Slack(r) = Drift + 2 * MaxDelay
        BY <3>6 DEF Slack
      <4>2. clock < expiry(q, s, ts) + Drift + 2 * MaxDelay
        BY <2>1, <2>2, <2>4, <3>1, <3>3, <4>1
      <4> QED
        BY <3>4, <3>6, <4>2
    <3> QED
      BY <3>5, <3>6
  <2> QED
    BY <2>2, <2>3, <2>4 DEF Exhausted
<1>2. QED
  BY <1>1, InvHolds, PTL
=============================================================================
