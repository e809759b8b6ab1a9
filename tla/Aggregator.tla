----------------------------- MODULE Aggregator -----------------------------
(***************************************************************************)
(* The metrics aggregator of a project (relay-metrics/src/aggregation.rs)  *)
(* with the way its buckets take when they are flushed: FlushBuckets to    *)
(* ProjectCache, SendMetrics to EnvelopeManager, a request to the upstream *)
(* (or a message to Kafka), and back into the aggregator if that fails.    *)
(*                                                                         *)
(* A bucket counts how often each report was merged into it. Each metric   *)
(* type keeps a digest of this bag of reports (a counter its sum, a        *)
(* distribution the bag, a set its support, a gauge its summary), and      *)
(* merging two digests is the digest of the sum of the bags. Only the      *)
(* `last' of a gauge also depends on the order, which is left out.         *)
(***************************************************************************)
EXTENDS Naturals

CONSTANTS
  Reports,     \* the metrics that are submitted
  Names,       \* what identifies a bucket apart from the type: window, name, unit, tags
  Types,       \* MetricType
  NameOf,      \* report -> its name; get_bucket_timestamp has rounded its time
  TypeOf,      \* report -> its type
  Flushes,     \* names of the futures that try_flush spawns
  Modes,       \* the ways to forward an envelope to start with
  Kinds,       \* the kinds of project states that are fetched
  NoBucket,    \* no entry in a map
  MaxFaults    \* bound: how often a state expires or a flush fails

ASSUME ReportsAssumption ==
  /\ NameOf \in [Reports -> Names] /\ TypeOf \in [Reports -> Types]
ASSUME NoBucketAssumption == NoBucket \notin [ty : Types, reports : [Reports -> Nat]]
ASSUME ModesAssumption   == Modes \subseteq {"Upstream", "Store", "Capture"}
ASSUME KindsAssumption   == Kinds \subseteq {"valid", "disabled", "missing", "allowed"}
ASSUME BoundAssumption   == MaxFaults \in Nat

VARIABLES
  mode,        \* how send_envelope forwards, which never changes
  buckets,     \* buckets: key -> value
  queue,       \* entries of the flush queue: key -> their number
  elapsed,     \* keys whose entries in the queue have elapsed
  flushes,     \* flush -> its stage and the buckets it carries
  project,     \* the state in ProjectCache: "outdated" (or none), or its kind
  open,        \* the project still refers to this aggregator
  delivered,   \* history: report -> how often the upstream got it, up to 2
  dropped,     \* history: reports dropped on purpose
  submitted,   \* history: the reports made so far
  faults

vars == <<mode, buckets, queue, elapsed, flushes, project, open, delivered,
          dropped, submitted, faults>>

BucketKey_Untyped(r) == <<NameOf[r], CHOOSE t \in Types : TRUE>>

(* The key in insert() and merge().                                        *)
BucketKey(r) == <<NameOf[r], TypeOf[r]>>

Keys == Names \X Types

Values == [ty : Types, reports : [Reports -> Nat]]
NoBuckets == [k \in Keys |-> NoBucket]
Present(bs) == {k \in Keys : bs[k] # NoBucket}

Stages == {"idle", "cache", "send", "upstream", "failed", "ok"}
Idle == [stage |-> "idle", buckets |-> NoBuckets]

TypeOK ==
  /\ mode \in Modes
  /\ buckets \in [Keys -> Values \cup {NoBucket}]
  /\ \A k \in Present(buckets) : buckets[k].ty = k[2]
  /\ queue \in [Keys -> Nat]
  /\ elapsed \subseteq Keys
  /\ flushes \in [Flushes -> [stage : Stages, buckets : [Keys -> Values \cup {NoBucket}]]]
  /\ project \in Kinds \cup {"outdated"}
  /\ open \in BOOLEAN
  /\ delivered \in [Reports -> 0 .. 2]
  /\ dropped \subseteq Reports
  /\ submitted \subseteq Reports
  /\ faults \in 0 .. MaxFaults

(* The aggregator has been created by get_or_create_aggregator.            *)
Init ==
  /\ mode \in Modes
  /\ buckets = NoBuckets
  /\ queue = [k \in Keys |-> 0]
  /\ elapsed = {}
  /\ flushes = [f \in Flushes |-> Idle]
  /\ project = "outdated"
  /\ open = TRUE
  /\ delivered = [r \in Reports |-> 0]
  /\ dropped = {}
  /\ submitted = {}
  /\ faults = MaxFaults

-----------------------------------------------------------------------------
(* Merging                                                                 *)

(* merge_into fails if the types differ.                                   *)
Conflicts(given) ==
  {k \in Present(given) : buckets[k] # NoBucket /\ buckets[k].ty # given[k].ty}

Merged_Replaces(old, new) == new

(* merge_into, and From for a vacant entry.                                *)
Merged(old, new) ==
  IF old = NoBucket THEN new
  ELSE [old EXCEPT !.reports = [r \in Reports |-> old.reports[r] + new.reports[r]]]

Pushes_Always(k) == 1

(* merge_in pushes an entry to the queue for a bucket it creates.          *)
Pushes(k) == IF buckets[k] = NoBucket THEN 1 ELSE 0

(* merge_in for each of the values, which ends early on an error.          *)
MergeAll(given) ==
  \E merged \in IF Conflicts(given) = {}
                THEN {Present(given)}
                ELSE SUBSET (Present(given) \ Conflicts(given)) :
    /\ buckets' = [k \in Keys |->
                     IF k \in merged THEN Merged(buckets[k], given[k]) ELSE buckets[k]]
    /\ queue' = [k \in Keys |-> IF k \in merged THEN queue[k] + Pushes(k) ELSE queue[k]]

(* The values of the metrics rs, by key; metrics of different types in one *)
(* key (which a typed key excludes) count as the type of one of them.      *)
ValuesOf(rs) ==
  [k \in Keys |->
     LET those == {r \in rs : BucketKey(r) = k}
     IN  IF those = {} THEN NoBucket
         ELSE [ty |-> TypeOf[CHOOSE r \in those : TRUE],
               reports |-> [r \in Reports |-> IF r \in those THEN 1 ELSE 0]]]

-----------------------------------------------------------------------------
(* The operations                                                          *)

(* Handler<InsertMetrics> and Handler<MergeBuckets> of the aggregator, as  *)
(* ProjectCache passes them on while the project has the aggregator.       *)
InsertMetrics(rs) ==
  /\ open
  /\ rs \cap submitted = {}
  /\ MergeAll(ValuesOf(rs))
  /\ submitted' = submitted \cup rs
  /\ UNCHANGED <<mode, elapsed, flushes, project, open, delivered, dropped, faults>>

(* The flush time of a bucket passes.                                      *)
Elapses(k) ==
  /\ queue[k] > 0 /\ k \notin elapsed
  /\ elapsed' = elapsed \cup {k}
  /\ UNCHANGED <<mode, buckets, queue, flushes, project, open, delivered, dropped, submitted, faults>>

Without_Kept(m, ks, none) == m

(* The map m (or the queue) once the keys ks have been taken out.          *)
Without(m, ks, none) == [k \in Keys |-> IF k \in ks THEN none ELSE m[k]]

(* try_flush: the elapsed entries leave the queue, their buckets leave the *)
(* map and go to the receiver.                                             *)
try_flush(f) ==
  /\ elapsed # {}
  /\ flushes[f].stage = "idle"
  /\ flushes' = [flushes EXCEPT ![f] =
                   [stage |-> "cache",
                    buckets |-> [k \in Keys |-> IF k \in elapsed THEN buckets[k] ELSE NoBucket]]]
  /\ queue' = Without(queue, elapsed, 0)
  /\ buckets' = Without(buckets, elapsed, NoBucket)
  /\ elapsed' = {}
  /\ UNCHANGED <<mode, project, open, delivered, dropped, submitted, faults>>

Counted(bs, k, r) == bs[k] # NoBucket /\ bs[k].reports[r] > 0

Carried(f) == {r \in Reports : \E k \in Keys : Counted(flushes[f].buckets, k, r)}

Goes(f, stage) == flushes' = [flushes EXCEPT ![f].stage = stage]

Returned_Disabled == project # "valid"

(* Handler<FlushBuckets> returns the buckets if the state is missing or    *)
(* hard outdated, or if it has no project_id and thus no scoping: that of  *)
(* a missing project, or of any project in proxy mode.                     *)
Returned == project \in {"outdated", "missing", "allowed"}

(* Handler<FlushBuckets> of ProjectCache. Buckets that are not returned    *)
(* are dropped if check_disabled() fails, and sent if not.                 *)
FlushBuckets(f) ==
  /\ flushes[f].stage = "cache"
  /\ \/ /\ Returned
        /\ Goes(f, "failed")
        /\ UNCHANGED dropped
     \/ /\ ~Returned /\ project = "disabled"
        /\ Goes(f, "ok")
        /\ dropped' = dropped \cup Carried(f)
     \/ /\ ~Returned /\ project = "valid"
        /\ Goes(f, "send")
        /\ UNCHANGED dropped
  /\ UNCHANGED <<mode, buckets, queue, elapsed, project, open, delivered, submitted, faults>>

Deliver(f) ==
  delivered' = [r \in Reports |-> IF r \in Carried(f) /\ delivered[r] < 2
                                  THEN delivered[r] + 1 ELSE delivered[r]]

(* Handler<SendMetrics> with send_envelope: a capturing relay drops what   *)
(* has no event id; the mailbox of EnvelopeManager may be closed, which    *)
(* drops the buckets as well.                                              *)
SendMetrics(f) ==
  /\ flushes[f].stage = "send"
  /\ \/ /\ mode # "Capture"
        /\ Goes(f, "upstream")
        /\ UNCHANGED <<dropped, faults>>
     \/ /\ mode = "Capture"
        /\ Goes(f, "ok")
        /\ dropped' = dropped \cup Carried(f)
        /\ UNCHANGED faults
     \/ /\ faults > 0 /\ faults' = faults - 1
        /\ Goes(f, "ok")
        /\ dropped' = dropped \cup Carried(f)
  /\ UNCHANGED <<mode, buckets, queue, elapsed, project, open, delivered, submitted>>

(* The upstream accepts the request, or the StoreForwarder stores it.      *)
Sent(f) ==
  /\ flushes[f].stage = "upstream"
  /\ Deliver(f)
  /\ Goes(f, "ok")
  /\ UNCHANGED <<mode, buckets, queue, elapsed, project, open, dropped, submitted, faults>>

(* The request ends with an error (a rate limit is one), whether the       *)
(* upstream has received it or not; map_err returns the buckets.           *)
SendFails(f, received) ==
  /\ flushes[f].stage = "upstream"
  /\ received => mode = "Upstream"
  /\ faults > 0 /\ faults' = faults - 1
  /\ IF received THEN Deliver(f) ELSE UNCHANGED delivered
  /\ Goes(f, "failed")
  /\ UNCHANGED <<mode, buckets, queue, elapsed, project, open, dropped, submitted>>

(* The continuation in try_flush: returned buckets are merged back.        *)
FlushDone(f) ==
  /\ flushes[f].stage \in {"ok", "failed"}
  /\ flushes' = [flushes EXCEPT ![f] = Idle]
  /\ IF flushes[f].stage = "failed"
     THEN MergeAll(flushes[f].buckets)
     ELSE UNCHANGED <<buckets, queue>>
  /\ UNCHANGED <<mode, elapsed, project, open, delivered, dropped, submitted, faults>>

(* update_state with update_aggregator: unless check_disabled() succeeds,  *)
(* the project lets go of its aggregator, which keeps running with the     *)
(* buckets it has.                                                         *)
StateFetched(s) ==
  /\ s \in Kinds \ {project}
  /\ project = "outdated" \/ faults > 0
  /\ faults' = IF project = "outdated" THEN faults ELSE faults - 1
  /\ project' = s
  /\ open' = (open /\ s \in {"valid", "allowed"})
  /\ UNCHANGED <<mode, buckets, queue, elapsed, flushes, delivered, dropped, submitted>>

(* The state becomes hard outdated; or the project is evicted from the     *)
(* cache, and gets another aggregator when it is back.                     *)
StateExpires(evicted) ==
  /\ project # "outdated"
  /\ faults > 0 /\ faults' = faults - 1
  /\ project' = "outdated"
  /\ open' = (open /\ ~evicted)
  /\ UNCHANGED <<mode, buckets, queue, elapsed, flushes, delivered, dropped, submitted>>

(* What the metrics items of one envelope hold.                            *)
Submissions == SUBSET Reports \ {{}}

Next ==
  \/ \E rs \in Submissions : InsertMetrics(rs)
  \/ \E k \in Keys : Elapses(k)
  \/ \E f \in Flushes : try_flush(f) \/ FlushBuckets(f) \/ SendMetrics(f) \/ Sent(f) \/ FlushDone(f)
  \/ \E f \in Flushes, received \in BOOLEAN : SendFails(f, received)
  \/ \E s \in Kinds : StateFetched(s)
  \/ \E evicted \in BOOLEAN : StateExpires(evicted)

Spec == Init /\ [][Next]_vars

(* Timers and message handlers run, time passes, requests end, and a state *)
(* that a flush has asked for is fetched in the end.                       *)
Fairness ==
  /\ \A k \in Keys : WF_vars(Elapses(k))
  /\ WF_vars(\E f \in Flushes : try_flush(f))
  /\ \A f \in Flushes :
       WF_vars(FlushBuckets(f)) /\ WF_vars(SendMetrics(f)) /\ WF_vars(FlushDone(f))
         /\ WF_vars(Sent(f) \/ \E received \in BOOLEAN : SendFails(f, received))
  /\ WF_vars(project = "outdated" /\ \E s \in Kinds : StateFetched(s))

FairSpec == Spec /\ Fairness

-----------------------------------------------------------------------------
(* The properties.                                                         *)

(* The queue has one entry for each bucket and none without: the unwrap()  *)
(* in try_flush finds its bucket, and no bucket is forgotten, although     *)
(* buckets come back for keys that have been created again meanwhile.      *)
QueueExact ==
  /\ \A k \in Keys : queue[k] = IF buckets[k] = NoBucket THEN 0 ELSE 1
  /\ elapsed \subseteq Present(buckets)

(* The flush f has buckets that are not yet answered for.                  *)
Live(f) == flushes[f].stage \in {"cache", "send", "upstream", "failed"}

(* A value is in at most one place at a time, once: neither a failed flush *)
(* that is merged back nor a flush that overlaps it counts a value twice.  *)
CountedOnce ==
  \A r \in Reports :
    /\ \A k \in Present(buckets) : buckets[k].reports[r] <= 1
    /\ \A k, j \in Keys : Counted(buckets, k, r) /\ Counted(buckets, j, r) => k = j
    /\ \A f \in Flushes, k \in Keys : Live(f) /\ Counted(flushes[f].buckets, k, r) =>
         /\ flushes[f].buckets[k].reports[r] = 1
         /\ \A j \in Keys : ~Counted(buckets, j, r)
         /\ \A g \in Flushes, j \in Keys :
              Live(g) /\ Counted(flushes[g].buckets, j, r) => g = f /\ j = k

Held(r) ==
  \/ \E k \in Keys : Counted(buckets, k, r)
  \/ \E f \in Flushes : Live(f) /\ r \in Carried(f)

(* The buckets are sound: every bucket has one flush time, and every value *)
(* one place, with a type that fits.                                       *)
BucketsExact == TypeOK /\ QueueExact /\ CountedOnce

(* The view of whoever reported the metric.                                *)
Status(r) ==
  IF r \notin submitted THEN "new"
  ELSE IF delivered[r] > 0 THEN "delivered"
  ELSE IF r \in dropped THEN "dropped"
  ELSE IF Held(r) THEN "held"
  ELSE "lost"

Delivery == INSTANCE MetricsDelivery WITH status <- [r \in Reports |-> Status(r)]

(* No accepted value is lost, whatever fails, is merged back or expires.   *)
ImplementsDelivery == Delivery!DeliverySafety

(* Every accepted value leaves the aggregator in the end, unless the       *)
(* project turns out to be one without a project_id.                       *)
EventuallyFlushed ==
  \A r \in Reports :
    (r \in submitted) ~> \/ delivered[r] > 0 \/ r \in dropped
                         \/ project \in {"missing", "allowed"}

(* Handler<FlushBuckets>: "Only send if the project state is valid,        *)
(* otherwise drop this bucket." So every value is sent or dropped.         *)
SentOrDropped == \A r \in Reports : (r \in submitted) ~> (delivered[r] > 0 \/ r \in dropped)

=============================================================================
