-------------------------- MODULE AggregatorProofs --------------------------
(***************************************************************************)
(* Proofs about Aggregator for every set of reports, names, types and      *)
(* flushes: the buckets and their queue agree, no value is counted twice,  *)
(* and none is lost on the way to the upstream.                            *)
(***************************************************************************)
EXTENDS Aggregator, TLAPS

-----------------------------------------------------------------------------
(* The inductive invariant.                                                *)

BucketMaps == [Keys -> Values \cup {NoBucket}]

(* What holds of a map from keys to buckets, in the aggregator or in a     *)
(* flush: a bucket has the type of its key, and holds, once each, reports  *)
(* with that key. So merge_into never meets two types.                     *)
Sound(bs) ==
  \A k \in Keys : bs[k] # NoBucket =>
    /\ bs[k].ty = k[2]
    /\ \A r \in Reports : bs[k].reports[r] <= 1
    /\ \A r \in Reports : bs[k].reports[r] > 0 => BucketKey(r) = k

(* Whether the report r is in a map, where its key leads to it.            *)
In(bs, r) == Counted(bs, BucketKey(r), r)

InFlush(f, r) == Live(f) /\ In(flushes[f].buckets, r)

(* A report has one place at most; one that is submitted has a place until *)
(* it is delivered or dropped, and has none once it is dropped.            *)
OnePlace ==
  \A r \in Reports :
    /\ \A f \in Flushes : InFlush(f, r) => ~In(buckets, r)
    /\ \A f, g \in Flushes : InFlush(f, r) /\ InFlush(g, r) => f = g

Somewhere(r) == In(buckets, r) \/ \E f \in Flushes : InFlush(f, r)

Accounted ==
  \A r \in Reports :
    /\ Somewhere(r) => r \in submitted /\ r \notin dropped
    /\ delivered[r] > 0 \/ r \in dropped => r \in submitted
    /\ r \in submitted => delivered[r] > 0 \/ r \in dropped \/ Somewhere(r)

AllSound == Sound(buckets) /\ \A f \in Flushes : Sound(flushes[f].buckets)

Inv == TypeOK /\ QueueExact /\ AllSound /\ OnePlace /\ Accounted

-----------------------------------------------------------------------------
(* Maps of buckets.                                                        *)

LEMMA KeyOfReport == \A r \in Reports : BucketKey(r) \in Keys
BY ReportsAssumption DEF BucketKey, Keys

(* In a sound map a report is nowhere but in the bucket of its key.        *)
LEMMA OnlyAtKey ==
  ASSUME NEW bs \in BucketMaps, Sound(bs), NEW r \in Reports, NEW k \in Keys, Counted(bs, k, r)
  PROVE  k = BucketKey(r) /\ In(bs, r) /\ bs[k].reports[r] = 1
<1>1. bs[k] # NoBucket /\ bs[k].reports[r] > 0 /\ bs[k] \in Values
  BY DEF Counted, BucketMaps
<1>2. bs[k].reports[r] \in Nat
  BY <1>1 DEF Values
<1>3. QED
  BY <1>1, <1>2 DEF Sound, In, Counted

LEMMA EmptyMap ==
  /\ NoBuckets \in BucketMaps /\ Sound(NoBuckets)
  /\ \A r \in Reports : ~In(NoBuckets, r)
BY KeyOfReport DEF NoBuckets, BucketMaps, Sound, In, Counted

(* The values of the metrics in a message, by key.                         *)
LEMMA ValuesSound ==
  ASSUME NEW rs \in SUBSET Reports
  PROVE  /\ ValuesOf(rs) \in BucketMaps /\ Sound(ValuesOf(rs))
         /\ \A r \in Reports : In(ValuesOf(rs), r) <=> r \in rs
<1> DEFINE those(k) == {r \in rs : BucketKey(r) = k}
           value(k) == [ty |-> TypeOf[CHOOSE r \in those(k) : TRUE],
                        reports |-> [r \in Reports |-> IF r \in those(k) THEN 1 ELSE 0]]
<1>1. ValuesOf(rs) = [k \in Keys |-> IF those(k) = {} THEN NoBucket ELSE value(k)]
  BY DEF ValuesOf
<1>2. ASSUME NEW k \in Keys, those(k) # {}
      PROVE  /\ value(k) \in Values /\ value(k) # NoBucket
             /\ value(k).ty = k[2]
             /\ \A r \in Reports : /\ value(k).reports[r] <= 1
                                   /\ value(k).reports[r] > 0 <=> r \in those(k)
  <2>1. PICK q : q = CHOOSE r \in those(k) : TRUE
    OBVIOUS
  <2>2. q \in those(k)
    BY <1>2, <2>1
  <2>3. TypeOf[q] = k[2] /\ TypeOf[q] \in Types
    BY <2>2, ReportsAssumption DEF BucketKey
  <2> DEFINE counts == [r \in Reports |-> IF r \in those(k) THEN 1 ELSE 0]
  <2>4. counts \in [Reports -> Nat] /\ \A r \in Reports : counts[r] = IF r \in those(k) THEN 1 ELSE 0
    OBVIOUS
  <2>5. value(k) = [ty |-> TypeOf[q], reports |-> counts]
    BY <2>1
  <2> HIDE DEF counts, value, those
  <2>6. value(k) \in Values
    BY <2>3, <2>4, <2>5 DEF Values
  <2>7. value(k).ty = k[2] /\ value(k).reports = counts
    BY <2>3, <2>5
  <2> QED
    BY <2>4, <2>6, <2>7, NoBucketAssumption DEF Values
<1> HIDE DEF value
<1>3. \A k \in Keys : ValuesOf(rs)[k] = IF those(k) = {} THEN NoBucket ELSE value(k)
  BY <1>1
<1>4. ValuesOf(rs) \in BucketMaps
  BY <1>1, <1>2 DEF BucketMaps
<1>5. Sound(ValuesOf(rs))
  BY <1>2, <1>3 DEF Sound
<1>6. ASSUME NEW r \in Reports PROVE In(ValuesOf(rs), r) <=> r \in rs
  <2> DEFINE k == BucketKey(r)
  <2>1. k \in Keys /\ (r \in those(k) <=> r \in rs)
    BY KeyOfReport
  <2> HIDE DEF k, those
  <2>2. CASE those(k) = {}
    <3>1. ValuesOf(rs)[k] = NoBucket /\ r \notin rs
      BY <1>3, <2>1, <2>2
    <3> QED
      BY <3>1 DEF In, Counted, k
  <2>3. CASE those(k) # {}
    <3>1. /\ ValuesOf(rs)[k] # NoBucket
          /\ ValuesOf(rs)[k].reports[r] > 0 <=> r \in those(k)
      BY <1>2, <1>3, <2>1, <2>3
    <3> QED
      BY <2>1, <3>1 DEF In, Counted, k
  <2> QED
    BY <2>2, <2>3
<1>7. QED
  BY <1>4, <1>5, <1>6

(* Merging sound maps that share no report never fails, keeps every report *)
(* and counts none twice, and keeps the queue in step.                     *)
LEMMA MergeSound ==
  ASSUME buckets \in BucketMaps, Sound(buckets), QueueExact, queue \in [Keys -> Nat],
         NEW given \in BucketMaps, Sound(given), MergeAll(given),
         \A r \in Reports : ~(In(buckets, r) /\ In(given, r))
  PROVE  /\ buckets' \in BucketMaps /\ Sound(buckets)'
         /\ queue' \in [Keys -> Nat]
         /\ \A k \in Keys : queue'[k] = IF buckets'[k] = NoBucket THEN 0 ELSE 1
         /\ Present(buckets) \subseteq Present(buckets)'
         /\ \A r \in Reports : In(buckets, r)' <=> In(buckets, r) \/ In(given, r)
<1>1. Conflicts(given) = {}
  BY DEF Conflicts, Present, Sound
<1>2. /\ buckets' = [k \in Keys |-> IF k \in Present(given) THEN Merged(buckets[k], given[k]) ELSE buckets[k]]
      /\ queue' = [k \in Keys |-> IF k \in Present(given) THEN queue[k] + Pushes(k) ELSE queue[k]]
  BY <1>1 DEF MergeAll
<1>3. \A k \in Keys : queue[k] = IF buckets[k] = NoBucket THEN 0 ELSE 1
  BY DEF QueueExact
<1>4. ASSUME NEW k \in Keys
      PROVE  /\ buckets'[k] \in Values \cup {NoBucket}
             /\ buckets'[k] = NoBucket <=> buckets[k] = NoBucket /\ given[k] = NoBucket
             /\ buckets'[k] # NoBucket => buckets'[k].ty = k[2]
             /\ \A r \in Reports : buckets'[k] # NoBucket =>
                  /\ buckets'[k].reports[r] <= 1
                  /\ buckets'[k].reports[r] > 0 => BucketKey(r) = k
             /\ \A r \in Reports : Counted(buckets', k, r) <=> Counted(buckets, k, r) \/ Counted(given, k, r)
  <2>1. CASE given[k] = NoBucket
    <3>1. buckets'[k] = buckets[k]
      BY <1>2, <2>1 DEF Present
    <3> QED
      BY <2>1, <3>1 DEF Sound, Counted, BucketMaps
  <2>2. CASE given[k] # NoBucket /\ buckets[k] = NoBucket
    <3>1. buckets'[k] = given[k]
      BY <1>2, <2>2 DEF Present, Merged
    <3> QED
      BY <2>2, <3>1 DEF Sound, Counted, BucketMaps
  <2>3. CASE given[k] # NoBucket /\ buckets[k] # NoBucket
    <3> DEFINE a == buckets[k].reports
               b == given[k].reports
               sum == [r \in Reports |-> a[r] + b[r]]
    <3>1. buckets[k] \in Values /\ given[k] \in Values
      BY <2>3 DEF BucketMaps
    <3>2. a \in [Reports -> Nat] /\ b \in [Reports -> Nat] /\ buckets[k].ty = k[2] /\ k[2] \in Types
      BY <2>3, <3>1 DEF Values, Sound, Keys
    <3>3. buckets'[k] = [buckets[k] EXCEPT !.reports = sum]
      BY <1>2, <2>3 DEF Present, Merged
    <3>4. \A r \in Reports : ~(a[r] > 0 /\ b[r] > 0)
      BY <2>3 DEF Sound, In, Counted
    <3>5. \A r \in Reports : /\ a[r] <= 1 /\ b[r] <= 1
                             /\ a[r] > 0 \/ b[r] > 0 => BucketKey(r) = k
      BY <2>3 DEF Sound
    <3>6. \A r \in Reports : (Counted(buckets, k, r) <=> a[r] > 0) /\ (Counted(given, k, r) <=> b[r] > 0)
      BY <2>3 DEF Counted
    <3> HIDE DEF a, b
    <3>7. sum \in [Reports -> Nat]
      BY <3>2
    <3>8. \A r \in Reports : sum[r] <= 1 /\ (sum[r] > 0 <=> a[r] > 0 \/ b[r] > 0)
      <4> TAKE r \in Reports
      <4>1. a[r] \in Nat /\ b[r] \in Nat /\ sum[r] = a[r] + b[r]
        BY <3>2
      <4> HIDE DEF sum
      <4> QED
        BY <3>4, <3>5, <4>1
    <3> HIDE DEF sum
    <3>9. buckets'[k] \in Values /\ buckets'[k].ty = k[2] /\ buckets'[k].reports = sum
      BY <3>1, <3>2, <3>3, <3>7 DEF Values
    <3>10. buckets'[k] # NoBucket
      BY <3>9, NoBucketAssumption DEF Values
    <3>11. \A r \in Reports : Counted(buckets', k, r) <=> sum[r] > 0
      BY <3>9, <3>10 DEF Counted
    <3> QED
      BY <2>3, <3>5, <3>6, <3>8, <3>9, <3>10, <3>11
  <2> QED
    BY <2>1, <2>2, <2>3
<1>5. buckets' \in BucketMaps
  BY <1>2, <1>4 DEF BucketMaps
<1>6. Sound(buckets)'
  BY <1>4 DEF Sound
<1>7. \A k \in Keys : /\ queue'[k] \in Nat
                      /\ queue'[k] = IF buckets'[k] = NoBucket THEN 0 ELSE 1
  <2> TAKE k \in Keys
  <2>1. queue'[k] = IF given[k] # NoBucket THEN queue[k] + Pushes(k) ELSE queue[k]
    BY <1>2 DEF Present
  <2>2. buckets'[k] = NoBucket <=> buckets[k] = NoBucket /\ given[k] = NoBucket
    BY <1>4
  <2> QED
    BY <1>3, <2>1, <2>2 DEF Pushes
<1>8. queue' \in [Keys -> Nat]
  BY <1>2, <1>7
<1>9. Present(buckets) \subseteq Present(buckets)'
  BY <1>4 DEF Present
<1>10. \A r \in Reports : In(buckets, r)' <=> In(buckets, r) \/ In(given, r)
  BY <1>4, KeyOfReport DEF In
<1>11. QED
  BY <1>5, <1>6, <1>7, <1>8, <1>9, <1>10

-----------------------------------------------------------------------------
(* The steps preserve the invariant.                                       *)

LEMMA FlushMaps ==
  ASSUME Inv, NEW f \in Flushes
  PROVE  /\ flushes[f].stage \in Stages
         /\ flushes[f].buckets \in BucketMaps /\ Sound(flushes[f].buckets)
         /\ \A r \in Reports : r \in Carried(f) <=> In(flushes[f].buckets, r)
<1>1. flushes[f].stage \in Stages /\ flushes[f].buckets \in BucketMaps /\ Sound(flushes[f].buckets)
  BY DEF Inv, TypeOK, AllSound, BucketMaps
<1>2. QED
  BY <1>1, OnlyAtKey, KeyOfReport DEF Carried, In

(* What flush f carries is accounted for by f alone.                       *)
LEMMA CarriedFacts ==
  ASSUME Inv, NEW f \in Flushes, Live(f)
  PROVE  \A r \in Carried(f) : /\ r \in Reports /\ r \in submitted /\ r \notin dropped
                               /\ InFlush(f, r) /\ ~In(buckets, r)
                               /\ \A g \in Flushes : InFlush(g, r) => g = f
BY FlushMaps DEF Carried, InFlush, Inv, OnePlace, Accounted, Somewhere

(* A flush goes on to its next stage, where it may deliver what it carries *)
(* or drop it. It ends only if it has done so.                             *)
LEMMA StageMoves ==
  ASSUME Inv, NEW f \in Flushes, Live(f), NEW s \in {"send", "upstream", "failed", "ok"}, Goes(f, s),
         UNCHANGED <<mode, buckets, queue, elapsed, project, open, submitted>>,
         delivered' \in [Reports -> 0 .. 2], faults' \in 0 .. MaxFaults,
         \A r \in Reports : /\ delivered[r] > 0 => delivered'[r] > 0
                            /\ delivered'[r] > 0 => delivered[r] > 0 \/ r \in Carried(f),
         dropped' = dropped \/ (s = "ok" /\ dropped' = dropped \cup Carried(f)),
         s = "ok" => \A r \in Carried(f) : delivered'[r] > 0 \/ r \in dropped'
  PROVE  Inv'
<1>1. /\ \A g \in Flushes : flushes'[g].buckets = flushes[g].buckets
      /\ flushes'[f].stage = s /\ \A g \in Flushes \ {f} : flushes'[g] = flushes[g]
      /\ flushes' \in [Flushes -> [stage : Stages, buckets : [Keys -> Values \cup {NoBucket}]]]
  BY DEF Goes, Inv, TypeOK, Stages
<1>2. TypeOK'
  BY <1>1, CarriedFacts DEF Inv, TypeOK, Present
<1>3. QueueExact' /\ AllSound'
  BY <1>1 DEF Inv, QueueExact, AllSound, Sound, Present
<1>4. \A r \in Reports, g \in Flushes : InFlush(g, r)' <=> InFlush(g, r) /\ ~(g = f /\ s = "ok")
  BY <1>1 DEF InFlush, Live, In, Counted
<1>5. \A r \in Reports : In(buckets, r)' <=> In(buckets, r)
  BY DEF In, Counted
<1>6. OnePlace'
  BY <1>4, <1>5 DEF Inv, OnePlace
<1>7. Accounted'
  <2> SUFFICES ASSUME NEW r \in Reports
               PROVE  /\ Somewhere(r)' => r \in submitted' /\ r \notin dropped'
                      /\ delivered'[r] > 0 \/ r \in dropped' => r \in submitted'
                      /\ r \in submitted' => delivered'[r] > 0 \/ r \in dropped' \/ Somewhere(r)'
    BY DEF Accounted
  <2>1. Somewhere(r)' => Somewhere(r)
    BY <1>4, <1>5 DEF Somewhere
  <2>2. /\ Somewhere(r) => r \in submitted /\ r \notin dropped
        /\ delivered[r] > 0 \/ r \in dropped => r \in submitted
        /\ r \in submitted => delivered[r] > 0 \/ r \in dropped \/ Somewhere(r)
    BY DEF Inv, Accounted
  <2>3. CASE r \in Carried(f)
    <3>1. /\ r \in submitted /\ r \notin dropped /\ ~In(buckets, r)
          /\ InFlush(f, r) /\ \A g \in Flushes : InFlush(g, r) => g = f
      BY <2>3, CarriedFacts
    <3>2. Somewhere(r)' <=> s # "ok"
      BY <1>4, <1>5, <3>1 DEF Somewhere
    <3> QED
      BY <2>3, <3>1, <3>2
  <2>4. CASE r \notin Carried(f)
    <3>1. ~InFlush(f, r)
      BY <2>4, FlushMaps DEF InFlush
    <3>2. Somewhere(r)' <=> Somewhere(r)
      BY <1>4, <1>5, <3>1 DEF Somewhere
    <3>3. (r \in dropped' <=> r \in dropped) /\ (delivered'[r] > 0 <=> delivered[r] > 0)
      BY <2>4
    <3> QED
      BY <2>2, <3>2, <3>3
  <2> QED
    BY <2>3, <2>4
<1>8. QED
  BY <1>2, <1>3, <1>6, <1>7 DEF Inv

LEMMA DeliverMore ==
  ASSUME Inv, NEW f \in Flushes, Deliver(f)
  PROVE  /\ delivered' \in [Reports -> 0 .. 2]
         /\ \A r \in Reports : /\ delivered[r] > 0 => delivered'[r] > 0
                               /\ delivered'[r] > 0 <=> delivered[r] > 0 \/ r \in Carried(f)
<1>1. \A r \in Reports : delivered[r] \in 0 .. 2
  BY DEF Inv, TypeOK
<1>2. \A r \in Reports : delivered'[r] = IF r \in Carried(f) /\ delivered[r] < 2
                                         THEN delivered[r] + 1 ELSE delivered[r]
  BY DEF Deliver
<1>3. ASSUME NEW r \in Reports
      PROVE  /\ delivered'[r] \in 0 .. 2
             /\ delivered[r] > 0 => delivered'[r] > 0
             /\ delivered'[r] > 0 <=> delivered[r] > 0 \/ r \in Carried(f)
  BY <1>1, <1>2
<1>4. delivered' \in [Reports -> 0 .. 2]
  BY <1>3 DEF Deliver
<1>5. QED
  BY <1>3, <1>4

LEMMA InsertMetricsInv ==
  ASSUME Inv, NEW rs \in Submissions, InsertMetrics(rs)
  PROVE  Inv'
<1> DEFINE given == ValuesOf(rs)
<1>1. rs \in SUBSET Reports
  BY DEF Submissions
<1>2. /\ given \in BucketMaps /\ Sound(given)
      /\ \A r \in Reports : In(given, r) <=> r \in rs
  BY <1>1, ValuesSound
<1>3. MergeAll(given)
  BY DEF InsertMetrics
<1> HIDE DEF given
<1>4. \A r \in rs : r \notin submitted /\ ~Somewhere(r)
  BY <1>1 DEF InsertMetrics, Inv, Accounted
<1>5. \A r \in Reports : ~(In(buckets, r) /\ In(given, r))
  BY <1>2, <1>4 DEF Somewhere
<1>6. /\ buckets \in BucketMaps /\ Sound(buckets) /\ QueueExact /\ queue \in [Keys -> Nat]
  BY DEF Inv, TypeOK, BucketMaps, AllSound
<1>7. /\ buckets' \in BucketMaps /\ Sound(buckets)'
      /\ queue' \in [Keys -> Nat]
      /\ \A k \in Keys : queue'[k] = IF buckets'[k] = NoBucket THEN 0 ELSE 1
      /\ Present(buckets) \subseteq Present(buckets)'
      /\ \A r \in Reports : In(buckets, r)' <=> In(buckets, r) \/ In(given, r)
  BY <1>2, <1>3, <1>5, <1>6, MergeSound
<1>8. /\ UNCHANGED <<mode, elapsed, flushes, project, open, delivered, dropped, faults>>
      /\ submitted' = submitted \cup rs
  BY DEF InsertMetrics
<1>9. TypeOK'
  BY <1>1, <1>7, <1>8 DEF Inv, TypeOK, BucketMaps, Sound, Present
<1>10. QueueExact' /\ AllSound'
  BY <1>7, <1>8 DEF Inv, QueueExact, AllSound, Sound
<1>11. \A r \in Reports, f \in Flushes : InFlush(f, r)' <=> InFlush(f, r)
  BY <1>8 DEF InFlush, Live, In, Counted
<1>12. \A r \in Reports : In(buckets, r)' <=> In(buckets, r) \/ r \in rs
  BY <1>2, <1>7
<1>13. OnePlace'
  BY <1>4, <1>11, <1>12 DEF Inv, OnePlace, Somewhere
<1>14. \A r \in Reports : Somewhere(r)' <=> Somewhere(r) \/ r \in rs
  BY <1>11, <1>12 DEF Somewhere
<1>15. Accounted'
  BY <1>4, <1>8, <1>14 DEF Inv, Accounted
<1>16. QED
  BY <1>9, <1>10, <1>13, <1>15 DEF Inv

LEMMA TryFlushInv ==
  ASSUME Inv, NEW f \in Flushes, try_flush(f)
  PROVE  Inv'
<1> DEFINE taken == [k \in Keys |-> IF k \in elapsed THEN buckets[k] ELSE NoBucket]
<1>1. /\ flushes[f].stage = "idle"
      /\ flushes' = [flushes EXCEPT ![f] = [stage |-> "cache", buckets |-> taken]]
      /\ queue' = [k \in Keys |-> IF k \in elapsed THEN 0 ELSE queue[k]]
      /\ buckets' = [k \in Keys |-> IF k \in elapsed THEN NoBucket ELSE buckets[k]]
      /\ elapsed' = {}
      /\ UNCHANGED <<mode, project, open, delivered, dropped, submitted, faults>>
  BY DEF try_flush, Without
<1>2. buckets \in BucketMaps /\ Sound(buckets) /\ queue \in [Keys -> Nat]
  BY DEF Inv, TypeOK, BucketMaps, AllSound
<1>3. taken \in BucketMaps /\ Sound(taken)
  BY <1>2 DEF BucketMaps, Sound
<1>4. \A r \in Reports : In(taken, r) <=> In(buckets, r) /\ BucketKey(r) \in elapsed
  BY KeyOfReport DEF In, Counted
<1> HIDE DEF taken
<1>5. /\ flushes'[f].stage = "cache" /\ flushes'[f].buckets = taken
      /\ \A g \in Flushes \ {f} : flushes'[g] = flushes[g]
      /\ flushes' \in [Flushes -> [stage : Stages, buckets : BucketMaps]]
  BY <1>1, <1>3 DEF Inv, TypeOK, Stages, BucketMaps
<1>6. buckets' \in BucketMaps /\ Sound(buckets)' /\ queue' \in [Keys -> Nat]
  BY <1>1, <1>2 DEF BucketMaps, Sound
<1>7. \A r \in Reports : In(buckets, r)' <=> In(buckets, r) /\ BucketKey(r) \notin elapsed
  BY <1>1, KeyOfReport DEF In, Counted
<1>8. TypeOK'
  BY <1>1, <1>5, <1>6 DEF Inv, TypeOK, BucketMaps, Sound, Present
<1>9. QueueExact'
  BY <1>1 DEF Inv, QueueExact, Present
<1>10. AllSound'
  BY <1>3, <1>5, <1>6 DEF Inv, AllSound, Sound
<1>11. \A r \in Reports : /\ ~InFlush(f, r)
                          /\ InFlush(f, r)' <=> In(buckets, r) /\ BucketKey(r) \in elapsed
                          /\ \A g \in Flushes \ {f} : InFlush(g, r)' <=> InFlush(g, r)
  BY <1>1, <1>4, <1>5 DEF InFlush, Live, In, Counted
<1>12. OnePlace'
  BY <1>7, <1>11 DEF Inv, OnePlace
<1>13. \A r \in Reports : Somewhere(r)' <=> Somewhere(r)
  BY <1>7, <1>11 DEF Somewhere
<1>14. Accounted'
  BY <1>1, <1>13 DEF Inv, Accounted
<1>15. QED
  BY <1>8, <1>9, <1>10, <1>12, <1>14 DEF Inv

LEMMA FlushDoneInv ==
  ASSUME Inv, NEW f \in Flushes, FlushDone(f)
  PROVE  Inv'
<1> DEFINE given == flushes[f].buckets
<1>1. /\ flushes[f].stage \in {"ok", "failed"}
      /\ flushes' = [flushes EXCEPT ![f] = Idle]
      /\ UNCHANGED <<mode, elapsed, project, open, delivered, dropped, submitted, faults>>
  BY DEF FlushDone
<1>2. /\ flushes'[f] = Idle /\ \A g \in Flushes \ {f} : flushes'[g] = flushes[g]
      /\ flushes' \in [Flushes -> [stage : Stages, buckets : [Keys -> Values \cup {NoBucket}]]]
  BY <1>1, EmptyMap DEF Inv, TypeOK, Idle, Stages, BucketMaps
<1>3. \A g \in Flushes : Sound(flushes[g].buckets)'
  BY <1>2, EmptyMap DEF Idle, Inv, AllSound, Sound
<1>4. \A r \in Reports, g \in Flushes : InFlush(g, r)' <=> InFlush(g, r) /\ g # f
  BY <1>2 DEF InFlush, Live, Idle, In, Counted
<1>5. CASE flushes[f].stage = "ok"
  <2>1. UNCHANGED <<buckets, queue>>
    BY <1>5 DEF FlushDone
  <2>2. \A r \in Reports : ~InFlush(f, r) /\ (In(buckets, r)' <=> In(buckets, r))
    BY <1>5, <2>1 DEF InFlush, Live, In, Counted
  <2>3. TypeOK' /\ QueueExact' /\ AllSound'
    BY <1>1, <1>2, <1>3, <2>1 DEF Inv, TypeOK, QueueExact, AllSound, Sound, Present
  <2>4. OnePlace'
    BY <1>4, <2>2 DEF Inv, OnePlace
  <2>5. \A r \in Reports : Somewhere(r)' <=> Somewhere(r)
    BY <1>4, <2>2 DEF Somewhere
  <2>6. Accounted'
    BY <1>1, <2>5 DEF Inv, Accounted
  <2> QED
    BY <2>3, <2>4, <2>6 DEF Inv
<1>6. CASE flushes[f].stage = "failed"
  <2>1. given \in BucketMaps /\ Sound(given) /\ MergeAll(given)
    BY <1>6, FlushMaps DEF FlushDone
  <2>2. \A r \in Reports : InFlush(f, r) <=> In(given, r)
    BY <1>6 DEF InFlush, Live
  <2> HIDE DEF given
  <2>3. \A r \in Reports : ~(In(buckets, r) /\ In(given, r))
    BY <2>2 DEF Inv, OnePlace
  <2>4. /\ buckets \in BucketMaps /\ Sound(buckets) /\ QueueExact /\ queue \in [Keys -> Nat]
    BY DEF Inv, TypeOK, BucketMaps, AllSound
  <2>5. /\ buckets' \in BucketMaps /\ Sound(buckets)'
        /\ queue' \in [Keys -> Nat]
        /\ \A k \in Keys : queue'[k] = IF buckets'[k] = NoBucket THEN 0 ELSE 1
        /\ Present(buckets) \subseteq Present(buckets)'
        /\ \A r \in Reports : In(buckets, r)' <=> In(buckets, r) \/ In(given, r)
    BY <2>1, <2>3, <2>4, MergeSound
  <2>6. \A r \in Reports : In(buckets, r)' <=> In(buckets, r) \/ InFlush(f, r)
    BY <2>2, <2>5
  <2>7. TypeOK'
    BY <1>1, <1>2, <2>5 DEF Inv, TypeOK, BucketMaps, Sound, Present
  <2>8. QueueExact' /\ AllSound'
    BY <1>1, <1>3, <2>5 DEF Inv, QueueExact, AllSound
  <2>9. OnePlace'
    BY <1>4, <2>6 DEF Inv, OnePlace
  <2>10. \A r \in Reports : Somewhere(r)' <=> Somewhere(r)
    BY <1>4, <2>6 DEF Somewhere
  <2>11. Accounted'
    BY <1>1, <2>10 DEF Inv, Accounted
  <2> QED
    BY <2>7, <2>8, <2>9, <2>11 DEF Inv
<1>7. QED
  BY <1>1, <1>5, <1>6

LEMMA FlushBucketsInv ==
  ASSUME Inv, NEW f \in Flushes, FlushBuckets(f)
  PROVE  Inv'
<1>1. Live(f)
  BY DEF FlushBuckets, Live
<1>2. /\ UNCHANGED <<mode, buckets, queue, elapsed, project, open, delivered, submitted, faults>>
      /\ delivered \in [Reports -> 0 .. 2] /\ faults \in 0 .. MaxFaults
  BY DEF FlushBuckets, Inv, TypeOK
<1>3. CASE Goes(f, "failed") /\ UNCHANGED dropped
  BY <1>1, <1>2, <1>3, StageMoves
<1>4. CASE Goes(f, "ok") /\ dropped' = dropped \cup Carried(f)
  BY <1>1, <1>2, <1>4, StageMoves
<1>5. CASE Goes(f, "send") /\ UNCHANGED dropped
  BY <1>1, <1>2, <1>5, StageMoves
<1>6. QED
  BY <1>3, <1>4, <1>5 DEF FlushBuckets

LEMMA SendMetricsInv ==
  ASSUME Inv, NEW f \in Flushes, SendMetrics(f)
  PROVE  Inv'
<1>1. Live(f)
  BY DEF SendMetrics, Live
<1>2. /\ UNCHANGED <<mode, buckets, queue, elapsed, project, open, delivered, submitted>>
      /\ delivered \in [Reports -> 0 .. 2] /\ faults' \in 0 .. MaxFaults
  BY BoundAssumption DEF SendMetrics, Inv, TypeOK
<1>3. CASE Goes(f, "upstream") /\ UNCHANGED dropped
  BY <1>1, <1>2, <1>3, StageMoves
<1>4. CASE Goes(f, "ok") /\ dropped' = dropped \cup Carried(f)
  BY <1>1, <1>2, <1>4, StageMoves
<1>5. QED
  BY <1>3, <1>4 DEF SendMetrics

LEMMA SentInv ==
  ASSUME Inv, NEW f \in Flushes, Sent(f)
  PROVE  Inv'
<1>1. Live(f) /\ Goes(f, "ok") /\ Deliver(f)
  BY DEF Sent, Live
<1>2. /\ UNCHANGED <<mode, buckets, queue, elapsed, project, open, dropped, submitted>>
      /\ faults' \in 0 .. MaxFaults
  BY DEF Sent, Inv, TypeOK
<1>3. Carried(f) \subseteq Reports
  BY DEF Carried
<1>4. QED
  BY <1>1, <1>2, <1>3, DeliverMore, StageMoves

LEMMA SendFailsInv ==
  ASSUME Inv, NEW f \in Flushes, NEW received \in BOOLEAN, SendFails(f, received)
  PROVE  Inv'
<1>1. Live(f) /\ Goes(f, "failed")
  BY DEF SendFails, Live
<1>2. /\ UNCHANGED <<mode, buckets, queue, elapsed, project, open, dropped, submitted>>
      /\ faults' \in 0 .. MaxFaults /\ delivered \in [Reports -> 0 .. 2]
  BY BoundAssumption DEF SendFails, Inv, TypeOK
<1>3. CASE Deliver(f)
  BY <1>1, <1>2, <1>3, DeliverMore, StageMoves
<1>4. CASE UNCHANGED delivered
  BY <1>1, <1>2, <1>4, StageMoves
<1>5. QED
  BY <1>3, <1>4 DEF SendFails

(* The steps that leave buckets and flushes alone.                         *)
LEMMA OthersInv ==
  ASSUME Inv, UNCHANGED <<buckets, queue, flushes, delivered, dropped, submitted>>,
         TypeOK', elapsed' \subseteq Present(buckets)
  PROVE  Inv'
<1>1. QueueExact' /\ AllSound'
  BY DEF Inv, QueueExact, AllSound, Sound, Present
<1>2. \A r \in Reports : /\ In(buckets, r)' <=> In(buckets, r)
                         /\ \A f \in Flushes : InFlush(f, r)' <=> InFlush(f, r)
                         /\ Somewhere(r)' <=> Somewhere(r)
  BY DEF Somewhere, InFlush, In, Live, Counted
<1>3. OnePlace' /\ Accounted'
  BY <1>2 DEF Inv, OnePlace, Accounted
<1>4. QED
  BY <1>1, <1>3 DEF Inv

LEMMA NextInv == Inv /\ [Next]_vars => Inv'
<1> SUFFICES ASSUME Inv, [Next]_vars PROVE Inv'
  OBVIOUS
<1>1. ASSUME NEW k \in Keys, Elapses(k)
      PROVE  Inv'
  <2>1. TypeOK' /\ elapsed' \subseteq Present(buckets)
    BY <1>1 DEF Elapses, Inv, TypeOK, QueueExact, Present
  <2> QED
    BY <1>1, <2>1, OthersInv DEF Elapses
<1>2. ASSUME NEW s \in Kinds, StateFetched(s)
      PROVE  Inv'
  <2>1. faults' \in 0 .. MaxFaults
    BY <1>2, BoundAssumption DEF StateFetched, Inv, TypeOK
  <2>2. TypeOK' /\ elapsed' \subseteq Present(buckets)
    BY <1>2, <2>1 DEF StateFetched, Inv, TypeOK, QueueExact, Present
  <2> QED
    BY <1>2, <2>2, OthersInv DEF StateFetched
<1>3. ASSUME NEW evicted \in BOOLEAN, StateExpires(evicted)
      PROVE  Inv'
  <2>1. faults' \in 0 .. MaxFaults
    BY <1>3, BoundAssumption DEF StateExpires, Inv, TypeOK
  <2>2. TypeOK' /\ elapsed' \subseteq Present(buckets)
    BY <1>3, <2>1 DEF StateExpires, Inv, TypeOK, QueueExact, Present
  <2> QED
    BY <1>3, <2>2, OthersInv DEF StateExpires
<1>4. CASE UNCHANGED vars
  <2>1. TypeOK' /\ elapsed' \subseteq Present(buckets)
    BY <1>4 DEF vars, Inv, TypeOK, QueueExact, Present
  <2> QED
    BY <1>4, <2>1, OthersInv DEF vars
<1>5. QED
  BY <1>1, <1>2, <1>3, <1>4, InsertMetricsInv, TryFlushInv, FlushBucketsInv, SendMetricsInv,
     SentInv, FlushDoneInv, SendFailsInv DEF Next

LEMMA InitInv == Init => Inv
<1> SUFFICES ASSUME Init PROVE Inv
  OBVIOUS
<1>1. TypeOK
  BY EmptyMap, BoundAssumption DEF Init, TypeOK, BucketMaps, Idle, Stages, Present, NoBuckets
<1>2. QueueExact
  BY DEF Init, QueueExact, NoBuckets, Present
<1>3. AllSound
  BY EmptyMap DEF Init, AllSound, Idle
<1>4. \A r \in Reports : ~In(buckets, r) /\ \A f \in Flushes : ~InFlush(f, r)
  BY EmptyMap DEF Init, InFlush, Live, Idle
<1>5. OnePlace /\ Accounted
  BY <1>4 DEF Init, OnePlace, Accounted, Somewhere
<1>6. QED
  BY <1>1, <1>2, <1>3, <1>5 DEF Inv

LEMMA InvExact == Inv => BucketsExact
<1> SUFFICES ASSUME Inv PROVE CountedOnce
  BY DEF Inv, BucketsExact
<1>1. buckets \in BucketMaps /\ Sound(buckets)
  BY DEF Inv, TypeOK, BucketMaps, AllSound
<1> SUFFICES ASSUME NEW r \in Reports
    PROVE
    /\ \A k \in Present(buckets) : buckets[k].reports[r] <= 1
    /\ \A k, j \in Keys : Counted(buckets, k, r) /\ Counted(buckets, j, r) => k = j
    /\ \A f \in Flushes, k \in Keys : Live(f) /\ Counted(flushes[f].buckets, k, r) =>
         /\ flushes[f].buckets[k].reports[r] = 1
         /\ \A j \in Keys : ~Counted(buckets, j, r)
         /\ \A g \in Flushes, j \in Keys :
              Live(g) /\ Counted(flushes[g].buckets, j, r) => g = f /\ j = k
  BY DEF CountedOnce
<1>2. \A k \in Keys : Counted(buckets, k, r) => k = BucketKey(r) /\ In(buckets, r)
  BY <1>1, OnlyAtKey
<1>3. \A f \in Flushes, k \in Keys : Live(f) /\ Counted(flushes[f].buckets, k, r) =>
        /\ k = BucketKey(r) /\ InFlush(f, r)
        /\ flushes[f].buckets[k].reports[r] = 1
  BY FlushMaps, OnlyAtKey DEF InFlush
<1>4. /\ \A f \in Flushes : InFlush(f, r) => ~In(buckets, r)
      /\ \A f, g \in Flushes : InFlush(f, r) /\ InFlush(g, r) => f = g
  BY DEF Inv, OnePlace
<1>5. \A k \in Present(buckets) : buckets[k].reports[r] <= 1
  BY <1>1 DEF Sound, Present
<1>6. QED
  BY <1>2, <1>3, <1>4, <1>5

(* However flushes overlap, fail and are merged back while new values      *)
(* arrive, each bucket has its one entry in the queue, no value is counted *)
(* twice, and no merge meets two types.                                    *)
THEOREM BucketsStayExact == Spec => []BucketsExact
BY InitInv, NextInv, InvExact, PTL DEF Spec

-----------------------------------------------------------------------------
(* The aggregator implements MetricsDelivery.                              *)

(* The status of a report, when none is lost.                              *)
Visible(r) ==
  IF r \notin submitted THEN "new"
  ELSE IF delivered[r] > 0 THEN "delivered"
  ELSE IF r \in dropped THEN "dropped"
  ELSE "held"

NoneLost == \A r \in Reports : Status(r) = Visible(r)

LEMMA NeverLost == Inv => NoneLost
<1> SUFFICES ASSUME Inv, NEW r \in Reports PROVE Status(r) = Visible(r)
  BY DEF NoneLost
<1>1. Somewhere(r) => Held(r)
  BY KeyOfReport, FlushMaps DEF Somewhere, Held, In, InFlush
<1>2. QED
  BY <1>1 DEF Inv, Accounted, Status, Visible

LEMMA DropsCarried ==
  ASSUME Inv, NEW f \in Flushes, Live(f), dropped' = dropped \cup Carried(f),
         UNCHANGED <<submitted, delivered>>
  PROVE  \E rs \in SUBSET Reports : \A r \in Reports :
           /\ r \in rs => Visible(r) = "held"
           /\ Visible(r)' = IF r \in rs THEN "dropped" ELSE Visible(r)
<1>1. \A r \in Carried(f) : r \in submitted /\ r \notin dropped
  BY CarriedFacts
<1>2. WITNESS {r \in Reports : r \in Carried(f) /\ ~(delivered[r] > 0)} \in SUBSET Reports
<1>3. QED
  BY <1>1 DEF Visible

LEMMA DeliversCarried ==
  ASSUME Inv, NEW f \in Flushes, Live(f), Deliver(f),
         UNCHANGED <<submitted, dropped>>
  PROVE  \E rs \in SUBSET Reports : \A r \in Reports :
           /\ r \in rs => Visible(r) = "held"
           /\ Visible(r)' = IF r \in rs THEN "delivered" ELSE Visible(r)
<1>1. \A r \in Carried(f) : r \in submitted /\ r \notin dropped
  BY CarriedFacts
<1>2. \A r \in Reports : delivered'[r] > 0 <=> delivered[r] > 0 \/ r \in Carried(f)
  BY DeliverMore
<1>3. WITNESS {r \in Reports : r \in Carried(f) /\ ~(delivered[r] > 0)} \in SUBSET Reports
<1>4. QED
  BY <1>1, <1>2 DEF Visible

LEMMA StepImplements ==
  ASSUME Inv, NoneLost, NoneLost', [Next]_vars
  PROVE  [Delivery!DeliveryNext]_([r \in Reports |-> Status(r)])
<1> DEFINE status == [r \in Reports |-> Status(r)]
<1>1. /\ \A r \in Reports : status[r] = Visible(r) /\ status'[r] = Visible(r)'
      /\ status = [r \in Reports |-> Visible(r)]
      /\ status' = [r \in Reports |-> Visible(r)']
  BY DEF NoneLost
<1> HIDE DEF status
<1>2. SUFFICES \/ \E rs \in SUBSET Reports : \A r \in Reports :
                    /\ r \in rs => Visible(r) = "new"
                    /\ Visible(r)' = IF r \in rs THEN "held" ELSE Visible(r)
               \/ \E rs \in SUBSET Reports : \A r \in Reports :
                    /\ r \in rs => Visible(r) = "held"
                    /\ Visible(r)' = IF r \in rs THEN "delivered" ELSE Visible(r)
               \/ \E rs \in SUBSET Reports : \A r \in Reports :
                    /\ r \in rs => Visible(r) = "held"
                    /\ Visible(r)' = IF r \in rs THEN "dropped" ELSE Visible(r)
               \/ \A r \in Reports : Visible(r)' = Visible(r)
  <2> DEFINE Moves(rs, from, to) ==
               \A r \in Reports : /\ r \in rs => Visible(r) = from
                                  /\ Visible(r)' = IF r \in rs THEN to ELSE Visible(r)
  <2>1. ASSUME NEW rs \in SUBSET Reports, NEW from, NEW to, Moves(rs, from, to)
        PROVE  /\ \A r \in rs : status[r] = from
               /\ status' = [r \in Reports |-> IF r \in rs THEN to ELSE status[r]]
    <3>1. \A r \in rs : Visible(r) = from
      BY <2>1
    <3>2. \A r \in Reports : Visible(r)' = IF r \in rs THEN to ELSE status[r]
      BY <1>1, <2>1
    <3> QED
      BY <1>1, <3>1, <3>2
  <2>2. ASSUME \A r \in Reports : Visible(r)' = Visible(r)
        PROVE  status' = status
    BY <1>1, <2>2
  <2>3. ASSUME NEW rs \in SUBSET Reports,
               Moves(rs, "new", "held") \/ Moves(rs, "held", "delivered") \/ Moves(rs, "held", "dropped")
        PROVE  Delivery!DeliveryNext
    <3> HIDE DEF Moves
    <3>1. Moves(rs, "new", "held") => Delivery!Accept(rs)
      BY <2>1 DEF Delivery!Accept, status
    <3>2. Moves(rs, "held", "delivered") => Delivery!Deliver(rs)
      BY <2>1 DEF Delivery!Deliver, status
    <3>3. Moves(rs, "held", "dropped") => Delivery!Drop(rs)
      BY <2>1 DEF Delivery!Drop, status
    <3> QED
      BY <2>3, <3>1, <3>2, <3>3 DEF Delivery!DeliveryNext
  <2> QED
    BY <2>2, <2>3 DEF status
<1>3. ASSUME NEW rs \in Submissions, InsertMetrics(rs)
      PROVE  \E qs \in SUBSET Reports : \A r \in Reports :
               /\ r \in qs => Visible(r) = "new"
               /\ Visible(r)' = IF r \in qs THEN "held" ELSE Visible(r)
  <2>1. rs \in SUBSET Reports /\ rs \cap submitted = {} /\ submitted' = submitted \cup rs
        /\ UNCHANGED <<delivered, dropped>>
    BY <1>3 DEF InsertMetrics, Submissions
  <2>2. \A r \in rs : r \notin dropped /\ ~(delivered[r] > 0)
    BY <2>1 DEF Inv, Accounted
  <2>3. \A r \in Reports : /\ r \in rs => Visible(r) = "new"
                          /\ Visible(r)' = IF r \in rs THEN "held" ELSE Visible(r)
    BY <2>1, <2>2 DEF Visible
  <2> QED
    BY <2>1, <2>3
<1>4. CASE UNCHANGED <<submitted, delivered, dropped>>
  BY <1>4 DEF Visible
<1>5. ASSUME NEW f \in Flushes, FlushBuckets(f) \/ SendMetrics(f)
      PROVE  \/ UNCHANGED <<submitted, delivered, dropped>>
             \/ Live(f) /\ dropped' = dropped \cup Carried(f) /\ UNCHANGED <<submitted, delivered>>
  BY <1>5 DEF FlushBuckets, SendMetrics, Live
<1>6. ASSUME NEW f \in Flushes, NEW received \in BOOLEAN, Sent(f) \/ SendFails(f, received)
      PROVE  \/ UNCHANGED <<submitted, delivered, dropped>>
             \/ Live(f) /\ Deliver(f) /\ UNCHANGED <<submitted, dropped>>
  BY <1>6 DEF Sent, SendFails, Live
<1>7. \/ \E rs \in Submissions : InsertMetrics(rs)
      \/ \E f \in Flushes : FlushBuckets(f) \/ SendMetrics(f)
      \/ \E f \in Flushes, received \in BOOLEAN : Sent(f) \/ SendFails(f, received)
      \/ UNCHANGED <<submitted, delivered, dropped>>
  <2>1. UNCHANGED vars => UNCHANGED <<submitted, delivered, dropped>>
    BY DEF vars
  <2>2. ASSUME NEW f \in Flushes, try_flush(f) \/ FlushDone(f)
        PROVE  UNCHANGED <<submitted, delivered, dropped>>
    BY <2>2 DEF try_flush, FlushDone
  <2>3. ASSUME NEW k \in Keys, Elapses(k)
        PROVE  UNCHANGED <<submitted, delivered, dropped>>
    BY <2>3 DEF Elapses
  <2>4. ASSUME NEW s \in Kinds, StateFetched(s)
        PROVE  UNCHANGED <<submitted, delivered, dropped>>
    BY <2>4 DEF StateFetched
  <2>5. ASSUME NEW evicted \in BOOLEAN, StateExpires(evicted)
        PROVE  UNCHANGED <<submitted, delivered, dropped>>
    BY <2>5 DEF StateExpires
  <2> QED
    BY <2>1, <2>2, <2>3, <2>4, <2>5 DEF Next
<1>8. CASE \E f \in Flushes : FlushBuckets(f) \/ SendMetrics(f)
  BY <1>4, <1>5, <1>8, DropsCarried
<1>9. CASE \E f \in Flushes, received \in BOOLEAN : Sent(f) \/ SendFails(f, received)
  BY <1>4, <1>6, <1>9, DeliversCarried
<1>10. QED
  BY <1>3, <1>4, <1>7, <1>8, <1>9

(* No value that an aggregator has taken is lost: it is held until it is   *)
(* delivered or dropped on purpose, whatever fails on the way.             *)
THEOREM Refinement == Spec => ImplementsDelivery
<1>1. Init => Delivery!DeliveryInit
  BY DEF Init, Delivery!DeliveryInit, Status
<1>2. QED
  BY <1>1, InitInv, NextInv, NeverLost, StepImplements, PTL DEF Spec, ImplementsDelivery, Delivery!DeliverySafety
=============================================================================
