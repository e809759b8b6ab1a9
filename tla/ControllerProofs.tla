-------------------------- MODULE ControllerProofs --------------------------
(***************************************************************************)
(* Proofs about Controller and OutcomeProducer for every set of outcomes,  *)
(* batch size, timeout and number of signals: the outcome producers keep   *)
(* every outcome, and a shutdown stops the system after everyone who must  *)
(* hear of it.                                                             *)
(***************************************************************************)
EXTENDS Controller, FiniteSetTheorems, TLAPS

-----------------------------------------------------------------------------
(* The outcome producers.                                                  *)

ProducerTypes ==
  /\ mode \in Modes
  /\ tracked \subseteq Outcomes /\ done \subseteq Outcomes
  /\ mailbox \subseteq Outcomes /\ http \subseteq Outcomes /\ unsent \subseteq Outcomes
  /\ timers \in [Timers -> 0 .. BatchInterval \cup {None}] /\ pending \in Timers \cup {None}
  /\ batches \in [Batches -> SUBSET Outcomes]

(* Below its limit a batch waits, at it the batch is sent.                 *)
Sizes ==
  /\ IsFiniteSet(unsent) /\ Cardinality(unsent) < BatchSize
  /\ \A b \in Batches : Cardinality(batches[b]) <= BatchSize

ProducerInv == ProducerTypes /\ FlushScheduled /\ OutcomeOnce /\ Sizes

LEMMA NoneIsNoTimer == None \notin Timers /\ None \notin 0 .. BatchInterval
BY NoneAssumption, BatchAssumption DEF Timers

(* A batch of at most BatchSize outcomes leaves, with no timer left.       *)
LEMMA SendBatch ==
  ASSUME ProducerInv, NEW os \in SUBSET Outcomes, NEW armed,
         send_batch(os, armed), Cardinality(os) <= BatchSize,
         armed = [t \in Timers |-> None],
         os \cap (mailbox \cup http' \cup done) = {},
         unsent \subseteq os, os \subseteq unsent \cup http, http' = http \ os,
         UNCHANGED <<mode, tracked, mailbox, done>>
  PROVE  ProducerInv'
<1>1. pending' = None /\ timers' = armed /\ unsent' = {}
  BY DEF send_batch, Untaken
<1>2. \A b \in Batches : batches[b] \cap os = {}
  BY DEF ProducerInv, OutcomeOnce
<1>3. /\ batches' \in [Batches -> SUBSET Outcomes]
      /\ \A b \in Batches : Cardinality(batches'[b]) <= BatchSize
      /\ \A b \in Batches : batches'[b] \subseteq batches[b] \cup os
      /\ \A b, c \in Batches : b # c => batches'[b] \cap batches'[c] = {}
      /\ UNION {batches'[b] : b \in Batches} = os \cup UNION {batches[b] : b \in Batches}
  <2>1. CASE os = {} /\ UNCHANGED batches
    BY <2>1 DEF ProducerInv, ProducerTypes, OutcomeOnce, Sizes
  <2>2. CASE \E b \in Batches : batches[b] = {} /\ batches' = [batches EXCEPT ![b] = os]
    <3>1. PICK b \in Batches : batches[b] = {} /\ batches' = [batches EXCEPT ![b] = os]
      BY <2>2
    <3>2. batches'[b] = os /\ \A c \in Batches \ {b} : batches'[c] = batches[c]
      BY <3>1 DEF ProducerInv, ProducerTypes
    <3>3. batches' \in [Batches -> SUBSET Outcomes]
      BY <3>1 DEF ProducerInv, ProducerTypes
    <3>4. \A c \in Batches : Cardinality(batches'[c]) <= BatchSize
      BY <3>2 DEF ProducerInv, Sizes
    <3>5. \A c, d \in Batches : c # d => batches'[c] \cap batches'[d] = {}
      BY <1>2, <3>2 DEF ProducerInv, OutcomeOnce
    <3>6. UNION {batches'[c] : c \in Batches} = os \cup UNION {batches[c] : c \in Batches}
      BY <3>1, <3>2
    <3> QED
      BY <3>2, <3>3, <3>4, <3>5, <3>6
  <2> QED
    BY <2>1, <2>2 DEF send_batch
<1>4. ProducerTypes'
  BY <1>1, <1>3 DEF ProducerInv, ProducerTypes
<1>5. FlushScheduled'
  BY <1>1 DEF FlushScheduled, Armed
<1>6. OutcomeOnce'
  BY <1>1, <1>2, <1>3 DEF ProducerInv, OutcomeOnce
<1>7. Sizes'
  BY <1>1, <1>3, FS_EmptySet, BatchAssumption DEF Sizes
<1>8. QED
  BY <1>4, <1>5, <1>6, <1>7 DEF ProducerInv

LEMMA TrackInv ==
  ASSUME ProducerInv, NEW o \in Outcomes, Track(o)
  PROVE  ProducerInv'
BY DEF ProducerInv, ProducerTypes, FlushScheduled, Armed, OutcomeOnce, Sizes, Track

LEMMA TrackRawOutcomeInv ==
  ASSUME ProducerInv, NEW o \in Outcomes, TrackRawOutcome(o)
  PROVE  ProducerInv'
BY DEF ProducerInv, ProducerTypes, FlushScheduled, Armed, OutcomeOnce, Sizes, TrackRawOutcome

(* The one armed timer is the pending one.                                 *)
LEMMA Disarmed ==
  ASSUME ProducerInv
  PROVE  /\ Cancelled = [t \in Timers |-> None]
         /\ \A t \in Armed : [timers EXCEPT ![t] = None] = [u \in Timers |-> None]
<1>1. timers \in [Timers -> 0 .. BatchInterval \cup {None}]
  BY DEF ProducerInv, ProducerTypes
<1>2. \A t \in Timers : t # pending => timers[t] = None
  BY DEF ProducerInv, FlushScheduled, Armed
<1>3. Armed \subseteq {pending}
  BY DEF ProducerInv, FlushScheduled
<1>4. pending = None => Cancelled = [t \in Timers |-> None]
  BY <1>1, <1>2, NoneIsNoTimer DEF Cancelled
<1>5. pending # None => Cancelled = [t \in Timers |-> None]
  BY <1>1, <1>2 DEF Cancelled
<1>6. QED
  BY <1>1, <1>2, <1>3, <1>4, <1>5

LEMMA CollectInv ==
  ASSUME ProducerInv, NEW o \in http, ~IsFull(unsent \cup {o}), Collect(o),
         http' = http \ {o}, UNCHANGED <<mode, tracked, mailbox, done>>
  PROVE  ProducerInv'
<1>1. o \in Outcomes /\ o \notin unsent /\ unsent' = unsent \cup {o} /\ UNCHANGED batches
  BY DEF ProducerInv, ProducerTypes, OutcomeOnce, Collect
<1>2. IsFiniteSet(unsent') /\ Cardinality(unsent') \in Nat /\ Cardinality(unsent') < BatchSize
  <2>1. IsFiniteSet(unsent') /\ Cardinality(unsent') \in Nat
    BY <1>1, FS_AddElement, FS_CardinalityType DEF ProducerInv, Sizes
  <2> QED
    BY <1>1, <2>1, BatchAssumption DEF IsFull
<1>3. /\ timers' \in [Timers -> 0 .. BatchInterval \cup {None}]
      /\ pending' \in Timers
      /\ Armed' = {pending'}
  <2>1. CASE pending = None /\ pending' = CHOOSE t \in Timers : t \notin Armed
    <3>1. Armed = {}
      BY <2>1 DEF ProducerInv, FlushScheduled
    <3>2. pending' \in Timers
      BY <2>1, <3>1 DEF Timers
    <3>3. timers' = [timers EXCEPT ![pending'] = BatchInterval]
      BY <2>1, NoneIsNoTimer, <3>2 DEF Collect
    <3>4. \A t \in Timers : timers'[t] = IF t = pending' THEN BatchInterval ELSE None
      BY <3>1, <3>3 DEF ProducerInv, ProducerTypes, Armed
    <3>5. BatchInterval \in 0 .. BatchInterval /\ BatchInterval # None
      BY BatchAssumption, NoneIsNoTimer
    <3> QED
      BY <3>2, <3>3, <3>4, <3>5 DEF ProducerInv, ProducerTypes, Armed
  <2>2. CASE pending # None /\ UNCHANGED <<timers, pending>>
    BY <2>2 DEF ProducerInv, ProducerTypes, FlushScheduled, Armed
  <2> QED
    BY <2>1, <2>2 DEF Collect
<1>4. ProducerTypes'
  BY <1>1, <1>3 DEF ProducerInv, ProducerTypes
<1>5. FlushScheduled'
  BY <1>1, <1>3, NoneIsNoTimer DEF FlushScheduled
<1>6. OutcomeOnce'
  BY <1>1 DEF ProducerInv, OutcomeOnce
<1>7. Sizes'
  BY <1>1, <1>2 DEF ProducerInv, Sizes
<1>8. QED
  BY <1>4, <1>5, <1>6, <1>7 DEF ProducerInv

LEMMA TrackHttpOutcomeInv ==
  ASSUME ProducerInv, NEW o \in Outcomes, TrackHttpOutcome(o)
  PROVE  ProducerInv'
<1> DEFINE os == unsent \cup {o}
<1>1. /\ o \in http /\ http' = http \ {o} /\ UNCHANGED <<mode, tracked, mailbox, done>>
      /\ o \notin unsent /\ o \notin mailbox /\ o \notin done
  BY DEF TrackHttpOutcome, ProducerInv, OutcomeOnce
<1>2. CASE send_batch(os, Cancelled)
  <2>1. IsFiniteSet(os) /\ Cardinality(os) = Cardinality(unsent) + 1 /\ Cardinality(unsent) \in Nat
    BY <1>1, FS_AddElement, FS_CardinalityType DEF ProducerInv, Sizes
  <2>2. Cardinality(os) <= BatchSize
    BY <2>1, BatchAssumption DEF ProducerInv, Sizes
  <2>3. /\ os \in SUBSET Outcomes /\ unsent \subseteq os /\ os \subseteq unsent \cup http
        /\ http' = http \ os /\ os \cap (mailbox \cup http' \cup done) = {}
    BY <1>1 DEF ProducerInv, ProducerTypes, OutcomeOnce
  <2> HIDE DEF os
  <2> QED
    BY <1>1, <1>2, <2>2, <2>3, Disarmed, SendBatch
<1>3. CASE ~IsFull(os) /\ Collect(o)
  BY <1>1, <1>3, CollectInv
<1>4. QED
  BY <1>2, <1>3 DEF TrackHttpOutcome

LEMMA FlushInv ==
  ASSUME ProducerInv, NEW t \in Timers, Flush(t)
  PROVE  ProducerInv'
<1>1. /\ t \in Armed /\ send_batch(unsent, [timers EXCEPT ![t] = None])
      /\ UNCHANGED <<mode, tracked, mailbox, http, done>>
  BY DEF Flush, Due
<1>2. Cardinality(unsent) <= BatchSize
  BY FS_CardinalityType, BatchAssumption DEF ProducerInv, Sizes
<1>3. /\ unsent \in SUBSET Outcomes
      /\ http' = http \ unsent /\ unsent \cap (mailbox \cup http' \cup done) = {}
  BY <1>1 DEF ProducerInv, ProducerTypes, OutcomeOnce
<1>4. QED
  BY <1>1, <1>2, <1>3, Disarmed, SendBatch

LEMMA BatchSentInv ==
  ASSUME ProducerInv, NEW b \in Batches, BatchSent(b)
  PROVE  ProducerInv'
<1>1. /\ batches' \in [Batches -> SUBSET Outcomes]
      /\ batches'[b] = {} /\ \A c \in Batches \ {b} : batches'[c] = batches[c]
      /\ done' = done \cup batches[b]
      /\ UNCHANGED <<mode, tracked, mailbox, http, unsent, timers, pending>>
  BY DEF BatchSent, ProducerInv, ProducerTypes
<1>2. ProducerTypes' /\ FlushScheduled'
  BY <1>1 DEF ProducerInv, ProducerTypes, FlushScheduled, Armed
<1>3. OutcomeOnce'
  <2>1. UNION {batches[c] : c \in Batches} = batches[b] \cup UNION {batches'[c] : c \in Batches}
    BY <1>1
  <2> QED
    BY <1>1, <2>1 DEF ProducerInv, OutcomeOnce
<1>4. Sizes'
  BY <1>1, FS_EmptySet, BatchAssumption DEF ProducerInv, Sizes
<1>5. QED
  BY <1>2, <1>3, <1>4 DEF ProducerInv

(* Time counts the armed timers down and arms or disarms none.             *)
LEMMA TickTimers ==
  ASSUME ProducerInv, Tick
  PROVE  /\ ProducerInv'
         /\ \A t \in Armed : timers[t] \in 1 .. BatchInterval /\ timers'[t] = timers[t] - 1
<1>1. /\ timers' = [t \in Timers |-> Less(timers[t])]
      /\ UNCHANGED <<mode, tracked, mailbox, http, unsent, pending, batches, done>>
      /\ Due = {}
  BY DEF Tick, Quiet
<1>2. ASSUME NEW t \in Timers
      PROVE  /\ timers'[t] = None <=> timers[t] = None
             /\ timers'[t] \in 0 .. BatchInterval \cup {None}
             /\ timers[t] # None => timers[t] \in 1 .. BatchInterval /\ timers'[t] = timers[t] - 1
  <2>1. timers[t] \in 0 .. BatchInterval \cup {None}
    BY DEF ProducerInv, ProducerTypes
  <2>2. CASE timers[t] = None
    BY <1>1, <2>2 DEF Less
  <2>3. CASE timers[t] # None
    <3>1. timers[t] \in 1 .. BatchInterval
      BY <1>1, <2>1, <2>3, BatchAssumption DEF Due, Armed
    <3>2. timers[t] \notin {None, Stopped}
      BY <3>1, NoneAssumption, StoppedAssumption, BatchAssumption
    <3>3. timers'[t] = timers[t] - 1
      BY <1>1, <3>2 DEF Less
    <3>4. timers'[t] \in 0 .. BatchInterval
      BY <3>1, <3>3, BatchAssumption
    <3> QED
      BY <2>3, <3>1, <3>3, <3>4, NoneIsNoTimer
  <2> QED
    BY <2>2, <2>3
<1>3. Armed' = Armed
  BY <1>2 DEF Armed
<1>4. ProducerInv'
  BY <1>1, <1>2, <1>3 DEF ProducerInv, ProducerTypes, FlushScheduled, OutcomeOnce, Sizes
<1>5. QED
  BY <1>2, <1>4 DEF Armed

LEMMA InitProducer == Init => ProducerInv
BY FS_EmptySet, BatchAssumption
DEF Init, PInit, ProducerInv, ProducerTypes, FlushScheduled, Armed, OutcomeOnce, Sizes

LEMMA NextProducer == ProducerInv /\ [Next]_vars => ProducerInv'
<1> SUFFICES ASSUME ProducerInv, [Next]_vars PROVE ProducerInv'
  OBVIOUS
<1>1. CASE UNCHANGED pvars
  BY <1>1 DEF pvars, ProducerInv, ProducerTypes, FlushScheduled, Armed, OutcomeOnce, Sizes
<1>2. QED
  BY <1>1, TrackInv, TrackRawOutcomeInv, TrackHttpOutcomeInv, FlushInv, BatchSentInv, TickTimers
  DEF Next, vars, TrackOutcome, ForwardOutcome, CollectOutcome, FlushOutcomes, BatchEnds, Configure,
      Subscribe, Signal, HealthcheckShutdown, ServerShutdown, ServerStops, ServerAnswers,
      ScheduleStop, Stop

(* However outcomes, full batches, timers and answers of the upstream      *)
(* interleave, a timer is armed exactly while outcomes wait for it, no     *)
(* request exceeds the batch size, and every tracked outcome is in exactly *)
(* one place.                                                              *)
THEOREM OutcomesAreKept == Spec => []OutcomesKept
<1>1. ProducerInv => OutcomesKept
  BY DEF ProducerInv, OutcomesKept, Sizes, BatchBound
<1>2. QED
  BY <1>1, InitProducer, NextProducer, PTL DEF Spec

-----------------------------------------------------------------------------
(* The shutdown.                                                           *)

Shutdowns ==
  [type : SignalTypes \cup {None}, sent : SUBSET Actors, waits : SUBSET Actors,
   timeout : {0, Timeout}, in : 0 .. Timeout + Delay \cup {None},
   told : SUBSET Actors, seen : SUBSET Outcomes]

ControllerTypes ==
  /\ inbox \subseteq {"Configure"} \cup Actors
  /\ timeout \in {0, Timeout}
  /\ subscribers \subseteq Actors
  /\ shutdowns \in [Signals -> Shutdowns]
  /\ \A s \in Signals : shutdowns[s].sent \subseteq shutdowns[s].waits
  /\ stopping \in 0 .. Timeout \cup {None, Stopped}
  /\ shutting_down \in BOOLEAN /\ stopped \in BOOLEAN

(* An actor that was told of a shutdown and is no longer waited for is     *)
(* through with it; the stop is scheduled when nobody is waited for.       *)
Through(s) ==
  /\ shutdowns[s].in # None => shutdowns[s].waits = {}
  /\ "Healthcheck" \in shutdowns[s].told \ shutdowns[s].waits => shutting_down
  /\ "Server" \in shutdowns[s].told \ shutdowns[s].waits => stopping = Stopped

(* The outcomes that a shutdown has seen have left the mailboxes when time *)
(* passes, and if they wait for a timer, it fires before the stop.         *)
Flushed(s) ==
  /\ shutdowns[s].seen \subseteq tracked
  /\ shutdowns[s].in # None /\ shutdowns[s].timeout >= BatchInterval =>
       \/ shutdowns[s].in = shutdowns[s].timeout + Delay
       \/ \A o \in shutdowns[s].seen :
            /\ o \notin mailbox \cup http
            /\ o \in unsent => timers[pending] < shutdowns[s].in

ControllerInv ==
  ControllerTypes /\ \A s \in Signals : Through(s) /\ Flushed(s)

LEMMA Times ==
  /\ None \notin 0 .. Timeout + Delay /\ None \notin 0 .. Timeout /\ None # Stopped
  /\ Stopped \notin 0 .. Timeout + Delay /\ Stopped \notin 0 .. Timeout
  /\ Timeout \in Nat /\ Delay \in Nat /\ Timeout + Delay \in Nat
BY NoneAssumption, StoppedAssumption, TimeoutAssumption DEF Delay

(* What a step of the outcome producers does to outcomes tracked before.   *)
OutcomesAdvance ==
  /\ tracked \subseteq tracked'
  /\ \A o \in tracked :
       /\ o \in mailbox' \cup http' => o \in mailbox \cup http
       /\ o \in unsent' => o \in unsent \cup http
       /\ o \in unsent /\ o \in unsent' => pending' = pending /\ timers'[pending] = timers[pending]

LEMMA ProducerStep ==
  ASSUME ProducerInv,
         \/ \E o \in Outcomes : Track(o) \/ TrackRawOutcome(o) \/ TrackHttpOutcome(o)
         \/ \E t \in Timers : Flush(t)
         \/ \E b \in Batches : BatchSent(b)
  PROVE  OutcomesAdvance
<1>1. ASSUME NEW o \in Outcomes, Track(o) \/ TrackRawOutcome(o)
      PROVE  OutcomesAdvance
  BY <1>1 DEF Track, TrackRawOutcome, OutcomesAdvance
<1>2. ASSUME NEW o \in Outcomes, TrackHttpOutcome(o)
      PROVE  OutcomesAdvance
  <2>1. /\ o \in http /\ http' = http \ {o} /\ UNCHANGED <<tracked, mailbox>>
        /\ (unsent' = {} \/ Collect(o))
    BY <1>2 DEF TrackHttpOutcome, send_batch, Untaken
  <2>2. CASE unsent' = {}
    BY <2>1, <2>2 DEF OutcomesAdvance
  <2>3. CASE Collect(o)
    <3>1. unsent' = unsent \cup {o} /\ (unsent # {} => UNCHANGED <<timers, pending>>)
      BY <2>3 DEF Collect, ProducerInv, FlushScheduled
    <3> QED
      BY <2>1, <3>1 DEF OutcomesAdvance
  <2> QED
    BY <2>1, <2>2, <2>3
<1>3. ASSUME NEW t \in Timers, Flush(t)
      PROVE  OutcomesAdvance
  BY <1>3 DEF Flush, send_batch, Untaken, OutcomesAdvance
<1>4. ASSUME NEW b \in Batches, BatchSent(b)
      PROVE  OutcomesAdvance
  BY <1>4 DEF BatchSent, OutcomesAdvance
<1>5. QED
  BY <1>1, <1>2, <1>3, <1>4

LEMMA ProducerStepInv ==
  ASSUME ProducerInv, ControllerInv, OutcomesAdvance, UNCHANGED cvars
  PROVE  ControllerInv'
<1>1. ControllerTypes'
  BY DEF cvars, ControllerInv, ControllerTypes
<1>2. ASSUME NEW s \in Signals
      PROVE  Through(s)' /\ Flushed(s)'
  <2>1. shutdowns' = shutdowns /\ shutting_down' = shutting_down /\ stopping' = stopping
    BY DEF cvars
  <2>2. Through(s) /\ Flushed(s)
    BY DEF ControllerInv
  <2>3. Through(s)'
    BY <2>1, <2>2 DEF Through
  <2>4. Flushed(s)'
    BY <2>1, <2>2 DEF Flushed, OutcomesAdvance
  <2> QED
    BY <2>3, <2>4
<1>3. QED
  BY <1>1, <1>2 DEF ControllerInv

(* A shutdown makes progress, and time stands still.                       *)
LEMMA ShutdownStepInv ==
  ASSUME ControllerInv, UNCHANGED pvars, ControllerTypes',
         shutting_down => shutting_down', stopping = Stopped => stopping' = Stopped,
         \A s \in Signals :
           /\ shutdowns'[s].seen \in {shutdowns[s].seen, tracked, {}}
           /\ \/ shutdowns'[s].in = None
              \/ /\ shutdowns'[s].in = shutdowns[s].in
                 /\ shutdowns'[s].timeout = shutdowns[s].timeout
                 /\ shutdowns'[s].seen = shutdowns[s].seen
                 /\ shutdowns'[s].waits \subseteq shutdowns[s].waits
              \/ /\ shutdowns'[s].in = shutdowns'[s].timeout + Delay
                 /\ shutdowns'[s].waits = {}
           /\ \/ shutdowns'[s].told = shutdowns'[s].waits
              \/ /\ shutdowns'[s].told = shutdowns[s].told
                 /\ "Healthcheck" \in shutdowns[s].waits \ shutdowns'[s].waits => shutting_down'
                 /\ "Server" \in shutdowns[s].waits \ shutdowns'[s].waits => stopping' = Stopped
  PROVE  ControllerInv'
<1>1. ASSUME NEW s \in Signals
      PROVE  Through(s)' /\ Flushed(s)'
  <2>1. Through(s) /\ Flushed(s)
    BY DEF ControllerInv
  <2>2. Through(s)'
    BY <2>1 DEF Through
  <2>3. Flushed(s)'
    BY <2>1 DEF Flushed, pvars
  <2> QED
    BY <2>2, <2>3
<1>2. QED
  BY <1>1 DEF ControllerInv

(* One shutdown changes, the others do not.                                *)
LEMMA OneShutdown ==
  ASSUME ControllerTypes, NEW s \in Signals, NEW v \in Shutdowns,
         shutdowns' = [shutdowns EXCEPT ![s] = v]
  PROVE  /\ shutdowns'[s] = v /\ \A r \in Signals \ {s} : shutdowns'[r] = shutdowns[r]
         /\ shutdowns' \in [Signals -> Shutdowns]
BY DEF ControllerTypes

LEMMA SignalInv ==
  ASSUME ControllerInv, NEW s \in Signals, NEW type \in SignalTypes, Signal(s, type)
  PROVE  ControllerInv'
<1> DEFINE v == [type |-> type, sent |-> subscribers, waits |-> subscribers,
                 timeout |-> IF type = "Term" THEN timeout ELSE 0,
                 in |-> None, told |-> subscribers, seen |-> {}]
<1>1. v \in Shutdowns
  BY DEF ControllerInv, ControllerTypes, Shutdowns
<1>2. /\ v.in = None /\ v.told = v.waits /\ v.sent = v.waits /\ v.seen = {}
  OBVIOUS
<1>3. shutdowns' = [shutdowns EXCEPT ![s] = v]
  BY DEF Signal
<1> HIDE DEF v
<1>4. /\ shutdowns'[s] = v /\ \A r \in Signals \ {s} : shutdowns'[r] = shutdowns[r]
      /\ shutdowns' \in [Signals -> Shutdowns]
  BY <1>1, <1>3, OneShutdown DEF ControllerInv
<1>5. UNCHANGED <<pvars, inbox, timeout, subscribers, shutting_down, stopping, stopped>>
  BY DEF Signal
<1>6. ControllerTypes'
  BY <1>2, <1>4, <1>5 DEF ControllerInv, ControllerTypes
<1>7. QED
  BY <1>2, <1>4, <1>5, <1>6, ShutdownStepInv

(* An actor handles Shutdown, or answers it.                               *)
LEMMA HandledInv ==
  ASSUME ControllerInv, NEW s \in Signals, NEW a \in Actors, Handled(s, a),
         UNCHANGED <<pvars, inbox, timeout, subscribers, stopping, stopped>>,
         shutting_down' \in BOOLEAN, shutting_down => shutting_down',
         a = "Healthcheck" => shutting_down', a = "Server" => stopping = Stopped
  PROVE  ControllerInv'
<1> DEFINE v == [shutdowns[s] EXCEPT !.sent = shutdowns[s].sent \ {a}, !.waits = shutdowns[s].waits \ {a}]
<1>1. shutdowns[s] \in Shutdowns /\ shutdowns[s].sent \subseteq shutdowns[s].waits
  BY DEF ControllerInv, ControllerTypes
<1>2. /\ v \in Shutdowns /\ v.sent = shutdowns[s].sent \ {a} /\ v.waits = shutdowns[s].waits \ {a}
      /\ v.in = shutdowns[s].in /\ v.timeout = shutdowns[s].timeout
      /\ v.told = shutdowns[s].told /\ v.seen = shutdowns[s].seen
  BY <1>1 DEF Shutdowns
<1>3. shutdowns' = [shutdowns EXCEPT ![s] = v]
  BY DEF Handled, ControllerInv, ControllerTypes
<1> HIDE DEF v
<1>4. /\ shutdowns'[s] = v /\ \A r \in Signals \ {s} : shutdowns'[r] = shutdowns[r]
      /\ shutdowns' \in [Signals -> Shutdowns]
  BY <1>2, <1>3, OneShutdown DEF ControllerInv
<1>5. ControllerTypes'
  BY <1>1, <1>2, <1>4 DEF ControllerInv, ControllerTypes
<1>6. QED
  BY <1>2, <1>4, <1>5, ShutdownStepInv

LEMMA ServerShutdownInv ==
  ASSUME ControllerInv, NEW s \in Signals, ServerShutdown(s)
  PROVE  ControllerInv'
<1> DEFINE v == [shutdowns[s] EXCEPT !.sent = shutdowns[s].sent \ {"Server"}]
<1>1. shutdowns[s] \in Shutdowns /\ shutdowns[s].sent \subseteq shutdowns[s].waits
  BY DEF ControllerInv, ControllerTypes
<1>2. /\ v \in Shutdowns /\ v.sent = shutdowns[s].sent \ {"Server"} /\ v.waits = shutdowns[s].waits
      /\ v.in = shutdowns[s].in /\ v.timeout = shutdowns[s].timeout
      /\ v.told = shutdowns[s].told /\ v.seen = shutdowns[s].seen
  BY <1>1 DEF Shutdowns
<1>3. shutdowns' = [shutdowns EXCEPT ![s] = v]
  BY DEF ServerShutdown, ControllerInv, ControllerTypes
<1> HIDE DEF v
<1>4. /\ shutdowns'[s] = v /\ \A r \in Signals \ {s} : shutdowns'[r] = shutdowns[r]
      /\ shutdowns' \in [Signals -> Shutdowns]
  BY <1>2, <1>3, OneShutdown DEF ControllerInv
<1>5. UNCHANGED <<pvars, inbox, timeout, subscribers, shutting_down, stopped>>
  BY DEF ServerShutdown
<1>6. stopping' \in 0 .. Timeout \cup {None, Stopped} /\ (stopping = Stopped => stopping' = Stopped)
  BY Times DEF ServerShutdown, ControllerInv, ControllerTypes
<1>7. ControllerTypes'
  BY <1>1, <1>2, <1>4, <1>5, <1>6 DEF ControllerInv, ControllerTypes
<1>8. QED
  BY <1>2, <1>4, <1>5, <1>6, <1>7, ShutdownStepInv

LEMMA ScheduleStopInv ==
  ASSUME ControllerInv, ProducerInv, NEW s \in Signals, ScheduleStop(s)
  PROVE  ControllerInv'
<1> DEFINE v == [shutdowns[s] EXCEPT !.in = StopIn(s), !.seen = tracked]
<1>1. shutdowns[s] \in Shutdowns /\ shutdowns[s].sent \subseteq shutdowns[s].waits /\ shutdowns[s].waits = {}
  BY DEF ScheduleStop, Joined, ControllerInv, ControllerTypes
<1>2. StopIn(s) \in 0 .. Timeout + Delay /\ tracked \in SUBSET Outcomes
  BY <1>1, Times DEF StopIn, Shutdowns, ProducerInv, ProducerTypes
<1>3. /\ v \in Shutdowns /\ v.sent = shutdowns[s].sent /\ v.waits = {}
      /\ v.in = v.timeout + Delay
      /\ v.told = shutdowns[s].told /\ v.seen = tracked
  BY <1>1, <1>2 DEF Shutdowns, StopIn
<1>4. shutdowns' = [shutdowns EXCEPT ![s] = v]
  BY DEF ScheduleStop, ControllerInv, ControllerTypes
<1> HIDE DEF v
<1>5. /\ shutdowns'[s] = v /\ \A r \in Signals \ {s} : shutdowns'[r] = shutdowns[r]
      /\ shutdowns' \in [Signals -> Shutdowns]
  BY <1>3, <1>4, OneShutdown DEF ControllerInv
<1>6. UNCHANGED <<pvars, inbox, timeout, subscribers, shutting_down, stopping, stopped>>
  BY DEF ScheduleStop
<1>7. ControllerTypes'
  BY <1>1, <1>3, <1>5, <1>6 DEF ControllerInv, ControllerTypes
<1>8. QED
  BY <1>1, <1>3, <1>5, <1>6, <1>7, ShutdownStepInv

(* Time passes for the timer of the batch and for the stop alike; it does  *)
(* so only when the mailboxes are empty.                                   *)
LEMMA TickInv ==
  ASSUME ControllerInv, ProducerInv, Tick
  PROVE  ControllerInv'
<1>1. /\ stopping' = Less(stopping)
      /\ shutdowns' = [s \in Signals |-> [shutdowns[s] EXCEPT !.in = Less(shutdowns[s].in)]]
      /\ UNCHANGED <<tracked, mailbox, http, unsent, pending,
                     inbox, timeout, subscribers, shutting_down, stopped>>
      /\ mailbox = {} /\ http = {} /\ stopping # 0 /\ \A s \in Signals : shutdowns[s].in # 0
  BY DEF Tick, Quiet
<1>2. stopping' \in 0 .. Timeout \cup {None, Stopped} /\ (stopping = Stopped => stopping' = Stopped)
  <2>1. CASE stopping \in {None, Stopped}
    BY <1>1, <2>1 DEF Less
  <2>2. CASE stopping \notin {None, Stopped}
    <3>1. stopping \in 1 .. Timeout
      BY <1>1, <2>2, Times DEF ControllerInv, ControllerTypes
    <3>2. stopping' = stopping - 1
      BY <1>1, <2>2 DEF Less
    <3> QED
      BY <2>2, <3>1, <3>2, Times
  <2> QED
    BY <2>1, <2>2
<1>3. ASSUME NEW s \in Signals
      PROVE  /\ shutdowns'[s] \in Shutdowns
             /\ shutdowns'[s].sent = shutdowns[s].sent /\ shutdowns'[s].waits = shutdowns[s].waits
             /\ shutdowns'[s].told = shutdowns[s].told /\ shutdowns'[s].seen = shutdowns[s].seen
             /\ shutdowns'[s].timeout = shutdowns[s].timeout
             /\ shutdowns'[s].in = None <=> shutdowns[s].in = None
             /\ shutdowns[s].in # None => /\ shutdowns[s].in \in 1 .. Timeout + Delay
                                          /\ shutdowns'[s].in = shutdowns[s].in - 1
  <2>1. shutdowns[s] \in Shutdowns
    BY DEF ControllerInv, ControllerTypes
  <2>2. shutdowns'[s] = [shutdowns[s] EXCEPT !.in = Less(shutdowns[s].in)]
    BY <1>1
  <2>3. CASE shutdowns[s].in = None
    <3>1. Less(shutdowns[s].in) = None
      BY <2>3 DEF Less
    <3> QED
      BY <2>1, <2>2, <2>3, <3>1 DEF Shutdowns
  <2>4. CASE shutdowns[s].in # None
    <3>1. shutdowns[s].in \in 1 .. Timeout + Delay
      BY <1>1, <2>1, <2>4, Times DEF Shutdowns
    <3>2. Less(shutdowns[s].in) = shutdowns[s].in - 1
      BY <2>4, <3>1, Times DEF Less
    <3>3. shutdowns[s].in - 1 \in 0 .. Timeout + Delay /\ shutdowns[s].in - 1 # None
      BY <3>1, Times
    <3> QED
      BY <2>1, <2>2, <2>4, <3>1, <3>2, <3>3 DEF Shutdowns
  <2> QED
    BY <2>3, <2>4
<1>4. ControllerTypes'
  <2>1. shutdowns' \in [Signals -> Shutdowns]
    BY <1>1, <1>3
  <2> QED
    BY <1>1, <1>2, <1>3, <2>1 DEF ControllerInv, ControllerTypes
<1>5. ASSUME NEW s \in Signals
      PROVE  Through(s)' /\ Flushed(s)'
  <2>1. Through(s) /\ Flushed(s)
    BY DEF ControllerInv
  <2>2. Through(s)'
    BY <1>1, <1>2, <1>3, <2>1 DEF Through
  <2>3. shutdowns'[s].seen \subseteq tracked'
    BY <1>1, <1>3, <2>1 DEF Flushed
  <2>4. ASSUME shutdowns'[s].in # None, shutdowns'[s].timeout >= BatchInterval,
               NEW o \in shutdowns'[s].seen, o \in unsent'
        PROVE  timers'[pending'] < shutdowns'[s].in
    <3>1. /\ pending' = pending /\ o \in unsent /\ o \in shutdowns[s].seen
          /\ shutdowns[s].in # None /\ shutdowns[s].timeout >= BatchInterval
          /\ shutdowns[s].in \in Nat /\ shutdowns'[s].in = shutdowns[s].in - 1
      BY <1>1, <1>3, <2>4, Times
    <3>2. pending \in Armed
      BY <3>1 DEF ProducerInv, FlushScheduled
    <3>3. timers[pending] \in 1 .. BatchInterval /\ timers'[pending] = timers[pending] - 1
      BY <3>2, TickTimers
    <3>4. shutdowns[s].timeout \in Nat
      BY Times DEF ControllerInv, ControllerTypes, Shutdowns
    <3>5. timers[pending] < shutdowns[s].in
      <4>1. CASE shutdowns[s].in = shutdowns[s].timeout + Delay
        BY <3>1, <3>3, <3>4, <4>1, BatchAssumption DEF Delay
      <4>2. CASE shutdowns[s].in # shutdowns[s].timeout + Delay
        BY <2>1, <3>1, <4>2 DEF Flushed
      <4> QED
        BY <4>1, <4>2
    <3> QED
      BY <3>1, <3>3, <3>5, BatchAssumption
  <2>5. Flushed(s)'
    BY <1>1, <2>3, <2>4 DEF Flushed
  <2> QED
    BY <2>2, <2>5
<1>6. QED
  BY <1>4, <1>5 DEF ControllerInv

LEMMA OtherStepsInv ==
  ASSUME ControllerInv,
         Configure \/ (\E a \in Actors : Subscribe(a)) \/ ServerStops \/ (\E s \in Signals : Stop(s))
           \/ UNCHANGED vars
  PROVE  ControllerInv'
<1>1. UNCHANGED <<pvars, shutdowns, shutting_down>> /\ (stopping = Stopped => stopping' = Stopped)
  BY DEF Configure, Subscribe, ServerStops, Stop, vars, cvars
<1>2. ControllerTypes'
  BY <1>1 DEF Configure, Subscribe, ServerStops, Stop, vars, cvars, ControllerInv, ControllerTypes
<1>3. QED
  BY <1>1, <1>2, ShutdownStepInv

LEMMA InitController == Init => ControllerInv
<1> SUFFICES ASSUME Init PROVE ControllerInv
  OBVIOUS
<1>1. NoShutdown \in Shutdowns
  BY DEF NoShutdown, Shutdowns
<1>2. ControllerTypes
  BY <1>1 DEF Init, ControllerTypes, NoShutdown
<1>3. \A s \in Signals : Through(s) /\ Flushed(s)
  BY DEF Init, PInit, Through, Flushed, NoShutdown
<1>4. QED
  BY <1>2, <1>3 DEF ControllerInv

LEMMA NextController == ProducerInv /\ ControllerInv /\ [Next]_vars => ControllerInv'
<1> SUFFICES ASSUME ProducerInv, ControllerInv, [Next]_vars PROVE ControllerInv'
  OBVIOUS
<1>1. CASE \/ \E o \in Outcomes : TrackOutcome(o) \/ ForwardOutcome(o) \/ CollectOutcome(o)
           \/ \E t \in Timers : FlushOutcomes(t)
           \/ \E b \in Batches : BatchEnds(b)
  BY <1>1, ProducerStep, ProducerStepInv
  DEF TrackOutcome, ForwardOutcome, CollectOutcome, FlushOutcomes, BatchEnds
<1>2. ASSUME NEW s \in Signals, HealthcheckShutdown(s)
      PROVE  ControllerInv'
  BY <1>2, HandledInv DEF HealthcheckShutdown, Actors
<1>3. ASSUME NEW s \in Signals, ServerAnswers(s)
      PROVE  ControllerInv'
  BY <1>3, HandledInv DEF ServerAnswers, Actors, ControllerInv, ControllerTypes
<1>4. QED
  BY <1>1, <1>2, <1>3, SignalInv, ServerShutdownInv, ScheduleStopInv, TickInv, OtherStepsInv DEF Next

(* However signals overlap, the system is stopped only after every actor   *)
(* that had subscribed is through with the shutdown, and a graceful        *)
(* shutdown not shorter than the batch interval leaves no outcome behind,  *)
(* for every timeout, batch interval and number of signals.                *)
THEOREM StopIsOrderly == Spec => []OrderlyStop
<1>1. ProducerInv /\ ControllerInv => OrderlyStop
  <2> SUFFICES ASSUME ProducerInv, ControllerInv PROVE OrderlyStop
    OBVIOUS
  <2>1. TypeOK
    BY DEF ProducerInv, ProducerTypes, ControllerInv, ControllerTypes, Shutdowns, TypeOK
  <2>2. StopsInOrder
    BY DEF ControllerInv, Through, StopsInOrder
  <2>3. ASSUME NEW s \in Signals, shutdowns[s].in = 0, shutdowns[s].timeout >= BatchInterval
        PROVE  shutdowns[s].seen \cap (mailbox \cup http \cup unsent) = {}
    <3>1. shutdowns[s].timeout \in Nat /\ Flushed(s) /\ 0 # None
      BY Times, NoneAssumption DEF ControllerInv, ControllerTypes, Shutdowns
    <3>2. shutdowns[s].in # shutdowns[s].timeout + Delay
      BY <2>3, <3>1 DEF Delay
    <3>3. unsent # {} => timers[pending] \in 0 .. BatchInterval
      BY DEF ProducerInv, ProducerTypes, FlushScheduled, Armed
    <3> QED
      BY <2>3, <3>1, <3>2, <3>3, BatchAssumption DEF Flushed
  <2>4. GracefulFlush
    BY <2>3 DEF GracefulFlush
  <2> QED
    BY <2>1, <2>2, <2>4 DEF OrderlyStop
<1>2. QED
  BY <1>1, InitProducer, NextProducer, InitController, NextController, PTL DEF Spec
=============================================================================
