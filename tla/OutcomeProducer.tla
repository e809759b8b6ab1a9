--------------------------- MODULE OutcomeProducer --------------------------
(***************************************************************************)
(* The outcome producers in relay-server/src/actors/outcome.rs. Outcomes   *)
(* go to Kafka if the relay processes events; if not, and if outcomes are  *)
(* to be emitted, HttpOutcomeProducer sends them to the upstream in        *)
(* batches: when a batch is full, or when a timer fires.                   *)
(*                                                                         *)
(* A mailbox is the set of its outcomes, which are numbered. Timers count  *)
(* down, so that Controller can compare them with a shutdown.              *)
(***************************************************************************)
EXTENDS Naturals, FiniteSets

CONSTANTS
  Outcomes,       \* the outcomes, numbered in the order in which they are tracked
  Batches,        \* names of SendOutcomes requests
  BatchSize,      \* config.outcome_batch_size()
  BatchInterval,  \* config.outcome_batch_interval()
  Modes,          \* the kinds of relays: "kafka", "http" or "off"
  None

ASSUME ModesAssumption == Modes \subseteq {"kafka", "http", "off"}
ASSUME NoneAssumption  == None \notin Nat
ASSUME BatchAssumption == BatchSize \in Nat \ {0} /\ BatchInterval \in Nat \ {0}

VARIABLES
  mode,        \* where outcomes go, which never changes
  tracked,     \* history: outcomes that have been tracked
  mailbox,     \* the mailbox of ProcessingOutcomeProducer
  http,        \* the mailbox of HttpOutcomeProducer
  unsent,      \* unsent_outcomes
  timers,      \* id -> the time until the timer fires, or None
  pending,     \* pending_flush_handle: the id of a timer, or None
  batches,     \* batch -> the outcomes that a request carries
  done         \* history: outcomes that were received, refused, or not wanted

pvars == <<mode, tracked, mailbox, http, unsent, timers, pending, batches, done>>

Timers == {1, 2}
Armed == {t \in Timers : timers[t] # None}

PInit ==
  /\ mode \in Modes
  /\ tracked = {} /\ mailbox = {} /\ http = {} /\ unsent = {}
  /\ timers = [t \in Timers |-> None]
  /\ pending = None
  /\ batches = [b \in Batches |-> {}]
  /\ done = {}

-----------------------------------------------------------------------------
(* A part of the relay sends TrackOutcome, or a downstream relay its       *)
(* outcomes to the endpoint.                                               *)
Track(o) ==
  /\ o \notin tracked /\ \A p \in Outcomes : p < o => p \in tracked
  /\ tracked' = tracked \cup {o}
  /\ mailbox' = mailbox \cup {o}
  /\ UNCHANGED <<mode, http, unsent, timers, pending, batches, done>>

(* Handler<TrackRawOutcome> of ProcessingOutcomeProducer. If the queue of  *)
(* the Kafka producer is full, the outcome is refused.                     *)
TrackRawOutcome(o) ==
  /\ o \in mailbox /\ \A p \in mailbox : o <= p
  /\ mailbox' = mailbox \ {o}
  /\ \/ /\ mode \in {"kafka", "off"}
        /\ done' = done \cup {o}
        /\ UNCHANGED http
     \/ /\ mode = "http"
        /\ http' = http \cup {o}
        /\ UNCHANGED done
  /\ UNCHANGED <<mode, tracked, unsent, timers, pending, batches>>

IsFull_Exceeded(os) == Cardinality(os) > BatchSize

IsFull(os) == Cardinality(os) >= BatchSize

Cancelled_Forgotten == timers

(* context.cancel_future(pending_flush_handle)                             *)
Cancelled == IF pending = None THEN timers ELSE [timers EXCEPT ![pending] = None]

Untaken_Cloned(os) == os

(* mem::take(&mut self.unsent_outcomes)                                    *)
Untaken(os) == {}

(* send_batch: the handle is reset; a request is made if there are any     *)
(* outcomes.                                                               *)
send_batch(os, armed) ==
  /\ pending' = None
  /\ timers' = armed
  /\ unsent' = Untaken(os)
  /\ \/ os = {} /\ UNCHANGED batches
     \/ /\ os # {}
        /\ \E b \in Batches : batches[b] = {}
        /\ batches' = [batches EXCEPT ![CHOOSE b \in Batches : batches[b] = {}] = os]

(* send_http_message for an outcome that does not fill the batch.          *)
Collect(o) ==
  /\ unsent' = unsent \cup {o}
  /\ \/ /\ pending = None
        /\ Armed # Timers
        /\ pending' = CHOOSE t \in Timers : t \notin Armed
        /\ timers' = [timers EXCEPT ![pending'] = BatchInterval]
     \/ pending # None /\ UNCHANGED <<timers, pending>>
  /\ UNCHANGED batches

(* Handler<TrackRawOutcome> of HttpOutcomeProducer.                        *)
TrackHttpOutcome(o) ==
  /\ o \in http /\ \A p \in http : o <= p
  /\ http' = http \ {o}
  /\ \/ IsFull(unsent \cup {o}) /\ send_batch(unsent \cup {o}, Cancelled)
     \/ ~IsFull(unsent \cup {o}) /\ Collect(o)
  /\ UNCHANGED <<mode, tracked, mailbox, done>>

Due == {t \in Armed : timers[t] = 0}

(* The timer calls send_batch.                                             *)
Flush(t) ==
  /\ t \in Due
  /\ send_batch(unsent, [timers EXCEPT ![t] = None])
  /\ UNCHANGED <<mode, tracked, mailbox, http, done>>

-----------------------------------------------------------------------------
BatchSent_Retried(b) == batches[b] # {} /\ UNCHANGED pvars

(* SendQuery(SendOutcomes) to UpstreamRelay, which retries after network   *)
(* errors. The upstream accepts the batch or refuses it, for good.         *)
BatchSent(b) ==
  /\ batches[b] # {}
  /\ done' = done \cup batches[b]
  /\ batches' = [batches EXCEPT ![b] = {}]
  /\ UNCHANGED <<mode, tracked, mailbox, http, unsent, timers, pending>>

-----------------------------------------------------------------------------
(* The properties.                                                         *)

(* A timer is armed if and only if outcomes wait for it, and it is the one *)
(* that send_http_message can cancel: no outcome is left without a flush,  *)
(* and no timer that was forgotten cuts the next batch short.              *)
FlushScheduled ==
  /\ unsent # {} <=> pending # None
  /\ Armed = {pending} \ {None}

(* No request carries more than outcome_batch_size outcomes.               *)
BatchBound == \A b \in Batches : Cardinality(batches[b]) <= BatchSize

(* An outcome that was tracked is in one place, which may be its end: none *)
(* is lost between a full batch and the timer, and none is in two requests *)
(* or, once it has been sent, in another.                                  *)
OutcomeOnce ==
  /\ mailbox \cap (http \cup unsent \cup done) = {}
  /\ http \cap (unsent \cup done) = {} /\ unsent \cap done = {}
  /\ \A b \in Batches :
       /\ batches[b] \cap (mailbox \cup http \cup unsent \cup done) = {}
       /\ \A c \in Batches : c # b => batches[b] \cap batches[c] = {}
  /\ tracked = mailbox \cup http \cup unsent \cup done \cup UNION {batches[b] : b \in Batches}

(* The batches and their timer keep every outcome.                         *)
OutcomesKept == FlushScheduled /\ BatchBound /\ OutcomeOnce

=============================================================================
