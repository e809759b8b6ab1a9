--------------------------- MODULE EnvelopeManager --------------------------
(***************************************************************************)
(* The way of an envelope through the relay: the HTTP handler              *)
(* (relay-server/src/endpoints/common.rs), the actor EnvelopeManager       *)
(* (relay-server/src/actors/envelopes.rs) with the messages it sends to    *)
(* ProjectCache and to the EnvelopeProcessor workers, and the upstream or  *)
(* Kafka.                                                                  *)
(*                                                                         *)
(* A part is what HandleEnvelope handles: an envelope, or one of the two   *)
(* that QueueEnvelope splits it into. The history variable fates records   *)
(* what became of the units that outcomes are about: the event of an       *)
(* envelope, and each attachment in it.                                    *)
(***************************************************************************)
EXTENDS EnvelopeProcessor

CONSTANTS
  Envelopes,    \* names of the envelopes that clients send
  Content,      \* envelope -> the items it has, whose names differ
  BufferSize,   \* config.envelope_buffer_size()
  Modes         \* how the relay may be configured

ASSUME ModesAssumption  == Modes \subseteq {"Upstream", "Store", "Capture"}
ASSUME BufferAssumption == BufferSize \in Nat

(* What a worker finds in a crash report is not named like what a client   *)
(* has sent.                                                               *)
ASSUME ContentAssumption ==
  \A e \in Envelopes :
    /\ Content[e] \in Seq(Item)
    /\ \A x, y \in Items(Content[e]) : \A i \in 1 .. 3 : NewName(x.name, i) # y.name

VARIABLES
  mode,         \* what send_envelope does, which never changes
  requests,     \* envelope -> the HTTP handler: its stage, its envelope, its summary
  parts,        \* part -> the future of HandleEnvelope, and the message it waits for
  active,       \* EnvelopeManager::active_envelopes
  captures,     \* EnvelopeManager::captures: envelope -> "none", "ok" or "error"
  fates         \* history: envelope -> unit -> what became of it

vars == <<mode, requests, parts, active, captures, fates>>

Parts == Envelopes \X {"event", "other"}

EventUnit == "event"
Names(e) == {item.name : item \in Items(Content[e])}
Units(e) == {<<EventUnit>>} \cup {<<"attachment", n>> : n \in Names(e)}

(* The units that a summary counts, or that an enforcement limits.         *)
UnitsOf(hasEvent, attachments) ==
  (IF hasEvent THEN {<<EventUnit>>} ELSE {}) \cup {<<"attachment", n>> : n \in attachments}
Counted(summary) == UnitsOf(summary.event # NoCategory, summary.attachments)
Limited(enforcement) == UnitsOf(enforcement.event, enforcement.attachments)

(* An outcome is tracked by the HTTP handler ("limited", "refused"), by    *)
(* CheckEnvelope ("checked"), by a worker ("quota") or at the end of the   *)
(* future ("failed", "timeout"). Without one, the upstream or Kafka has    *)
(* the unit ("upstream"), it could not be sent ("unsent"), or it was       *)
(* removed from its envelope ("removed").                                  *)
Fates == {"limited", "refused", "checked", "quota", "failed", "timeout",
          "upstream", "unsent", "removed"}

(* The stages of a future; in Messages, one that it has sent is on its way *)
(* or being handled, and will be even if the future is over.               *)
Messages == {"check", "process", "upstream"}
Stages == {"queued", "checked", "sample", "state", "processed", "answered"} \cup Messages

(* A part that is not there yet, or is over.                               *)
NoPart(stage) == [stage |-> stage, envelope |-> <<>>, summary |-> Summary(<<>>),
                  error |-> NoError, open |-> FALSE]

NewPart(envelope) ==
  [stage |-> "queued", envelope |-> envelope, summary |-> Summary(envelope),
   error |-> NoError, open |-> TRUE]

NoRequest(stage) == [stage |-> stage, envelope |-> <<>>, summary |-> Summary(<<>>)]

TypeOK ==
  /\ mode \in Modes
  /\ \A e \in Envelopes : requests[e].stage \in {"new", "queue", "done"}
  /\ \A p \in Parts : IF parts[p].open THEN parts[p].stage \in Stages
                      ELSE parts[p].stage \in {"none", "done"} \cup Messages
  /\ active \in Nat
  /\ captures \in [Envelopes -> {"none", "ok", "error"}]
  /\ \A e \in Envelopes : fates[e] \in [Units(e) -> SUBSET Fates]

Init ==
  /\ mode \in Modes
  /\ requests = [e \in Envelopes |-> [stage |-> "new", envelope |-> Content[e],
                                      summary |-> Summary(Content[e])]]
  /\ parts = [p \in Parts |-> NoPart("none")]
  /\ active = 0
  /\ captures = [e \in Envelopes |-> "none"]
  /\ fates = [e \in Envelopes |-> [u \in Units(e) |-> {}]]

(* The units us of envelope e get the fate f, units of new items aside.    *)
Fate(fs, e, us, f) ==
  [fs EXCEPT ![e] = [u \in Units(e) |-> IF u \in us THEN fs[e][u] \cup {f} ELSE fs[e][u]]]

-----------------------------------------------------------------------------
(* The HTTP handler                                                        *)

(* handle_store_like_request up to QueueEnvelope: CheckEnvelope::cached    *)
(* rejects the request or limits some categories, then the size of the     *)
(* envelope is checked, and its trace sampled. Nobody else can see the     *)
(* envelope between these steps.                                           *)
HandleRequest(e) ==
  /\ requests[e].stage = "new"
  /\ \/ \* ScheduleFailed, ProjectFailed and EventRejected
        /\ requests' = [requests EXCEPT ![e] = NoRequest("done")]
        /\ fates' = Fate(fates, e, Counted(requests[e].summary), "refused")
     \/ \E limited \in SUBSET Relevant(requests[e].envelope, NoCategory),
           then \in {"Queue", "PayloadError", "TraceSampled"} :
          LET result == enforce(requests[e].envelope, NoCategory, limited)
              tracked == Fate(fates, e, Limited(result.enforcement), "limited")
              summary == Summary(result.envelope)
              kept == CASE then = "Queue" -> result.envelope
                        [] then = "PayloadError" -> <<>>
                        [] then = "TraceSampled" -> sample_transaction(result.envelope)
              ended == IF result.envelope = <<>> THEN tracked       \* RateLimited
                       ELSE Fate(tracked, e, Counted(summary), "refused")
          IN  /\ requests' = [requests EXCEPT ![e] =
                   IF kept = <<>> THEN NoRequest("done")
                   ELSE [stage |-> "queue", envelope |-> kept, summary |-> summary]]
              /\ fates' = IF kept = <<>> THEN ended ELSE tracked
  /\ UNCHANGED <<mode, parts, active, captures>>

BufferFull_After == BufferSize < active

(* QueueEnvelope fails with TooManyEnvelopes.                              *)
BufferFull == BufferSize <= active

(* What QueueEnvelope queues: metrics have gone to the processor.          *)
Queued(envelope) == take_items_by(envelope, {item \in Items(envelope) : is_metric(item)})

(* Handler<QueueEnvelope>: metrics go to the processor, the other items    *)
(* are queued in one or two parts. If it fails, the HTTP handler emits     *)
(* outcomes for the envelope.                                              *)
QueueEnvelope(e) ==
  LET split == split_by(Queued(requests[e].envelope))
  IN  /\ requests[e].stage = "queue"
      /\ requests' = [requests EXCEPT ![e] = NoRequest("done")]
      /\ \/ /\ BufferFull
            /\ fates' = Fate(fates, e, Counted(requests[e].summary), "refused")
            /\ UNCHANGED <<parts, active>>
         \/ /\ ~BufferFull
            /\ parts' = [p \in Parts |->
                 CASE p = <<e, "event">> /\ split[1] # <<>> -> NewPart(split[1])
                   [] p = <<e, "other">> /\ split[2] # <<>> -> NewPart(split[2])
                   [] OTHER -> parts[p]]
            /\ active' = active + Cardinality({i \in {1, 2} : split[i] # <<>>})
            /\ fates' = Fate(fates, e, Counted(requests[e].summary)
                                         \ Counted(Summary(requests[e].envelope)), "removed")
      /\ UNCHANGED <<mode, captures>>

-----------------------------------------------------------------------------
(* The future of HandleEnvelope                                            *)

Goes(p, stage) == parts' = [parts EXCEPT ![p].stage = stage]

(* ProcessingError::to_outcome is None                                     *)
WithoutOutcome(error) == error \in {"RateLimited", "SendFailed"}

Outcome_NotInternal(error, received) == ~WithoutOutcome(error) /\ error # "Internal"

(* The condition for outcomes in map_err.                                  *)
Outcome(error, received) == ~WithoutOutcome(error) /\ ~received

Inactive_Forgotten == active

Inactive == active - 1

(* map, map_err and then: the future is over, with `error' or without. In  *)
(* stage rest it may leave a message behind that is still handled.         *)
Finish(p, error, received, rest, fs) ==
  LET e == p[1]
  IN  /\ parts' = [parts EXCEPT ![p] =
                     IF rest = "done" THEN NoPart("done")
                     ELSE [NoPart(rest) EXCEPT !.envelope = parts[p].envelope]]
      /\ active' = Inactive
      /\ captures' = [captures EXCEPT ![e] =
                        IF error # NoError /\ mode = "Capture" THEN "error" ELSE @]
      /\ fates' = IF error # NoError /\ Outcome(error, received)
                  THEN Fate(fs, e, Counted(parts[p].summary),
                            IF error = "Timeout" THEN "timeout" ELSE "failed")
                  ELSE fs

(* Handler<HandleEnvelope> sends CheckEnvelope::fetched.                   *)
HandleEnvelope(p) ==
  /\ parts[p].stage = "queued"
  /\ Goes(p, "check")
  /\ UNCHANGED <<mode, requests, active, captures, fates>>

(* Errors are told apart by their outcome and whether they are received.   *)
Kind(error) == IF error \in {NoError, "RateLimited", "SendFailed", "ResponseError"}
               THEN error ELSE "Internal"

(* A handler answers with `envelope' or `error'; nobody takes the answer   *)
(* if the future has timed out.                                            *)
Answer(p, stage, envelope, error) ==
  parts' = [parts EXCEPT ![p] =
              IF @.open THEN [@ EXCEPT !.stage = stage, !.envelope = envelope, !.error = Kind(error)]
              ELSE NoPart("done")]

(* Handler<CheckEnvelope> of ProjectCache once the state is there: see     *)
(* check_envelope_scoped, which tracks the outcomes of rate limits.        *)
CheckEnvelope(p) ==
  /\ parts[p].stage = "check"
  /\ \/ \E error \in {"ScheduleFailed", "ProjectFailed", "Rejected"} :
          Answer(p, "checked", parts[p].envelope, error) /\ UNCHANGED fates
     \/ \E limited \in SUBSET Relevant(parts[p].envelope, NoCategory) :
          LET result == enforce(parts[p].envelope, NoCategory, limited)
          IN  /\ Answer(p, "checked", result.envelope,
                        IF result.envelope = <<>> THEN "RateLimited" ELSE NoError)
              /\ fates' = Fate(fates, p[1], Limited(result.enforcement), "checked")
  /\ UNCHANGED <<mode, requests, active, captures>>

NewSummary_Stale(p) == parts[p].summary

(* envelope_summary.replace(EnvelopeSummary::compute(&envelope))           *)
NewSummary(p) == Summary(parts[p].envelope)

Checked(p) ==
  /\ parts[p].open /\ parts[p].stage = "checked"
  /\ \/ /\ parts[p].error # NoError
        /\ Finish(p, parts[p].error, FALSE, "done", fates)
     \/ /\ parts[p].error = NoError
        /\ parts' = [parts EXCEPT ![p].stage = "sample", ![p].summary = NewSummary(p)]
        /\ UNCHANGED <<active, captures, fates>>
  /\ UNCHANGED <<mode, requests>>

(* sample_trace: a part is empty once its transaction is dropped.          *)
SampleTrace(p) ==
  /\ parts[p].open /\ parts[p].stage = "sample"
  /\ \/ /\ Goes(p, "state")
        /\ UNCHANGED <<active, captures, fates>>
     \/ /\ sample_transaction(parts[p].envelope) = <<>>
        /\ Finish(p, "TraceSampled", FALSE, "done", fates)
  /\ UNCHANGED <<mode, requests>>

(* GetProjectState, then ProcessEnvelope is sent to a worker.              *)
GetProjectState(p) ==
  /\ parts[p].open /\ parts[p].stage = "state"
  /\ \/ /\ Goes(p, "process")
        /\ UNCHANGED <<active, captures, fates>>
     \/ Finish(p, "ProjectFailed", FALSE, "done", fates)
  /\ UNCHANGED <<mode, requests>>

(* Handler<ProcessEnvelope> on a worker thread. The metrics are part of    *)
(* the answer.                                                             *)
ProcessEnvelope(p) ==
  /\ parts[p].stage = "process"
  /\ \E result \in process_state(parts[p].envelope, mode = "Store") :
       /\ parts' = [parts EXCEPT ![p] =
                      IF @.open
                      THEN [@ EXCEPT !.stage = "processed", !.envelope = result.envelope,
                                     !.error = Kind(result.error)]
                      ELSE NoPart("done")]
       /\ LET tracked == Fate(fates, p[1], Limited(result.enforced), "quota")
              removed == (Counted(Summary(parts[p].envelope)) \ Counted(Summary(result.envelope)))
                           \ Limited(result.enforced)
          IN  fates' = IF result.error = NoError
                       THEN Fate(tracked, p[1], removed, "removed") ELSE tracked
  /\ UNCHANGED <<mode, requests, active, captures>>

(* The continuation, and send_envelope with what is left.                  *)
Processed(p) ==
  /\ parts[p].open /\ parts[p].stage = "processed"
  /\ \/ /\ parts[p].error # NoError
        /\ Finish(p, parts[p].error, FALSE, "done", fates)
     \/ /\ parts[p].error = NoError /\ parts[p].envelope = <<>>
        /\ Finish(p, "RateLimited", FALSE, "done", fates)
     \/ /\ parts[p].error = NoError /\ parts[p].envelope # <<>> /\ mode # "Capture"
        /\ parts' = [parts EXCEPT ![p] = [@ EXCEPT !.stage = "upstream",
                                                   !.summary = NewSummary(p)]]
        /\ UNCHANGED <<active, captures, fates>>
     \/ /\ parts[p].error = NoError /\ parts[p].envelope # <<>> /\ mode = "Capture"
        /\ parts' = [parts EXCEPT ![p] = NoPart("done")]
        /\ active' = Inactive
        /\ captures' = [captures EXCEPT ![p[1]] = "ok"]
        /\ fates' = Fate(fates, p[1], Counted(NewSummary(p)), "upstream")
  /\ UNCHANGED <<mode, requests>>

(* The upstream or Kafka takes the envelope, or not: "ResponseError"       *)
(* stands for an error with is_received().                                 *)
Upstream(p) ==
  /\ parts[p].stage = "upstream"
  /\ \E error \in {NoError, "ScheduleFailed"}
                     \cup (IF mode = "Store" THEN {"StoreFailed"}
                           ELSE {"RateLimited", "ResponseError", "SendFailed"}) :
       /\ Answer(p, "answered", parts[p].envelope, error)
       /\ fates' = CASE error \in {NoError, "RateLimited", "ResponseError"} ->
                          Fate(fates, p[1], Counted(Summary(parts[p].envelope)), "upstream")
                     [] error = "SendFailed" ->
                          Fate(fates, p[1], Counted(Summary(parts[p].envelope)), "unsent")
                     [] OTHER -> fates
  /\ UNCHANGED <<mode, requests, active, captures>>

Received(error) == error \in {NoError, "RateLimited", "ResponseError"}

(* The continuation of send_envelope stores is_received.                   *)
Answered(p) ==
  /\ parts[p].open /\ parts[p].stage = "answered"
  /\ Finish(p, parts[p].error, Received(parts[p].error), "done", fates)
  /\ UNCHANGED <<mode, requests>>

Outstanding_Any(p) == parts[p].stage

(* The stage a part is left in.                                            *)
Outstanding(p) == IF parts[p].stage \in Messages THEN parts[p].stage ELSE "done"

Timeout_Checking(p) ==
  /\ parts[p].open /\ parts[p].stage = "check"
  /\ Finish(p, "Timeout", FALSE, Outstanding(p), fates)
  /\ UNCHANGED <<mode, requests>>

(* envelope_buffer_expiry passes.                                          *)
Timeout(p) ==
  /\ parts[p].open /\ parts[p].stage # "queued"
  /\ Finish(p, "Timeout", FALSE, Outstanding(p), fates)
  /\ UNCHANGED <<mode, requests>>

Next ==
  \/ \E e \in Envelopes : HandleRequest(e) \/ QueueEnvelope(e)
  \/ \E p \in Parts :
       \/ HandleEnvelope(p) \/ CheckEnvelope(p) \/ Checked(p) \/ SampleTrace(p)
       \/ GetProjectState(p) \/ ProcessEnvelope(p) \/ Processed(p) \/ Upstream(p)
       \/ Answered(p) \/ Timeout(p)

Spec == Init /\ [][Next]_vars

(* The actor handles its messages and the timer of a future fires. Nothing *)
(* is assumed of the others.                                               *)
Fairness ==
  /\ \A e \in Envelopes : WF_vars(QueueEnvelope(e))
  /\ \A p \in Parts : WF_vars(HandleEnvelope(p)) /\ WF_vars(Timeout(p))

FairSpec == Spec /\ Fairness

-----------------------------------------------------------------------------
(* The properties.                                                         *)

(* active_envelopes counts the futures that have not ended: it is neither  *)
(* decremented twice for one of them (it would wrap around, and no         *)
(* envelope be accepted any more) nor forgotten, whatever times out.       *)
ActiveExact == active = Cardinality({p \in Parts : parts[p].open})

(* The buffer holds one envelope more than its size at most, since it is   *)
(* checked before an envelope is split.                                    *)
BufferBound == active <= BufferSize + 1

(* The buffer is accounted for.                                            *)
BufferExact == TypeOK /\ ActiveExact /\ BufferBound

(* Unless an envelope times out, nothing in it meets two ends: what has    *)
(* been rate limited at one place is not counted again at another, nor as  *)
(* failed later, and what the upstream has taken is not reported. A worker *)
(* that fails after it has enforced quotas is the exception: its answer is *)
(* an error, and does not say what has been limited. A timeout adds one    *)
(* end to the one that the message it leaves behind may still lead to.     *)
OneEnd ==
  \A e \in Envelopes : \A u \in Units(e) :
    \/ Cardinality(fates[e][u]) <= 1
    \/ fates[e][u] = {"quota", "failed"}
    \/ "timeout" \in fates[e][u] /\ Cardinality(fates[e][u]) = 2

Over(e) ==
  /\ requests[e].stage = "done"
  /\ \A p \in {<<e, "event">>, <<e, "other">>} : parts[p].stage \in {"none", "done"}

(* When all is over, everything in an envelope has met an end.             *)
NothingForgotten ==
  \A e \in Envelopes : \A u \in Counted(Summary(Content[e])) : Over(e) => fates[e][u] # {}

(* Everything in an envelope meets one end.                                *)
EndsOnce == OneEnd /\ NothingForgotten

(* Every envelope leaves the buffer, even if no answer ever comes.         *)
EnvelopeEnds == \A p \in Parts : parts[p].open ~> ~parts[p].open

(* The documentation of outcomes: "for every event exactly one outcome     *)
(* must be emitted in the entire ingestion pipeline", "Since Relay is only *)
(* one part in this pipeline, outcomes may not be emitted if the event is  *)
(* accepted." So no event is dropped without one.                          *)
DroppedWithOutcome ==
  \A e \in Envelopes : Over(e) => fates[e][<<EventUnit>>] # {"removed"}

=============================================================================
