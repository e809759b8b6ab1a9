----------------------- MODULE EnvelopeManagerProofs ------------------------
(***************************************************************************)
(* Proofs about EnvelopeManager for every set of envelopes, whatever items *)
(* they have, and every size of the buffer:                                *)
(*  - active_envelopes counts the futures that are under way, and the      *)
(*    buffer is never exceeded by more than one. What a worker makes of an *)
(*    envelope does not matter to that;                                    *)
(*  - the event and every attachment of an envelope meet one end. That     *)
(*    rests on what Envelope and EnvelopeProcessor do: what is taken from  *)
(*    an envelope and reported is what is no longer counted in it, and a   *)
(*    worker adds nothing that a client would miss;                        *)
(*  - the selectors of the rules that a worker scrubs events and files     *)
(*    with find what they stand for, for every path and selector;          *)
(*  - what the store forwarder writes of an envelope at the end of its way *)
(*    reassembles, for every envelope and size of a chunk;                 *)
(*  - an envelope that was accepted is written as a text that the next     *)
(*    Relay accepts as the same envelope, for every text of an envelope;   *)
(*  - what a worker stores of an event has times, attributes and tags that *)
(*    fit together, for every event and time of its receipt.               *)
(***************************************************************************)
EXTENDS EnvelopeManager, EnvelopeFormat, Normalize, Selectors, StoreForwarder, FiniteSetTheorems, TLAPS

-----------------------------------------------------------------------------
(* The inductive invariant.                                                *)

(* A future has the fields of a future, whatever they are.                 *)
IsPart(x) ==
  /\ x = [stage |-> x.stage, envelope |-> x.envelope, summary |-> x.summary,
          error |-> x.error, open |-> x.open]
  /\ x.open \in BOOLEAN
  /\ IF x.open THEN x.stage \in Stages ELSE x.stage \in {"none", "done"} \cup Messages

FatesOK(fs) ==
  /\ fs = [e \in Envelopes |-> fs[e]]
  /\ \A e \in Envelopes : fs[e] \in [Units(e) -> SUBSET Fates]

Shapes ==
  /\ mode \in Modes
  /\ requests = [e \in Envelopes |-> requests[e]]
  /\ \A e \in Envelopes : requests[e].stage \in {"new", "queue", "done"}
  /\ parts = [p \in Parts |-> parts[p]]
  /\ \A p \in Parts : IsPart(parts[p])
  /\ captures \in [Envelopes -> {"none", "ok", "error"}]
  /\ FatesOK(fates)

Open == {p \in Parts : parts[p].open}

Buffered ==
  /\ IsFiniteSet(Open) /\ active = Cardinality(Open)
  /\ active \in Nat /\ active <= BufferSize + 1

(* An envelope is queued once, so its parts are not there before.          *)
NotYetQueued ==
  \A e \in Envelopes : requests[e].stage # "done" =>
    ~parts[<<e, "event">>].open /\ ~parts[<<e, "other">>].open

Inv == Shapes /\ Buffered /\ NotYetQueued

-----------------------------------------------------------------------------
(* The kinds of steps.                                                     *)

LEMMA FateOK ==
  ASSUME NEW fs, FatesOK(fs), NEW e \in Envelopes, NEW us, NEW f \in Fates
  PROVE  FatesOK(Fate(fs, e, us, f))
<1> DEFINE g == [u \in Units(e) |-> IF u \in us THEN fs[e][u] \cup {f} ELSE fs[e][u]]
<1>1. g \in [Units(e) -> SUBSET Fates]
  <2>1. \A u \in Units(e) : fs[e][u] \in SUBSET Fates
    BY DEF FatesOK
  <2> QED
    BY <2>1
<1> HIDE DEF g
<1>2. Fate(fs, e, us, f) = [fs EXCEPT ![e] = g]
  BY DEF Fate, g
<1>3. QED
  BY <1>1, <1>2 DEF FatesOK

LEMMA PartWith ==
  ASSUME NEW x, IsPart(x), NEW envelope
  PROVE  IsPart([x EXCEPT !.envelope = envelope]) /\ [x EXCEPT !.envelope = envelope].open = x.open
<1> DEFINE v == [x EXCEPT !.envelope = envelope]
<1>1. x = [stage |-> x.stage, envelope |-> x.envelope, summary |-> x.summary,
           error |-> x.error, open |-> x.open]
  BY DEF IsPart
<1>2. v = [stage |-> x.stage, envelope |-> envelope, summary |-> x.summary,
           error |-> x.error, open |-> x.open]
  BY <1>1
<1> HIDE DEF v
<1>3. IsPart(v) /\ v.open = x.open
  BY <1>2 DEF IsPart
<1>4. QED
  BY <1>3 DEF v

LEMMA NoPartIsPart ==
  ASSUME NEW stage \in {"none", "done"} \cup Messages, NEW envelope
  PROVE  /\ IsPart(NoPart(stage)) /\ ~NoPart(stage).open
         /\ IsPart([NoPart(stage) EXCEPT !.envelope = envelope])
         /\ ~[NoPart(stage) EXCEPT !.envelope = envelope].open
<1>1. IsPart(NoPart(stage)) /\ NoPart(stage).open = FALSE
  BY DEF NoPart, IsPart
<1>2. QED
  BY <1>1, PartWith

LEMMA NewPartIsPart ==
  ASSUME NEW envelope
  PROVE  IsPart(NewPart(envelope)) /\ NewPart(envelope).open
BY DEF NewPart, IsPart, Stages

LEMMA PartOf ==
  ASSUME NEW p \in Parts
  PROVE  p[1] \in Envelopes
BY DEF Parts

(* A future, or the message it leaves behind, takes its next step.         *)
LEMMA PartMoves ==
  ASSUME Inv, NEW p \in Parts, NEW v, IsPart(v), v.open = parts[p].open,
         parts' = [parts EXCEPT ![p] = v], FatesOK(fates'),
         UNCHANGED <<mode, requests, active, captures>>
  PROVE  Inv'
<1>1. /\ parts'[p] = v /\ \A q \in Parts \ {p} : parts'[q] = parts[q]
      /\ parts' = [q \in Parts |-> parts'[q]]
  BY DEF Inv, Shapes
<1>2. Shapes'
  BY <1>1 DEF Inv, Shapes
<1>3. Open' = Open
  BY <1>1 DEF Open
<1>4. Buffered'
  BY <1>3 DEF Inv, Buffered
<1>5. \A q \in Parts : parts'[q].open = parts[q].open
  BY <1>1
<1>6. NotYetQueued'
  BY <1>5 DEF Inv, NotYetQueued, Parts
<1>7. QED
  BY <1>2, <1>4, <1>6 DEF Inv

(* A future is over, and the counter of active envelopes falls.            *)
LEMMA PartEnds ==
  ASSUME Inv, NEW p \in Parts, NEW v, IsPart(v), parts[p].open, ~v.open,
         parts' = [parts EXCEPT ![p] = v], FatesOK(fates'), active' = active - 1,
         captures' \in [Envelopes -> {"none", "ok", "error"}],
         UNCHANGED <<mode, requests>>
  PROVE  Inv'
<1>1. /\ parts'[p] = v /\ \A q \in Parts \ {p} : parts'[q] = parts[q]
      /\ parts' = [q \in Parts |-> parts'[q]]
  BY DEF Inv, Shapes
<1>2. Shapes'
  BY <1>1 DEF Inv, Shapes
<1>3. Open' = Open \ {p} /\ p \in Open
  BY <1>1 DEF Open
<1>4. Buffered'
  <2>1. IsFiniteSet(Open') /\ Cardinality(Open') = Cardinality(Open) - 1
    BY <1>3, FS_RemoveElement DEF Inv, Buffered
  <2>2. Cardinality(Open') \in Nat
    BY <2>1, FS_CardinalityType
  <2> QED
    BY <2>1, <2>2, BufferAssumption DEF Inv, Buffered
<1>5. \A q \in Parts : parts'[q].open => parts[q].open
  BY <1>1
<1>6. NotYetQueued'
  BY <1>5 DEF Inv, NotYetQueued, Parts
<1>7. QED
  BY <1>2, <1>4, <1>6 DEF Inv

LEMMA FinishEnds ==
  ASSUME Inv, NEW p \in Parts, parts[p].open, NEW error, NEW received,
         NEW rest \in {"done"} \cup Messages, Finish(p, error, received, rest, fates),
         UNCHANGED <<mode, requests>>
  PROVE  Inv'
<1> DEFINE v == IF rest = "done" THEN NoPart("done")
                ELSE [NoPart(rest) EXCEPT !.envelope = parts[p].envelope]
<1>1. IsPart(v) /\ ~v.open
  BY NoPartIsPart
<1>2. parts' = [parts EXCEPT ![p] = v] /\ active' = active - 1
  BY DEF Finish, Inactive
<1> HIDE DEF v
<1>3. captures' \in [Envelopes -> {"none", "ok", "error"}]
  BY DEF Finish, Inv, Shapes
<1>4. FatesOK(fates')
  BY FateOK, PartOf DEF Finish, Fates, Inv, Shapes
<1>5. QED
  BY <1>1, <1>2, <1>3, <1>4, PartEnds

LEMMA AnswerMoves ==
  ASSUME Inv, NEW p \in Parts, NEW stage \in Stages, NEW envelope, NEW error,
         Answer(p, stage, envelope, error), FatesOK(fates'),
         UNCHANGED <<mode, requests, active, captures>>
  PROVE  Inv'
<1> DEFINE x == parts[p]
           v == IF x.open
                THEN [x EXCEPT !.stage = stage, !.envelope = envelope, !.error = Kind(error)]
                ELSE NoPart("done")
<1>1. IsPart(x)
  BY DEF Inv, Shapes
<1>2. IsPart(v) /\ v.open = x.open
  <2>1. CASE x.open
    BY <1>1, <2>1 DEF IsPart
  <2>2. CASE ~x.open
    BY <1>1, <2>2, NoPartIsPart DEF IsPart, NoPart
  <2> QED
    BY <2>1, <2>2
<1>3. parts' = [parts EXCEPT ![p] = v]
  BY DEF Answer
<1> HIDE DEF v
<1>4. QED
  BY <1>2, <1>3, PartMoves

LEMMA GoesMoves ==
  ASSUME Inv, NEW p \in Parts, parts[p].open, NEW stage \in Stages, Goes(p, stage),
         UNCHANGED <<mode, requests, active, captures, fates>>
  PROVE  Inv'
<1> DEFINE x == parts[p]
           v == [x EXCEPT !.stage = stage]
<1>1. IsPart(x) /\ x.open /\ FatesOK(fates')
  BY DEF Inv, Shapes
<1>2. IsPart(v) /\ v.open = x.open
  <2> HIDE DEF x
  <2>1. x = [stage |-> x.stage, envelope |-> x.envelope, summary |-> x.summary,
             error |-> x.error, open |-> x.open]
    BY <1>1 DEF IsPart
  <2>2. v = [stage |-> stage, envelope |-> x.envelope, summary |-> x.summary,
             error |-> x.error, open |-> x.open]
    BY <2>1
  <2> HIDE DEF v
  <2> QED
    BY <1>1, <2>1, <2>2 DEF IsPart
<1>3. parts' = [parts EXCEPT ![p] = v]
  BY DEF Goes, Inv, Shapes
<1> HIDE DEF v
<1>4. QED
  BY <1>1, <1>2, <1>3, PartMoves

-----------------------------------------------------------------------------
(* The actions.                                                            *)

(* The HTTP handler has not queued the envelope yet.                       *)
LEMMA RequestMoves ==
  ASSUME Inv, NEW e \in Envelopes, requests[e].stage # "done",
         requests' = [d \in Envelopes |-> requests'[d]],
         requests'[e].stage \in {"queue", "done"},
         \A d \in Envelopes \ {e} : requests'[d] = requests[d],
         FatesOK(fates'), UNCHANGED <<mode, parts, active, captures>>
  PROVE  Inv'
<1>1. Shapes'
  BY DEF Inv, Shapes
<1>2. Buffered' /\ NotYetQueued'
  BY DEF Inv, Buffered, Open, NotYetQueued
<1>3. QED
  BY <1>1, <1>2 DEF Inv

LEMMA HandleRequestInv ==
  ASSUME Inv, NEW e \in Envelopes, HandleRequest(e)
  PROVE  Inv'
<1>1. FatesOK(fates) /\ requests[e].stage # "done" /\ UNCHANGED <<mode, parts, active, captures>>
  BY DEF Inv, Shapes, HandleRequest
<1>2. PICK r : r.stage \in {"queue", "done"} /\ requests' = [requests EXCEPT ![e] = r]
  <2>1. NoRequest("done").stage = "done"
    BY DEF NoRequest
  <2>2. \A k, s : [stage |-> "queue", envelope |-> k, summary |-> s].stage = "queue"
    OBVIOUS
  <2> QED
    BY <2>1, <2>2 DEF HandleRequest
<1> /\ requests'[e] = r /\ \A d \in Envelopes \ {e} : requests'[d] = requests[d]
    /\ requests' = [d \in Envelopes |-> requests'[d]]
  BY <1>2 DEF Inv, Shapes
<1>3. \A us : FatesOK(Fate(fates, e, us, "refused")) /\ FatesOK(Fate(fates, e, us, "limited"))
  BY <1>1, FateOK DEF Fates
<1>4. \A us, ts : FatesOK(Fate(Fate(fates, e, us, "limited"), e, ts, "refused"))
  BY <1>3, FateOK DEF Fates
<1>5. \/ \E us, f : f \in {"refused", "limited"} /\ fates' = Fate(fates, e, us, f)
      \/ \E us, ts : fates' = Fate(Fate(fates, e, us, "limited"), e, ts, "refused")
  BY DEF HandleRequest
<1>6. FatesOK(fates')
  BY <1>3, <1>4, <1>5
<1>7. QED
  BY <1>1, <1>2, <1>6, RequestMoves

(* An accepted envelope opens one part or two, and the counter follows.    *)
LEMMA QueueEnvelopeInv ==
  ASSUME Inv, NEW e \in Envelopes, QueueEnvelope(e)
  PROVE  Inv'
<1> DEFINE ev == <<e, "event">>
           ot == <<e, "other">>
           split == split_by(Queued(requests[e].envelope))
<1>1. /\ requests[e].stage = "queue" /\ UNCHANGED <<mode, captures>>
      /\ requests' = [requests EXCEPT ![e] = NoRequest("done")]
  BY DEF QueueEnvelope
<1>2. /\ requests'[e].stage = "done" /\ \A d \in Envelopes \ {e} : requests'[d] = requests[d]
      /\ requests' = [d \in Envelopes |-> requests'[d]]
  BY <1>1 DEF Inv, Shapes, NoRequest
<1>3. FatesOK(fates')
  BY FateOK DEF QueueEnvelope, Inv, Shapes, Fates
<1>4. CASE UNCHANGED <<parts, active>>
  BY <1>1, <1>2, <1>3, <1>4, RequestMoves
<1>5. ASSUME ~BufferFull,
             parts' = [p \in Parts |-> CASE p = ev /\ split[1] # <<>> -> NewPart(split[1])
                                         [] p = ot /\ split[2] # <<>> -> NewPart(split[2])
                                         [] OTHER -> parts[p]],
             active' = active + Cardinality({i \in {1, 2} : split[i] # <<>>})
      PROVE  Inv'
  <2> DEFINE one == split[1] # <<>>
             two == split[2] # <<>>
  <2>1. ev \in Parts /\ ot \in Parts /\ ev # ot
    BY DEF Parts
  <2>2. ~parts[ev].open /\ ~parts[ot].open
    BY <1>1 DEF Inv, NotYetQueued
  <2>3. ASSUME NEW p \in Parts
        PROVE  /\ p = ev /\ one => IsPart(parts'[p]) /\ parts'[p].open
               /\ p = ot /\ two => IsPart(parts'[p]) /\ parts'[p].open
               /\ ~(p = ev /\ one) /\ ~(p = ot /\ two) => parts'[p] = parts[p]
    <3>1. p = ev /\ one => parts'[p] = NewPart(split[1])
      BY <1>5, <2>1
    <3>2. p = ot /\ two => parts'[p] = NewPart(split[2])
      BY <1>5, <2>1
    <3>3. ~(p = ev /\ one) /\ ~(p = ot /\ two) => parts'[p] = parts[p]
      BY <1>5, <2>1
    <3> QED
      BY <3>1, <3>2, <3>3, NewPartIsPart
  <2>4. parts' = [p \in Parts |-> parts'[p]]
    BY <1>5
  <2> DEFINE I == {i \in {1, 2} : split[i] # <<>>}
  <2>5. Cardinality(I) = (IF one THEN 1 ELSE 0) + (IF two THEN 1 ELSE 0)
    <3>1. Cardinality({}) = 0
      BY FS_EmptySet
    <3>2. IsFiniteSet({1}) /\ Cardinality({1}) = 1 /\ Cardinality({2}) = 1
      BY FS_Singleton
    <3>3. Cardinality({1} \cup {2}) = 2
      <4>1. Cardinality({1} \cup {2}) = Cardinality({1}) + 1
        BY <3>2, FS_AddElement
      <4> QED
        BY <3>2, <4>1
    <3>4. /\ one /\ two => I = {1} \cup {2}
          /\ one /\ ~two => I = {1}
          /\ ~one /\ two => I = {2}
          /\ ~one /\ ~two => I = {}
      <4> HIDE DEF split
      <4> QED
        OBVIOUS
    <3> HIDE DEF one, two, I
    <3>5. CASE one /\ two
      BY <3>3, <3>4, <3>5
    <3>6. CASE one /\ ~two
      BY <3>2, <3>4, <3>6
    <3>7. CASE ~one /\ two
      BY <3>2, <3>4, <3>7
    <3>8. CASE ~one /\ ~two
      BY <3>1, <3>4, <3>8
    <3> QED
      BY <3>5, <3>6, <3>7, <3>8
  <2> HIDE DEF I
  <2> HIDE DEF split, one, two, ev, ot
  <2>6. Open' = Open \cup (IF one THEN {ev} ELSE {}) \cup (IF two THEN {ot} ELSE {})
    BY <2>1, <2>3 DEF Open
  <2>7. ev \notin Open /\ ot \notin Open /\ IsFiniteSet(Open) /\ Cardinality(Open) \in Nat
    BY <2>2, FS_CardinalityType DEF Open, Inv, Buffered
  <2>8. IsFiniteSet(Open') /\ Cardinality(Open') = Cardinality(Open) + (IF one THEN 1 ELSE 0) + (IF two THEN 1 ELSE 0)
    <3> DEFINE first == Open \cup (IF one THEN {ev} ELSE {})
    <3>1. /\ IsFiniteSet(first) /\ Cardinality(first) = Cardinality(Open) + (IF one THEN 1 ELSE 0)
          /\ ot \notin first
      <4>1. CASE one
        BY <2>1, <2>7, <4>1, FS_AddElement
      <4>2. CASE ~one
        BY <2>7, <4>2
      <4> QED
        BY <4>1, <4>2
    <3>2. Open' = first \cup (IF two THEN {ot} ELSE {})
      BY <2>6
    <3>3. Cardinality(first) \in Nat
      BY <3>1, FS_CardinalityType
    <3> HIDE DEF first
    <3>4. CASE two
      <4>1. IsFiniteSet(Open') /\ Cardinality(Open') = Cardinality(first) + 1
        BY <3>1, <3>2, <3>4, FS_AddElement
      <4> QED
        BY <2>7, <3>1, <3>4, <4>1
    <3>5. CASE ~two
      BY <2>7, <3>1, <3>2, <3>5
    <3> QED
      BY <3>4, <3>5
  <2>9. Buffered'
    <3>1. active = Cardinality(Open) /\ active \in Nat /\ active < BufferSize
      BY <1>5, BufferAssumption DEF Inv, Buffered, BufferFull
    <3>2. active' = active + ((IF one THEN 1 ELSE 0) + (IF two THEN 1 ELSE 0))
      BY <1>5, <2>5 DEF I
    <3> QED
      BY <2>7, <2>8, <3>1, <3>2, BufferAssumption DEF Buffered
  <2>10. Shapes'
    BY <1>1, <1>2, <1>3, <2>3, <2>4 DEF Inv, Shapes
  <2>11. NotYetQueued'
    <3> SUFFICES ASSUME NEW d \in Envelopes, requests'[d].stage # "done"
                 PROVE  ~parts'[<<d, "event">>].open /\ ~parts'[<<d, "other">>].open
      BY DEF NotYetQueued
    <3>1. d # e /\ requests[d].stage # "done"
      BY <1>2
    <3>2. /\ <<d, "event">> \in Parts /\ <<d, "other">> \in Parts
          /\ <<d, "event">> \notin {ev, ot} /\ <<d, "other">> \notin {ev, ot}
      BY <3>1 DEF Parts, ev, ot
    <3> QED
      BY <2>3, <3>1, <3>2 DEF Inv, NotYetQueued
  <2> QED
    BY <2>9, <2>10, <2>11 DEF Inv
<1>6. QED
  BY <1>4, <1>5 DEF QueueEnvelope

(* A future gets a new summary along with its next stage.                  *)
LEMMA PartSummed ==
  ASSUME NEW x, IsPart(x), x.open = TRUE, NEW stage \in Stages, NEW summary
  PROVE  /\ IsPart([x EXCEPT !.stage = stage, !.summary = summary])
         /\ [x EXCEPT !.stage = stage, !.summary = summary].open
<1> DEFINE v == [x EXCEPT !.stage = stage, !.summary = summary]
           w == [x EXCEPT !.stage = stage]
<1>1. x = [stage |-> x.stage, envelope |-> x.envelope, summary |-> x.summary,
           error |-> x.error, open |-> x.open]
  BY DEF IsPart
<1>2. w = [stage |-> stage, envelope |-> x.envelope, summary |-> x.summary,
           error |-> x.error, open |-> x.open]
  BY <1>1
<1>3. v = [w EXCEPT !.summary = summary]
  BY <1>1
<1> HIDE DEF v, w
<1>4. v = [stage |-> stage, envelope |-> x.envelope, summary |-> summary,
           error |-> x.error, open |-> x.open]
  BY <1>2, <1>3
<1>5. IsPart(v) /\ v.open
  BY <1>4 DEF IsPart
<1>6. QED
  BY <1>5 DEF v

(* The continuations that may end a future or send its next message.       *)
LEMMA CheckedInv ==
  ASSUME Inv, NEW p \in Parts, Checked(p)
  PROVE  Inv'
<1>1. parts[p].open /\ UNCHANGED <<mode, requests>>
  BY DEF Checked
<1>2. CASE Finish(p, parts[p].error, FALSE, "done", fates)
  BY <1>1, <1>2, FinishEnds
<1>3. CASE /\ parts' = [parts EXCEPT ![p].stage = "sample", ![p].summary = NewSummary(p)]
           /\ UNCHANGED <<active, captures, fates>>
  <2> DEFINE x == parts[p]
             v == [x EXCEPT !.stage = "sample", !.summary = NewSummary(p)]
  <2>1. IsPart(x) /\ x.open /\ FatesOK(fates')
    BY <1>1, <1>3 DEF Inv, Shapes
  <2>2. parts' = [parts EXCEPT ![p] = v]
    BY <1>3 DEF Inv, Shapes
  <2>3. "sample" \in Stages /\ x.open = TRUE
    BY <2>1 DEF Stages, Messages, IsPart
  <2>4. IsPart(v) /\ v.open
    <3> HIDE DEF x
    <3> QED
      BY <2>1, <2>3, PartSummed
  <2> HIDE DEF v
  <2> QED
    BY <1>1, <1>3, <2>1, <2>2, <2>3, <2>4, PartMoves
<1>4. QED
  BY <1>2, <1>3 DEF Checked

LEMMA SampleTraceInv ==
  ASSUME Inv, NEW p \in Parts, SampleTrace(p) \/ GetProjectState(p)
  PROVE  Inv'
<1>1. parts[p].open /\ UNCHANGED <<mode, requests>>
  BY DEF SampleTrace, GetProjectState
<1>2. ASSUME NEW error, Finish(p, error, FALSE, "done", fates)
      PROVE  Inv'
  BY <1>1, <1>2, FinishEnds
<1>3. ASSUME NEW stage \in {"state", "process"}, Goes(p, stage), UNCHANGED <<active, captures, fates>>
      PROVE  Inv'
  BY <1>1, <1>3, GoesMoves DEF Stages, Messages
<1>4. QED
  BY <1>2, <1>3 DEF SampleTrace, GetProjectState

LEMMA CheckEnvelopeInv ==
  ASSUME Inv, NEW p \in Parts, CheckEnvelope(p)
  PROVE  Inv'
<1>1. UNCHANGED <<mode, requests, active, captures>>
  BY DEF CheckEnvelope
<1>2. PICK envelope, error : Answer(p, "checked", envelope, error)
  BY DEF CheckEnvelope
<1>3. FatesOK(fates')
  BY FateOK, PartOf DEF CheckEnvelope, Inv, Shapes, Fates
<1>4. QED
  BY <1>1, <1>2, <1>3, AnswerMoves DEF Stages

LEMMA UpstreamInv ==
  ASSUME Inv, NEW p \in Parts, Upstream(p)
  PROVE  Inv'
<1>1. UNCHANGED <<mode, requests, active, captures>>
  BY DEF Upstream
<1>2. PICK error : /\ Answer(p, "answered", parts[p].envelope, error)
                   /\ fates' = CASE error \in {NoError, "RateLimited", "ResponseError"} ->
                          Fate(fates, p[1], Counted(Summary(parts[p].envelope)), "upstream")
                     [] error = "SendFailed" ->
                          Fate(fates, p[1], Counted(Summary(parts[p].envelope)), "unsent")
                     [] OTHER -> fates
  BY DEF Upstream
<1>3. /\ FatesOK(fates)
      /\ \A us : FatesOK(Fate(fates, p[1], us, "upstream")) /\ FatesOK(Fate(fates, p[1], us, "unsent"))
  BY FateOK, PartOf DEF Inv, Shapes, Fates
<1>4. FatesOK(fates')
  BY <1>2, <1>3 DEF NoError
<1>5. QED
  BY <1>1, <1>2, <1>4, AnswerMoves DEF Stages

LEMMA ProcessEnvelopeInv ==
  ASSUME Inv, NEW p \in Parts, ProcessEnvelope(p)
  PROVE  Inv'
<1>1. UNCHANGED <<mode, requests, active, captures>>
  BY DEF ProcessEnvelope
<1>2. PICK envelope, error : Answer(p, "processed", envelope, error)
  BY DEF ProcessEnvelope, Answer
<1>3. \A us, ts : /\ FatesOK(Fate(fates, p[1], us, "quota"))
                  /\ FatesOK(Fate(Fate(fates, p[1], us, "quota"), p[1], ts, "removed"))
  BY FateOK, PartOf DEF Inv, Shapes, Fates
<1>4. FatesOK(fates')
  BY <1>3 DEF ProcessEnvelope
<1>5. QED
  BY <1>1, <1>2, <1>4, AnswerMoves DEF Stages

LEMMA ProcessedInv ==
  ASSUME Inv, NEW p \in Parts, Processed(p)
  PROVE  Inv'
<1>1. parts[p].open /\ UNCHANGED <<mode, requests>>
  BY DEF Processed
<1>2. ASSUME NEW error, Finish(p, error, FALSE, "done", fates)
      PROVE  Inv'
  BY <1>1, <1>2, FinishEnds
<1>3. CASE /\ parts' = [parts EXCEPT ![p] = [parts[p] EXCEPT !.stage = "upstream", !.summary = NewSummary(p)]]
           /\ UNCHANGED <<active, captures, fates>>
  <2> DEFINE x == parts[p]
             v == [x EXCEPT !.stage = "upstream", !.summary = NewSummary(p)]
  <2>1. IsPart(x) /\ x.open /\ FatesOK(fates')
    BY <1>1, <1>3 DEF Inv, Shapes
  <2>2. parts' = [parts EXCEPT ![p] = v]
    BY <1>3
  <2>3. "upstream" \in Stages /\ x.open = TRUE
    BY <2>1 DEF Stages, Messages, IsPart
  <2>4. IsPart(v) /\ v.open
    <3> HIDE DEF x
    <3> QED
      BY <2>1, <2>3, PartSummed
  <2> HIDE DEF v
  <2> QED
    BY <1>1, <1>3, <2>1, <2>2, <2>3, <2>4, PartMoves
<1>4. CASE /\ parts' = [parts EXCEPT ![p] = NoPart("done")]
           /\ active' = Inactive
           /\ captures' = [captures EXCEPT ![p[1]] = "ok"]
           /\ fates' = Fate(fates, p[1], Counted(NewSummary(p)), "upstream")
  <2>1. FatesOK(fates')
    BY <1>4, FateOK, PartOf DEF Inv, Shapes, Fates
  <2>2. captures' \in [Envelopes -> {"none", "ok", "error"}]
    BY <1>4, PartOf DEF Inv, Shapes
  <2>3. IsPart(NoPart("done")) /\ ~NoPart("done").open
    BY NoPartIsPart
  <2>4. active' = active - 1
    BY <1>4 DEF Inactive
  <2> QED
    BY <1>1, <1>4, <2>1, <2>2, <2>3, <2>4, PartEnds
<1>5. QED
  BY <1>2, <1>3, <1>4 DEF Processed

LEMMA NextInv == Inv /\ [Next]_vars => Inv'
<1> SUFFICES ASSUME Inv, [Next]_vars PROVE Inv'
  OBVIOUS
<1>1. ASSUME NEW p \in Parts, HandleEnvelope(p)
      PROVE  Inv'
  <2>1. parts[p].open
    BY <1>1 DEF HandleEnvelope, Inv, Shapes, IsPart, Messages
  <2> QED
    BY <1>1, <2>1, GoesMoves DEF HandleEnvelope, Stages, Messages
<1>2. ASSUME NEW p \in Parts, Answered(p)
      PROVE  Inv'
  BY <1>2, FinishEnds DEF Answered
<1>3. ASSUME NEW p \in Parts, Timeout(p)
      PROVE  Inv'
  <2>1. Outstanding(p) \in {"done"} \cup Messages
    BY DEF Outstanding
  <2> QED
    BY <1>3, <2>1, FinishEnds DEF Timeout
<1>4. CASE UNCHANGED vars
  BY <1>4 DEF vars, Inv, Shapes, Buffered, Open, NotYetQueued
<1>5. QED
  BY <1>1, <1>2, <1>3, <1>4, HandleRequestInv, QueueEnvelopeInv, CheckEnvelopeInv, CheckedInv,
     SampleTraceInv, ProcessEnvelopeInv, ProcessedInv, UpstreamInv DEF Next

LEMMA InitInv == Init => Inv
<1> SUFFICES ASSUME Init PROVE Inv
  OBVIOUS
<1>1. IsPart(NoPart("none")) /\ ~NoPart("none").open
  BY NoPartIsPart
<1>2. FatesOK(fates)
  BY DEF Init, FatesOK
<1>3. Shapes
  BY <1>1, <1>2 DEF Init, Shapes
<1>4. Open = {}
  BY <1>1 DEF Init, Open
<1>5. Buffered
  BY <1>4, FS_EmptySet, BufferAssumption DEF Init, Buffered
<1>6. NotYetQueued
  BY <1>1 DEF Init, NotYetQueued, Parts
<1>7. QED
  BY <1>3, <1>5, <1>6 DEF Inv

(* However envelopes are split, answered, timed out and finished, the      *)
(* counter of active envelopes is the number of futures under way. It      *)
(* neither wraps around nor leaks, and exceeds the size of the buffer by   *)
(* one at most.                                                            *)
THEOREM BufferStaysExact == Spec => []BufferExact
<1>1. Inv => BufferExact
  BY DEF Inv, Shapes, IsPart, FatesOK, Buffered, Open, BufferExact, TypeOK, ActiveExact, BufferBound
<1>2. QED
  BY <1>1, InitInv, NextInv, PTL DEF Spec

-----------------------------------------------------------------------------
(* Envelopes as sequences.                                                 *)

(* How many of some indices are not above i.                               *)
Rank(at, i) == Cardinality({j \in at : j <= i})

(* Every number up to the size of a set of indices is the rank of one.     *)
LEMMA Ranks ==
  ASSUME NEW n \in Nat, NEW at \in SUBSET (1 .. n)
  PROVE  /\ Cardinality(at) \in Nat
         /\ \A i \in at : Rank(at, i) \in 1 .. Cardinality(at)
         /\ \A k \in 1 .. Cardinality(at) : \E i \in at : Rank(at, i) = k
         /\ \A i, j \in at : Rank(at, i) = Rank(at, j) => i = j
<1> DEFINE upto(i) == {j \in at : j <= i}
           rank == [i \in at |-> Rank(at, i)]
<1>1. IsFiniteSet(at) /\ Cardinality(at) \in Nat
  <2>1. IsFiniteSet(1 .. n)
    BY FS_Interval
  <2> QED
    BY <2>1, FS_Subset, FS_CardinalityType
<1>2. ASSUME NEW i \in at PROVE Rank(at, i) \in 1 .. Cardinality(at)
  <2>1. upto(i) \in SUBSET at /\ i \in upto(i)
    OBVIOUS
  <2> HIDE DEF upto
  <2>2. IsFiniteSet(upto(i)) /\ Cardinality(upto(i)) \in Nat /\ Cardinality(upto(i)) <= Cardinality(at)
    BY <1>1, <2>1, FS_Subset, FS_CardinalityType
  <2>3. Cardinality(upto(i)) # 0
    BY <2>1, <2>2, FS_EmptySet
  <2>4. Rank(at, i) = Cardinality(upto(i))
    BY DEF Rank, upto
  <2> QED
    BY <1>1, <2>2, <2>3, <2>4
<1>3. ASSUME NEW i \in at, NEW j \in at, i < j
      PROVE  Rank(at, i) # Rank(at, j)
  <2>1. upto(j) \in SUBSET at /\ upto(i) \in SUBSET upto(j) /\ j \in upto(j) /\ j \notin upto(i)
    <3>1. \A k \in at : k <= i => k <= j
      BY <1>3
    <3>2. j \in upto(j) /\ j \notin upto(i)
      BY <1>3
    <3> QED
      BY <3>1, <3>2
  <2> HIDE DEF upto
  <2>2. IsFiniteSet(upto(j))
    BY <1>1, <2>1, FS_Subset
  <2>3. Cardinality(upto(i)) # Cardinality(upto(j))
    BY <2>1, <2>2, FS_Subset
  <2> QED
    BY <2>3 DEF Rank, upto
<1>4. ASSUME NEW i \in at, NEW j \in at, Rank(at, i) = Rank(at, j)
      PROVE  i = j
  BY <1>3, <1>4
<1>5. rank \in Injection(at, 1 .. Cardinality(at))
  <2>1. rank \in [at -> 1 .. Cardinality(at)]
    BY <1>2
  <2>2. \A i, j \in at : rank[i] = rank[j] => i = j
    BY <1>4
  <2> HIDE DEF rank
  <2> QED
    BY <2>1, <2>2 DEF Injection, IsInjective
<1>6. rank \in Surjection(at, 1 .. Cardinality(at))
  <2>1. IsFiniteSet(1 .. Cardinality(at)) /\ Cardinality(1 .. Cardinality(at)) = Cardinality(at)
    BY <1>1, FS_Interval
  <2> HIDE DEF rank
  <2> QED
    BY <1>5, <2>1, FS_Injection
<1>7. ASSUME NEW k \in 1 .. Cardinality(at) PROVE \E i \in at : Rank(at, i) = k
  BY <1>6 DEF Surjection
<1>8. QED
  BY <1>1, <1>2, <1>4, <1>7

(* What stays of an envelope.                                              *)
LEMMA RetainItems ==
  ASSUME NEW S, NEW s \in Seq(S), NEW kept
  PROVE  /\ retain_items(s, kept) \in Seq(S)
         /\ Items(retain_items(s, kept)) = Items(s) \cap kept
<1> DEFINE at == {i \in DOMAIN s : s[i] \in kept}
           index(k) == CHOOSE i \in at : Rank(at, i) = k
<1>1. Len(s) \in Nat /\ DOMAIN s = 1 .. Len(s) /\ at \in SUBSET (1 .. Len(s))
  OBVIOUS
<1> HIDE DEF at
<1>2. /\ Cardinality(at) \in Nat
      /\ \A i \in at : Rank(at, i) \in 1 .. Cardinality(at)
      /\ \A k \in 1 .. Cardinality(at) : \E i \in at : Rank(at, i) = k
      /\ \A i, j \in at : Rank(at, i) = Rank(at, j) => i = j
  BY <1>1, Ranks
<1>3. retain_items(s, kept) = [k \in 1 .. Cardinality(at) |-> s[index(k)]]
  BY DEF retain_items, at, Rank
<1>4. ASSUME NEW k \in 1 .. Cardinality(at) PROVE index(k) \in at /\ Rank(at, index(k)) = k
  BY <1>2
<1>5. ASSUME NEW i \in at PROVE index(Rank(at, i)) = i
  <2>1. Rank(at, i) \in 1 .. Cardinality(at)
    BY <1>2
  <2>2. index(Rank(at, i)) \in at /\ Rank(at, index(Rank(at, i))) = Rank(at, i)
    BY <1>4, <2>1
  <2> QED
    BY <1>2, <2>2
<1> HIDE DEF index
<1>6. \A i \in at : i \in 1 .. Len(s) /\ s[i] \in kept /\ s[i] \in S
  BY <1>1 DEF at
<1>7. retain_items(s, kept) \in Seq(S)
  BY <1>2, <1>3, <1>4, <1>6
<1>8. Items(retain_items(s, kept)) = {s[index(k)] : k \in 1 .. Cardinality(at)}
  BY <1>3 DEF Items
<1>9. Items(s) \cap kept = {s[i] : i \in at}
  BY <1>1 DEF Items, at
<1>10. \A i \in at : s[i] \in {s[index(k)] : k \in 1 .. Cardinality(at)}
  BY <1>2, <1>5
<1>11. QED
  BY <1>4, <1>7, <1>8, <1>9, <1>10

(* The rank of an index from the end.                                      *)
BackRank(at, i) == Cardinality({j \in at : i <= j})

LEMMA BackRanks ==
  ASSUME NEW n \in Nat, NEW at \in SUBSET (1 .. n)
  PROVE  /\ \A i \in at : BackRank(at, i) = Cardinality(at) + 1 - Rank(at, i)
         /\ \A k \in 1 .. Cardinality(at) : \E i \in at : BackRank(at, i) = k
         /\ \A i, j \in at : BackRank(at, i) = BackRank(at, j) => i = j
<1>1. IsFiniteSet(at) /\ Cardinality(at) \in Nat
  <2>1. IsFiniteSet(1 .. n)
    BY FS_Interval
  <2> QED
    BY <2>1, FS_Subset, FS_CardinalityType
<1>2. /\ \A i \in at : Rank(at, i) \in 1 .. Cardinality(at)
      /\ \A k \in 1 .. Cardinality(at) : \E i \in at : Rank(at, i) = k
      /\ \A i, j \in at : Rank(at, i) = Rank(at, j) => i = j
  BY Ranks
<1>3. ASSUME NEW i \in at PROVE BackRank(at, i) = Cardinality(at) + 1 - Rank(at, i)
  <2> DEFINE upto == {j \in at : j <= i}
             from == {j \in at : i <= j}
  <2>1. upto \cup from = at /\ upto \cap from = {i}
    <3>1. \A j \in at : (j <= i \/ i <= j) /\ (j <= i /\ i <= j => j = i) /\ i <= i
      OBVIOUS
    <3> QED
      BY <3>1
  <2>2. Rank(at, i) = Cardinality(upto) /\ BackRank(at, i) = Cardinality(from)
    BY DEF Rank, BackRank
  <2>3. upto \in SUBSET at /\ from \in SUBSET at
    OBVIOUS
  <2> HIDE DEF upto, from
  <2>4. IsFiniteSet(upto) /\ IsFiniteSet(from)
    BY <1>1, <2>3, FS_Subset
  <2>5. Cardinality(upto) \in Nat /\ Cardinality(from) \in Nat
    BY <2>4, FS_CardinalityType
  <2>6. Cardinality({i}) = 1
    BY FS_Singleton
  <2>7. Cardinality(at) = Cardinality(upto) + Cardinality(from) - 1
    BY <2>1, <2>4, <2>6, FS_Union
  <2> QED
    BY <1>1, <2>2, <2>5, <2>7
<1>4. ASSUME NEW k \in 1 .. Cardinality(at) PROVE \E i \in at : BackRank(at, i) = k
  <2>1. Cardinality(at) + 1 - k \in 1 .. Cardinality(at)
    BY <1>1
  <2>2. PICK i \in at : Rank(at, i) = Cardinality(at) + 1 - k
    BY <1>2, <2>1
  <2>3. BackRank(at, i) = k
    BY <1>1, <1>3, <2>2
  <2> QED
    BY <2>3
<1>5. ASSUME NEW i \in at, NEW j \in at, BackRank(at, i) = BackRank(at, j) PROVE i = j
  <2>1. Rank(at, i) \in Nat /\ Rank(at, j) \in Nat
    BY <1>1, <1>2
  <2>2. Rank(at, i) = Rank(at, j)
    BY <1>1, <1>3, <1>5, <2>1
  <2> QED
    BY <1>2, <2>2
<1>6. QED
  BY <1>3, <1>4, <1>5

(* There are as many gaps among the first places as indices after them.    *)
LEMMA Gaps ==
  ASSUME NEW n \in Nat, NEW at \in SUBSET (1 .. n)
  PROVE  LET m == Cardinality(at)
             gap(i) == Cardinality((1 .. i) \ at)
         IN  /\ m \in Nat
             /\ \A i \in (1 .. m) \ at : gap(i) \in 1 .. m
             /\ \A j \in at \ (1 .. m) : \E i \in (1 .. m) \ at : gap(i) = BackRank(at, j)
<1> DEFINE m == Cardinality(at)
           gaps == (1 .. m) \ at
           after == at \ (1 .. m)
           both == at \cap (1 .. m)
<1>1. IsFiniteSet(at) /\ m \in Nat
  <2>1. IsFiniteSet(1 .. n)
    BY FS_Interval
  <2> QED
    BY <2>1, FS_Subset, FS_CardinalityType
<1>2. IsFiniteSet(1 .. m) /\ Cardinality(1 .. m) = m
  BY <1>1, FS_Interval
<1>3. Cardinality(gaps) = Cardinality(after) /\ Cardinality(gaps) \in Nat /\ Cardinality(gaps) <= m
  <2>1. /\ Cardinality(gaps) = Cardinality(1 .. m) - Cardinality((1 .. m) \cap at)
        /\ Cardinality(after) = Cardinality(at) - Cardinality(at \cap (1 .. m))
    BY <1>1, <1>2, FS_Difference
  <2>2. (1 .. m) \cap at = at \cap (1 .. m)
    OBVIOUS
  <2>3. Cardinality(gaps) = Cardinality(after)
    BY <1>2, <2>1, <2>2
  <2>4. gaps \in SUBSET (1 .. m)
    OBVIOUS
  <2> HIDE DEF gaps
  <2>5. Cardinality(gaps) \in Nat /\ Cardinality(gaps) <= m
    BY <1>2, <2>4, FS_Subset, FS_CardinalityType
  <2> QED
    BY <2>3, <2>5
<1>4. ASSUME NEW i \in gaps PROVE Cardinality((1 .. i) \ at) = Rank(gaps, i)
  <2>1. (1 .. i) \ at = {j \in gaps : j <= i}
    BY <1>1
  <2> QED
    BY <2>1 DEF Rank
<1>5. gaps \in SUBSET (1 .. m)
  OBVIOUS
<1>6. /\ \A i \in gaps : Rank(gaps, i) \in 1 .. Cardinality(gaps)
      /\ \A k \in 1 .. Cardinality(gaps) : \E i \in gaps : Rank(gaps, i) = k
  <2> HIDE DEF gaps
  <2> QED
    BY <1>1, <1>5, Ranks
<1>7. ASSUME NEW j \in after PROVE BackRank(at, j) \in 1 .. Cardinality(gaps)
  <2> DEFINE from == {k \in at : j <= k}
  <2>1. from \in SUBSET after /\ j \in from
    BY <1>1
  <2>2. BackRank(at, j) = Cardinality(from)
    BY DEF BackRank
  <2>3. IsFiniteSet(after)
    BY <1>1, FS_Subset
  <2> HIDE DEF from, after
  <2>4. IsFiniteSet(from) /\ Cardinality(from) \in Nat /\ Cardinality(from) <= Cardinality(after)
    BY <2>1, <2>3, FS_Subset, FS_CardinalityType
  <2>5. Cardinality(from) # 0
    BY <2>1, <2>4, FS_EmptySet
  <2> HIDE DEF gaps
  <2> QED
    BY <1>3, <2>2, <2>4, <2>5
<1>8. ASSUME NEW j \in after PROVE \E i \in gaps : Cardinality((1 .. i) \ at) = BackRank(at, j)
  <2> HIDE DEF gaps, after
  <2> QED
    BY <1>4, <1>6, <1>7
<1>9. ASSUME NEW i \in gaps PROVE Cardinality((1 .. i) \ at) \in 1 .. m
  <2> HIDE DEF gaps, m
  <2> QED
    BY <1>1, <1>3, <1>4, <1>6
<1>10. QED
  BY <1>1, <1>8, <1>9

(* What stays when some of the items are taken one by one.                 *)
LEMMA TakeItems ==
  ASSUME NEW S, NEW s \in Seq(S), NEW items
  PROVE  /\ take_items_by(s, items) \in Seq(S)
         /\ Items(take_items_by(s, items)) = Items(s) \ items
<1> DEFINE kept == {i \in DOMAIN s : s[i] \notin items}
           m == Cardinality(kept)
           gap(i) == Cardinality((1 .. i) \ kept)
           from(i) == IF i \in kept THEN i ELSE CHOOSE j \in kept : BackRank(kept, j) = gap(i)
           t == take_items_by(s, items)
<1>1. Len(s) \in Nat /\ DOMAIN s = 1 .. Len(s) /\ kept \in SUBSET (1 .. Len(s))
  OBVIOUS
<1>2. t = [i \in 1 .. m |-> s[from(i)]]
  <2>1. t = [i \in 1 .. m |-> IF i \in kept THEN s[i]
               ELSE s[CHOOSE j \in kept : BackRank(kept, j) = gap(i)]]
    BY DEF take_items_by, BackRank
  <2> HIDE DEF t, kept, m, gap
  <2> QED
    BY <2>1
<1>3. \A i \in kept : i \in 1 .. Len(s) /\ s[i] \in S
  OBVIOUS
<1>4. Items(s) \ items = {s[i] : i \in kept}
  BY DEF Items
<1> HIDE DEF kept, t
<1>5. /\ m \in Nat
      /\ \A i \in (1 .. m) \ kept : gap(i) \in 1 .. m
      /\ \A j \in kept \ (1 .. m) : \E i \in (1 .. m) \ kept : gap(i) = BackRank(kept, j)
  BY <1>1, Gaps
<1>6. /\ \A k \in 1 .. m : \E j \in kept : BackRank(kept, j) = k
      /\ \A i, j \in kept : BackRank(kept, i) = BackRank(kept, j) => i = j
  BY <1>1, BackRanks
<1> HIDE DEF m, gap
<1>7. ASSUME NEW i \in 1 .. m PROVE from(i) \in kept
  <2>1. CASE i \notin kept
    <3>1. \E j \in kept : BackRank(kept, j) = gap(i)
      BY <1>5, <1>6, <2>1
    <3> QED
      BY <2>1, <3>1
  <2> QED
    BY <2>1
<1>8. ASSUME NEW j \in kept PROVE \E i \in 1 .. m : from(i) = j
  <2>1. CASE j \in 1 .. m
    BY <2>1
  <2>2. CASE j \notin 1 .. m
    <3>1. PICK i \in (1 .. m) \ kept : gap(i) = BackRank(kept, j)
      BY <1>5, <2>2
    <3>2. from(i) = CHOOSE k \in kept : BackRank(kept, k) = BackRank(kept, j)
      BY <3>1
    <3>3. from(i) \in kept /\ BackRank(kept, from(i)) = BackRank(kept, j)
      BY <3>2
    <3> QED
      BY <1>6, <3>1, <3>3
  <2> QED
    BY <2>1, <2>2
<1> HIDE DEF from
<1>9. t \in Seq(S)
  BY <1>2, <1>3, <1>5, <1>7
<1>10. Items(t) = {s[from(i)] : i \in 1 .. m}
  BY <1>2 DEF Items
<1>11. QED
  BY <1>4, <1>7, <1>8, <1>9, <1>10 DEF t

(* A set of indices that is not empty has a least one, of rank 1.          *)
LEMMA Least ==
  ASSUME NEW n \in Nat, NEW at \in SUBSET (1 .. n), at # {}
  PROVE  \E i \in at : \A j \in at : i <= j
<1>1. IsFiniteSet(at) /\ Cardinality(at) \in Nat /\ Cardinality(at) # 0
  <2>1. IsFiniteSet(1 .. n)
    BY FS_Interval
  <2> QED
    BY <2>1, FS_Subset, FS_CardinalityType, FS_EmptySet
<1>2. PICK i \in at : Rank(at, i) = 1
  <2>1. 1 \in 1 .. Cardinality(at)
    BY <1>1
  <2> QED
    BY <2>1, Ranks
<1> DEFINE upto == {j \in at : j <= i}
<1>3. IsFiniteSet(upto) /\ Cardinality(upto) = 1
  BY <1>1, <1>2, FS_Subset DEF Rank
<1>4. PICK x : upto = {x}
  BY <1>3, FS_Singleton
<1>5. \A j \in at : j <= i => j = i
  BY <1>4
<1>6. QED
  BY <1>5

(* First finds one of the items, if the envelope has any.                  *)
LEMMA FirstItem ==
  ASSUME NEW S, NEW s \in Seq(S), NEW items, Items(s) \cap items # {}
  PROVE  First(s, items) \in DOMAIN s /\ s[First(s, items)] \in items
<1> DEFINE T == {i \in DOMAIN s : s[i] \in items}
<1>1. Len(s) \in Nat /\ T \in SUBSET (1 .. Len(s)) /\ T # {}
  BY DEF Items
<1>2. \E i \in T : \A j \in T : i <= j
  BY <1>1, Least
<1>3. \E i \in DOMAIN s : s[i] \in items /\ \A j \in DOMAIN s : s[j] \in items => i <= j
  BY <1>2
<1>4. QED
  BY <1>3 DEF First

(* take_item_by leaves nothing but items of the envelope.                  *)
LEMMA TakeItem ==
  ASSUME NEW S, NEW s \in Seq(S), NEW type
  PROVE  /\ TakeType(s, type) \in Seq(S)
         /\ Items(TakeType(s, type)) \subseteq Items(s)
<1> DEFINE items == OfType(s, {type})
<1> HIDE DEF items
<1>1. TakeType(s, type) = take_item_by(s, items)
  BY DEF TakeType, items
<1>2. CASE Items(s) \cap items = {}
  <2>1. take_item_by(s, items) = s
    BY <1>2 DEF take_item_by
  <2> QED
    BY <1>1, <2>1
<1>3. CASE Items(s) \cap items # {}
  <2> DEFINE n == Len(s)
             first == First(s, items)
             t == [j \in 1 .. n - 1 |-> IF j = first THEN s[n] ELSE s[j]]
  <2>1. take_item_by(s, items) = t
    BY <1>3 DEF take_item_by
  <2>2. n \in Nat /\ DOMAIN s = 1 .. n /\ n # 0
    BY <1>3 DEF Items
  <2> HIDE DEF n, first
  <2>3. \A j \in 1 .. n - 1 : j \in 1 .. n /\ n \in 1 .. n
    BY <2>2
  <2>4. t \in Seq(S)
    BY <2>2, <2>3 DEF n
  <2>5. \A j \in 1 .. n - 1 : t[j] \in Items(s)
    BY <2>2, <2>3 DEF Items
  <2> QED
    BY <1>1, <2>1, <2>4, <2>5 DEF Items
<1>4. QED
  BY <1>2, <1>3

-----------------------------------------------------------------------------
(* What a summary counts.                                                  *)

HasEvent(envelope) == \E item \in Items(envelope) : creates_event(item)
Attachment(item) == is_attachment(item) /\ ~item.rate_limited
Attached(envelope) == {item.name : item \in {i \in Items(envelope) : Attachment(i)}}

CountedIn(envelope) == Counted(Summary(envelope))

(* The event and the attachments are different units.                      *)
LEMMA UnitsApart ==
  ASSUME NEW event \in BOOLEAN, NEW names
  PROVE  /\ <<EventUnit>> \in UnitsOf(event, names) <=> event
         /\ \A n : <<"attachment", n>> \in UnitsOf(event, names) <=> n \in names
         /\ \A u \in UnitsOf(event, names) :
              u = <<EventUnit>> \/ \E n \in names : u = <<"attachment", n>>
BY DEF UnitsOf, EventUnit

(* What EnvelopeSummary counts, as a set of units.                         *)
LEMMA SummaryCounts ==
  ASSUME NEW envelope
  PROVE  /\ Summary(envelope).attachments = Attached(envelope)
         /\ Summary(envelope).event # NoCategory <=> HasEvent(envelope)
         /\ CountedIn(envelope) = UnitsOf(HasEvent(envelope), Attached(envelope))
<1>1. Summary(envelope).attachments = Attached(envelope)
  BY DEF Summary, Attached, Attachment
<1>2. \A item : infer_event_category(item) # NoCategory
  BY NoCategoryAssumption DEF infer_event_category
<1>3. Summary(envelope).event # NoCategory <=> HasEvent(envelope)
  <2> DEFINE creating == {item \in Items(envelope) : creates_event(item)}
  <2>1. Summary(envelope).event = IF creating = {} THEN NoCategory
                                  ELSE infer_event_category(envelope[First(envelope, creating)])
    BY DEF Summary
  <2>2. HasEvent(envelope) <=> creating # {}
    BY DEF HasEvent
  <2> HIDE DEF creating
  <2> QED
    BY <1>2, <2>1, <2>2
<1>4. QED
  BY <1>1, <1>3 DEF CountedIn, Counted, UnitsOf

(* The units of an envelope, of which there are two kinds.                 *)
LEMMA CountedUnits ==
  ASSUME NEW envelope
  PROVE  /\ <<EventUnit>> \in CountedIn(envelope) <=> HasEvent(envelope)
         /\ \A n : <<"attachment", n>> \in CountedIn(envelope) <=> n \in Attached(envelope)
         /\ \A u \in CountedIn(envelope) :
              u = <<EventUnit>> \/ \E n \in Attached(envelope) : u = <<"attachment", n>>
<1>1. HasEvent(envelope) \in BOOLEAN
  BY DEF HasEvent
<1>2. QED
  BY <1>1, UnitsApart, SummaryCounts

(* The same for what an enforcement limits.                                *)
LEMMA LimitedUnits ==
  ASSUME NEW enforcement, enforcement.event \in BOOLEAN
  PROVE  /\ <<EventUnit>> \in Limited(enforcement) <=> enforcement.event
         /\ \A n : <<"attachment", n>> \in Limited(enforcement) <=> n \in enforcement.attachments
         /\ \A u \in Limited(enforcement) :
              u = <<EventUnit>> \/ \E n \in enforcement.attachments : u = <<"attachment", n>>
BY UnitsApart DEF Limited

LEMMA EmptyCounts ==
  ASSUME NEW envelope, Items(envelope) = {}
  PROVE  CountedIn(envelope) = {}
BY CountedUnits DEF HasEvent, Attached

(* An empty envelope counts nothing.                                       *)
LEMMA NoItems == Items(<<>>) = {} /\ CountedIn(<<>>) = {}
<1>1. Items(<<>>) = {}
  BY DEF Items
<1>2. QED
  BY <1>1, EmptyCounts

(* An envelope whose items are among those of another counts no more.      *)
LEMMA FewerItems ==
  ASSUME NEW s, NEW t, Items(s) \subseteq Items(t)
  PROVE  CountedIn(s) \subseteq CountedIn(t)
BY CountedUnits DEF HasEvent, Attached

(* What is taken from an envelope and reported is exactly what is no       *)
(* longer counted.                                                         *)
Takes(s, assumed, limited, left, enforced) ==
  /\ left \in Seq(Item)
  /\ \A y \in Items(left) : \E x \in Items(s) : y.name = x.name /\ y.ty = x.ty
  /\ enforced.event \in BOOLEAN
  /\ enforced.event <=> IF assumed = NoCategory THEN HasEvent(s) /\ Summary(s).event \in limited
                        ELSE assumed \in limited
  /\ HasEvent(left) <=> HasEvent(s) /\ ~enforced.event
  /\ Attached(left) \cap enforced.attachments = {}
  /\ Attached(left) \cup enforced.attachments = Attached(s)

LEMMA Enforced ==
  ASSUME NEW s \in Seq(Item), NEW assumed, NEW limited
  PROVE  Takes(s, assumed, limited, enforce(s, assumed, limited).envelope,
               enforce(s, assumed, limited).enforcement)
<1> DEFINE enforced == enforce(s, assumed, limited).enforcement
           left == enforce(s, assumed, limited).envelope
           summary == IF assumed = NoCategory THEN Summary(s) ELSE [Summary(s) EXCEPT !.event = assumed]
           enforcement == execute(summary, limited)
           chosen == {item \in Items(s) : retain_item(item, enforcement)}
           kept == retain_items(s, chosen)
           t == [i \in DOMAIN kept |-> retained(kept[i], enforcement)]
<1>1. enforced = enforcement /\ left = t
  BY DEF enforce
<1> HIDE DEF enforced, left
<1>2. /\ summary.attachments = Attached(s)
      /\ summary.event = IF assumed = NoCategory THEN Summary(s).event ELSE assumed
      /\ Summary(s).event # NoCategory <=> HasEvent(s)
  <2>1. Summary(s) = [event |-> Summary(s).event, attachments |-> Summary(s).attachments,
                      sessions |-> Summary(s).sessions, plain |-> Summary(s).plain]
    BY DEF Summary
  <2> QED
    BY <2>1, SummaryCounts
<1> HIDE DEF summary
<1>3. /\ enforcement.event = (summary.event # NoCategory /\ summary.event \in limited)
      /\ enforcement.attachments \in {{}, Attached(s)}
      /\ enforcement.event => enforcement.attachments = Attached(s)
  BY <1>2 DEF execute
<1> HIDE DEF enforcement
<1>4. kept \in Seq(Item) /\ Items(kept) = chosen
  BY RetainItems
<1> HIDE DEF kept
<1>5. \A x \in Item : /\ retained(x, enforcement) \in Item
                      /\ retained(x, enforcement).name = x.name /\ retained(x, enforcement).ty = x.ty
                      /\ Attachment(retained(x, enforcement)) <=>
                           Attachment(x) /\ enforcement.attachments = {}
  BY DEF retained, Item, Attachment, is_attachment
<1>6. DOMAIN kept = 1 .. Len(kept) /\ Len(kept) \in Nat /\ \A i \in 1 .. Len(kept) : kept[i] \in Item
  BY <1>4
<1>7. t \in Seq(Item)
  BY <1>5, <1>6
<1>8. Items(t) = {retained(x, enforcement) : x \in chosen}
  <2>1. Items(t) = {retained(kept[i], enforcement) : i \in DOMAIN kept}
    BY DEF Items
  <2>2. chosen = {kept[i] : i \in DOMAIN kept}
    BY <1>4 DEF Items
  <2> QED
    BY <2>1, <2>2
<1> HIDE DEF t
<1>9. Items(s) \subseteq Item /\ chosen \subseteq Items(s)
  BY DEF Items
<1>10. \A y \in Items(t) : \E x \in Items(s) : y.name = x.name /\ y.ty = x.ty
  BY <1>5, <1>8, <1>9
<1>11. HasEvent(t) <=> HasEvent(s) /\ ~enforcement.event
  <2>1. \A x \in Items(s) : creates_event(x) => (x \in chosen <=> ~enforcement.event)
    BY DEF retain_item, creates_event, requires_event, is_attachment, EventTypes, AttachmentTypes
  <2>2. \A x \in Item : creates_event(retained(x, enforcement)) <=> creates_event(x)
    BY <1>5 DEF creates_event
  <2> QED
    BY <1>8, <1>9, <2>1, <2>2 DEF HasEvent
<1>12. enforcement.attachments # {} => Attached(t) = {}
  BY <1>5, <1>8, <1>9 DEF Attached
<1>13. enforcement.attachments = {} => Attached(t) = Attached(s)
  <2> SUFFICES ASSUME enforcement.attachments = {} PROVE Attached(t) = Attached(s)
    OBVIOUS
  <2>1. enforcement.event => Attached(s) = {}
    BY <1>3
  <2>2. \A x \in Items(s) : Attachment(x) /\ ~enforcement.event => x \in chosen
    BY DEF retain_item, Attachment, is_attachment, AttachmentTypes
  <2>3. \A x \in chosen : /\ retained(x, enforcement).name = x.name
                          /\ Attachment(retained(x, enforcement)) <=> Attachment(x)
    BY <1>5, <1>9
  <2>4. Attached(t) \subseteq Attached(s)
    BY <1>8, <1>9, <2>3 DEF Attached
  <2>5. Attached(s) \subseteq Attached(t)
    <3> SUFFICES ASSUME NEW x \in Items(s), Attachment(x) PROVE x.name \in Attached(t)
      BY DEF Attached
    <3>1. ~enforcement.event
      BY <2>1 DEF Attached
    <3>2. x \in chosen
      BY <2>2, <3>1
    <3>3. retained(x, enforcement) \in Items(t)
      BY <1>8, <3>2
    <3> QED
      BY <2>3, <3>2, <3>3 DEF Attached
  <2> QED
    BY <2>4, <2>5
<1>14. enforcement.event <=> IF assumed = NoCategory THEN HasEvent(s) /\ Summary(s).event \in limited
                             ELSE assumed \in limited
  BY <1>2, <1>3
<1>15. enforcement.event \in BOOLEAN
  BY <1>3
<1>16. Takes(s, assumed, limited, left, enforced)
  BY <1>1, <1>3, <1>7, <1>10, <1>11, <1>12, <1>13, <1>14, <1>15 DEF Takes
<1>17. QED
  BY <1>16 DEF left, enforced

-----------------------------------------------------------------------------
(* The pipeline of a worker.                                               *)

IsState(s) == s = [error |-> s.error, envelope |-> s.envelope, event |-> s.event, enforced |-> s.enforced]

(* The names of the items that a worker may add.                           *)
NewNames(envelope) == {NewName(x.name, i) : x \in Items(envelope), i \in 1 .. 3}

(* What holds of a state that an envelope may lead to: it has an event     *)
(* only if the envelope has one, and no attachments but those of the       *)
(* envelope and new ones; and what it has is not limited.                  *)
Result(s, envelope) ==
  /\ IsState(s) /\ s.envelope \in Seq(Item)
  /\ s.error \notin {"RateLimited", "SendFailed", "ResponseError"}
  /\ s.enforced.event \in BOOLEAN
  /\ s.enforced.event => HasEvent(envelope)
  /\ s.enforced.attachments \subseteq Attached(envelope) \cup NewNames(envelope)
  /\ HasEvent(s.envelope) \/ s.event # NoCategory => HasEvent(envelope) /\ ~s.enforced.event
  /\ Attached(s.envelope) \subseteq Attached(envelope) \cup NewNames(envelope)
  /\ Attached(s.envelope) \cap s.enforced.attachments = {}

(* Before quotas are enforced.                                             *)
Before(s, envelope) ==
  Result(s, envelope) /\ ~s.enforced.event /\ s.enforced.attachments = {}

(* Before it is looked into.                                               *)
Raw(s, envelope) == Before(s, envelope) /\ Items(s.envelope) \subseteq Items(envelope)

(* Where the items of an extended envelope come from.                      *)
LEMMA Concatenated ==
  ASSUME NEW S, NEW s \in Seq(S), NEW t \in Seq(S)
  PROVE  s \o t \in Seq(S) /\ Items(s \o t) \subseteq Items(s) \cup Items(t)
<1>1. s \o t \in Seq(S) /\ Len(s \o t) = Len(s) + Len(t)
  OBVIOUS
<1>2. \A i \in 1 .. Len(s) + Len(t) : (s \o t)[i] = IF i <= Len(s) THEN s[i] ELSE t[i - Len(s)]
  OBVIOUS
<1>3. ASSUME NEW i \in 1 .. Len(s) + Len(t) PROVE (s \o t)[i] \in Items(s) \cup Items(t)
  <2>1. CASE i <= Len(s)
    <3>1. i \in DOMAIN s
      BY <2>1
    <3> QED
      BY <1>2, <2>1, <3>1 DEF Items
  <2>2. CASE ~(i <= Len(s))
    <3>1. i - Len(s) \in DOMAIN t
      BY <2>2
    <3> QED
      BY <1>2, <2>2, <3>1 DEF Items
  <2> QED
    BY <2>1, <2>2
<1>4. DOMAIN (s \o t) = 1 .. Len(s) + Len(t)
  BY <1>1
<1>5. QED
  BY <1>1, <1>3, <1>4 DEF Items

LEMMA Appended ==
  ASSUME NEW S, NEW s \in Seq(S), NEW x \in S
  PROVE  Append(s, x) \in Seq(S) /\ Items(Append(s, x)) \subseteq Items(s) \cup {x}
<1>1. Append(s, x) \in Seq(S) /\ DOMAIN Append(s, x) = 1 .. Len(s) + 1
  OBVIOUS
<1>2. \A i \in 1 .. Len(s) + 1 : Append(s, x)[i] = IF i <= Len(s) THEN s[i] ELSE x
  OBVIOUS
<1>3. ASSUME NEW i \in 1 .. Len(s) + 1 PROVE Append(s, x)[i] \in Items(s) \cup {x}
  <2>1. i <= Len(s) => i \in DOMAIN s
    OBVIOUS
  <2> QED
    BY <1>2, <2>1 DEF Items
<1>4. QED
  BY <1>1, <1>3 DEF Items

LEMMA MoreItems ==
  ASSUME NEW s, NEW t, NEW more, Items(t) \subseteq Items(s) \cup more
  PROVE  /\ HasEvent(t) => HasEvent(s) \/ \E item \in more : creates_event(item)
         /\ Attached(t) \subseteq Attached(s) \cup {item.name : item \in {i \in more : Attachment(i)}}
BY DEF HasEvent, Attached

(* Steps that fail, that change the event or that take items away.         *)
LEMMA StateFails ==
  ASSUME NEW s, NEW envelope, Before(s, envelope),
         NEW error, error \notin {"RateLimited", "SendFailed", "ResponseError"}
  PROVE  Before(Failed(s, error), envelope)
<1>1. IsState(s)
  BY DEF Before, Result
<1>2. /\ Failed(s, error) = [error |-> error, envelope |-> s.envelope, event |-> s.event, enforced |-> s.enforced]
  BY <1>1 DEF Failed, IsState
<1>3. QED
  BY <1>2 DEF Before, Result, IsState

(* A step that changes the envelope or the event.                          *)
LEMMA StateWith ==
  ASSUME NEW s, NEW envelope, Before(s, envelope), HasEvent(envelope), NEW t, NEW event,
         t \in Seq(Item), Attached(t) \subseteq Attached(s.envelope) \cup NewNames(envelope)
  PROVE  /\ Before([s EXCEPT !.envelope = t, !.event = event], envelope)
         /\ Before([s EXCEPT !.envelope = t], envelope)
         /\ Before([s EXCEPT !.event = event], envelope)
<1>1. s = [error |-> s.error, envelope |-> s.envelope, event |-> s.event, enforced |-> s.enforced]
  BY DEF Before, Result, IsState
<1> DEFINE v == [s EXCEPT !.envelope = t]
           w == [s EXCEPT !.envelope = t, !.event = event]
<1>2. /\ v = [error |-> s.error, envelope |-> t, event |-> s.event, enforced |-> s.enforced]
      /\ w = [error |-> s.error, envelope |-> t, event |-> event, enforced |-> s.enforced]
      /\ [s EXCEPT !.event = event]
           = [error |-> s.error, envelope |-> s.envelope, event |-> event, enforced |-> s.enforced]
  <2>1. v = [error |-> s.error, envelope |-> t, event |-> s.event, enforced |-> s.enforced]
    BY <1>1
  <2>2. [s EXCEPT !.event = event]
           = [error |-> s.error, envelope |-> s.envelope, event |-> event, enforced |-> s.enforced]
    BY <1>1
  <2>3. w = [v EXCEPT !.event = event]
    OBVIOUS
  <2> HIDE DEF v, w
  <2>4. w = [error |-> s.error, envelope |-> t, event |-> event, enforced |-> s.enforced]
    BY <2>1, <2>3
  <2> QED
    BY <2>1, <2>2, <2>4
<1> HIDE DEF v, w
<1>3. Attached(t) \subseteq Attached(envelope) \cup NewNames(envelope)
  <2>1. Attached(s.envelope) \subseteq Attached(envelope) \cup NewNames(envelope)
    BY DEF Before, Result
  <2> QED
    BY <2>1
<1>4. /\ Before(v, envelope) /\ Before(w, envelope)
      /\ Before([s EXCEPT !.event = event], envelope)
  BY <1>2, <1>3 DEF Before, Result, IsState
<1>5. QED
  BY <1>4 DEF v, w

(* The state that a worker begins with.                                    *)
LEMMA StateStarts ==
  ASSUME NEW envelope \in Seq(Item), NEW s \in prepare_state(envelope)
  PROVE  Raw(s, envelope)
<1> DEFINE s0 == State(envelope)
<1>1. /\ s0 = [error |-> NoError, envelope |-> envelope, event |-> NoCategory, enforced |-> s0.enforced]
      /\ s0.enforced = execute(Summary(<<>>), {})
  BY DEF State
<1> HIDE DEF s0
<1>2. s0.enforced.event = FALSE /\ s0.enforced.attachments = {}
  <2>1. \A x : execute(x, {}).event = FALSE /\ execute(x, {}).attachments = {}
    BY DEF execute
  <2> QED
    BY <1>1, <2>1
<1>3. Before(s0, envelope)
  <2>1. /\ IsState(s0) /\ s0.envelope = envelope /\ s0.event = NoCategory
        /\ s0.error \notin {"RateLimited", "SendFailed", "ResponseError"}
    BY <1>1 DEF IsState, NoError
  <2> QED
    BY <1>2, <2>1 DEF Before, Result
<1>4. Before(Failed(s0, "MissingProjectId"), envelope) /\ Failed(s0, "MissingProjectId").envelope = envelope
  <2>1. Before(Failed(s0, "MissingProjectId"), envelope)
    BY <1>3, StateFails
  <2>2. Failed(s0, "MissingProjectId").envelope = s0.envelope
    BY <1>1 DEF Failed
  <2> QED
    BY <1>1, <2>1, <2>2
<1>5. QED
  BY <1>1, <1>3, <1>4 DEF Raw, prepare_state, s0

(* Invalid sessions and user reports go.                                   *)
LEMMA ItemsGo ==
  ASSUME NEW envelope, NEW s, Raw(s, envelope), NEW gone
  PROVE  Raw(WithoutItems(s, gone), envelope)
<1> DEFINE t == retain_items(s.envelope, Items(s.envelope) \ gone)
<1>1. t \in Seq(Item) /\ Items(t) \subseteq Items(s.envelope)
  BY RetainItems DEF Raw, Before, Result
<1>2. WithoutItems(s, gone) = [error |-> s.error, envelope |-> t, event |-> s.event, enforced |-> s.enforced]
  BY DEF WithoutItems, Raw, Before, Result, IsState
<1> HIDE DEF t
<1>3. Attached(t) \subseteq Attached(s.envelope) /\ (HasEvent(t) => HasEvent(s.envelope))
  BY <1>1 DEF Attached, HasEvent
<1>4. QED
  BY <1>1, <1>2, <1>3 DEF Raw, Before, Result, IsState

(* The steps of a worker.                                                  *)
LEMMA ExpandUnreal ==
  ASSUME NEW envelope \in Seq(Item), NEW s, Raw(s, envelope), HasEvent(envelope),
         NEW t \in expand_unreal(s)
  PROVE  Before(t, envelope)
<1> DEFINE reports == OfType(s.envelope, {"UnrealReport"})
           report == s.envelope[First(s.envelope, reports)]
           rest == TakeType(s.envelope, "UnrealReport")
           contents(c) == [i \in DOMAIN c |-> NewItem(c[i], NewName(report.name, i))]
<1>1. /\ Before(s, envelope) /\ s.envelope \in Seq(Item) /\ Items(s.envelope) \subseteq Items(envelope)
      /\ Before(Failed(s, "InvalidUnrealReport"), envelope)
  BY StateFails DEF Raw, Before, Result
<1>2. \/ t \in {s, Failed(s, "InvalidUnrealReport")}
      \/ reports # {} /\ \E c \in UnrealContents : t = [s EXCEPT !.envelope = rest \o contents(c)]
  BY DEF expand_unreal, Has
<1>3. ASSUME reports # {}, NEW c \in UnrealContents
      PROVE  Before([s EXCEPT !.envelope = rest \o contents(c)], envelope)
  <2>1. report \in Items(envelope) /\ report.name \in Nat
    <3>1. Items(s.envelope) \cap reports # {}
      BY <1>3 DEF OfType
    <3> HIDE DEF reports
    <3>2. First(s.envelope, reports) \in DOMAIN s.envelope
      BY <1>1, <3>1, FirstItem
    <3>3. report \in Items(s.envelope) /\ report \in Item
      BY <1>1, <3>2 DEF Items
    <3> QED
      BY <1>1, <3>3 DEF Item
  <2> HIDE DEF report, reports, rest
  <2>2. /\ Len(c) \in 1 .. 3 /\ DOMAIN c = 1 .. Len(c)
        /\ \A i \in DOMAIN c : c[i] \in ItemTypes
    BY DEF UnrealContents, ItemTypes, AttachmentTypes
  <2>3. ASSUME NEW i \in DOMAIN c
        PROVE  /\ contents(c)[i] \in Item /\ contents(c)[i].name \in NewNames(envelope)
    <3>1. i \in 1 .. 3 /\ NewName(report.name, i) \in Nat
      BY <2>1, <2>2 DEF NewName
    <3>2. NewName(report.name, i) \in NewNames(envelope)
      BY <2>1, <3>1 DEF NewNames
    <3>3. contents(c)[i] = [ty |-> c[i], name |-> NewName(report.name, i), rate_limited |-> FALSE]
      BY DEF NewItem
    <3>4. c[i] \in ItemTypes
      BY <2>2
    <3> HIDE DEF contents
    <3> QED
      BY <3>1, <3>2, <3>3, <3>4 DEF Item
  <2> DEFINE new == contents(c)
  <2>4. new \in Seq(Item) /\ \A x \in Items(new) : x.name \in NewNames(envelope)
    <3>1. DOMAIN new = 1 .. Len(c) /\ Len(c) \in Nat /\ new = [i \in 1 .. Len(c) |-> new[i]]
      BY <2>2
    <3>2. \A i \in 1 .. Len(c) : new[i] \in Item /\ new[i].name \in NewNames(envelope)
      BY <2>2, <2>3
    <3> HIDE DEF new
    <3>3. new \in Seq(Item)
      BY <3>1, <3>2
    <3> QED
      BY <3>1, <3>2, <3>3 DEF Items
  <2> HIDE DEF new
  <2>5. rest \in Seq(Item) /\ Items(rest) \subseteq Items(s.envelope)
    BY <1>1, TakeItem DEF rest
  <2>6. rest \o new \in Seq(Item) /\ Items(rest \o new) \subseteq Items(s.envelope) \cup Items(new)
    BY <2>4, <2>5, Concatenated
  <2>7. Attached(rest \o new) \subseteq Attached(s.envelope) \cup NewNames(envelope)
    <3>1. Attached(rest \o new) \subseteq
            Attached(s.envelope) \cup {x.name : x \in {y \in Items(new) : Attachment(y)}}
      BY <2>6, MoreItems
    <3>2. {x.name : x \in {y \in Items(new) : Attachment(y)}} \subseteq NewNames(envelope)
      BY <2>4
    <3> QED
      BY <3>1, <3>2
  <2>8. Before([s EXCEPT !.envelope = rest \o new], envelope)
    BY <1>1, <2>6, <2>7, StateWith
  <2> QED
    BY <2>8 DEF new
<1>4. QED
  BY <1>1, <1>2, <1>3

(* extract_event takes items and adds none.                                *)
LEMMA Takings ==
  ASSUME NEW s \in Seq(Item)
  PROVE  TakenFrom(s) \in Seq(Item) /\ Items(TakenFrom(s)) \subseteq Items(s)
<1> DEFINE t1 == TakeType(s, "Event")
           t2 == TakeType(t1, "Transaction")
           t3 == TakeType(t2, "Security")
           t4 == TakeType(t3, "RawSecurity")
           t5 == TakeType(t4, "FormData")
           t6 == TakeType(t5, "EventPayload")
           t7 == TakeType(t6, "Breadcrumbs")
           t8 == TakeType(t7, "Breadcrumbs")
<1>1. TakenFrom(s) = t8
  BY DEF TakenFrom
<1>2. t1 \in Seq(Item) /\ Items(t1) \subseteq Items(s)
  BY TakeItem
<1> HIDE DEF t1
<1>3. t2 \in Seq(Item) /\ Items(t2) \subseteq Items(t1)
  BY <1>2, TakeItem
<1> HIDE DEF t2
<1>4. t3 \in Seq(Item) /\ Items(t3) \subseteq Items(t2)
  BY <1>3, TakeItem
<1> HIDE DEF t3
<1>5. t4 \in Seq(Item) /\ Items(t4) \subseteq Items(t3)
  BY <1>4, TakeItem
<1> HIDE DEF t4
<1>6. t5 \in Seq(Item) /\ Items(t5) \subseteq Items(t4)
  BY <1>5, TakeItem
<1> HIDE DEF t5
<1>7. t6 \in Seq(Item) /\ Items(t6) \subseteq Items(t5)
  BY <1>6, TakeItem
<1> HIDE DEF t6
<1>8. t7 \in Seq(Item) /\ Items(t7) \subseteq Items(t6)
  BY <1>7, TakeItem
<1> HIDE DEF t7
<1>9. t8 \in Seq(Item) /\ Items(t8) \subseteq Items(t7)
  BY <1>8, TakeItem
<1> HIDE DEF t8
<1>10. QED
  BY <1>1, <1>2, <1>3, <1>4, <1>5, <1>6, <1>7, <1>8, <1>9

LEMMA ExtractEvent ==
  ASSUME NEW envelope \in Seq(Item), NEW s, Before(s, envelope), HasEvent(envelope),
         NEW processing, NEW t \in extract_event(s, processing)
  PROVE  Before(t, envelope)
<1> DEFINE rest == TakenFrom(s.envelope)
<1>1. rest \in Seq(Item) /\ Items(rest) \subseteq Items(s.envelope)
  BY Takings DEF Before, Result
<1> HIDE DEF rest
<1>2. Attached(rest) \subseteq Attached(s.envelope) \cup NewNames(envelope)
  BY <1>1 DEF Attached
<1>3. \A error \in Extracted(s)[2] : error \notin {"RateLimited", "SendFailed", "ResponseError"}
  BY DEF Extracted
<1>4. \/ t = Failed(s, "DuplicateItem") \/ \E error \in Extracted(s)[2] : t = Failed(s, error)
      \/ \E category \in Extracted(s)[1] : t = [s EXCEPT !.envelope = rest, !.event = category]
  BY DEF extract_event, rest
<1>5. \A category : Before([s EXCEPT !.envelope = rest, !.event = category], envelope)
  BY <1>1, <1>2, StateWith
<1>6. Before(Failed(s, "DuplicateItem"), envelope) /\ \A error \in Extracted(s)[2] : Before(Failed(s, error), envelope)
  BY <1>3, StateFails
<1>7. QED
  BY <1>4, <1>5, <1>6

LEMMA ProcessUnreal ==
  ASSUME NEW envelope \in Seq(Item), NEW s, Before(s, envelope), HasEvent(envelope),
         NEW t \in process_unreal(s)
  PROVE  Before(t, envelope)
<1> DEFINE reports == {<<>>, <<NewItem("UserReport", EventName)>>}
<1>1. \/ t = s \/ t = Failed(s, "InvalidUnrealReport")
      \/ \E report \in reports :
           t = [s EXCEPT !.envelope = s.envelope \o report, !.event = OrDefault(s.event)]
  BY DEF process_unreal
<1>2. ASSUME NEW report \in reports
      PROVE  /\ s.envelope \o report \in Seq(Item)
             /\ Attached(s.envelope \o report) \subseteq Attached(s.envelope) \cup NewNames(envelope)
  <2>1. report \in Seq(Item) /\ \A x \in Items(report) : ~Attachment(x)
    <3> DEFINE x == NewItem("UserReport", EventName)
    <3>1. x \in Item /\ ~Attachment(x)
      BY EventNameAssumption
      DEF NewItem, Item, Attachment, is_attachment, ItemTypes, AttachmentTypes, OtherTypes
    <3> HIDE DEF x
    <3>2. Items(<<x>>) = {x} /\ <<x>> \in Seq(Item)
      BY <3>1 DEF Items
    <3>3. report = <<>> \/ report = <<x>>
      BY DEF x
    <3>4. <<>> \in Seq(Item) /\ Items(<<>>) = {}
      BY NoItems
    <3> HIDE DEF reports
    <3>5. CASE report = <<>>
      BY <3>4, <3>5
    <3>6. CASE report = <<x>>
      BY <3>1, <3>2, <3>6
    <3> QED
      BY <3>3, <3>5, <3>6
  <2>2. s.envelope \in Seq(Item)
    BY DEF Before, Result
  <2> HIDE DEF reports
  <2>3. /\ s.envelope \o report \in Seq(Item)
        /\ Items(s.envelope \o report) \subseteq Items(s.envelope) \cup Items(report)
    BY <2>1, <2>2, Concatenated
  <2>4. Attached(s.envelope \o report) \subseteq
          Attached(s.envelope) \cup {x.name : x \in {y \in Items(report) : Attachment(y)}}
    BY <2>3, MoreItems
  <2>5. {x.name : x \in {y \in Items(report) : Attachment(y)}} = {}
    BY <2>1
  <2> QED
    BY <2>3, <2>4, <2>5
<1> HIDE DEF reports
<1>3. \A report \in reports :
        Before([s EXCEPT !.envelope = s.envelope \o report, !.event = OrDefault(s.event)], envelope)
  BY <1>2, StateWith
<1>4. Before(Failed(s, "InvalidUnrealReport"), envelope)
  BY StateFails
<1>5. QED
  BY <1>1, <1>3, <1>4

(* The steps that change no items.                                         *)
LEMMA OtherSteps ==
  ASSUME NEW envelope \in Seq(Item), NEW s, Before(s, envelope), HasEvent(envelope), NEW processing,
         NEW t \in create_placeholders(s) \cup finalize_event(s, processing) \cup sample_event(s)
                     \cup store_process_event(s) \cup extract_transaction_metrics(s) \cup filter_event(s)
  PROVE  Before(t, envelope)
<1>1. s.envelope \in Seq(Item)
  BY DEF Before, Result
<1>2. \A event : Before([s EXCEPT !.event = event], envelope)
  BY <1>1, StateWith
<1>3. \A error \in {"NoEventPayload", "InvalidTransaction", "EventSampled", "EventFiltered"} :
        Before(Failed(s, error), envelope)
  BY StateFails
<1>4. \/ t = s
      \/ \E error \in {"NoEventPayload", "InvalidTransaction", "EventSampled", "EventFiltered"} : t = Failed(s, error)
      \/ \E event : t = [s EXCEPT !.event = event]
  BY DEF create_placeholders, finalize_event, sample_event, store_process_event,
         extract_transaction_metrics, filter_event
<1>5. QED
  BY <1>2, <1>3, <1>4

(* From here on quotas may have been enforced.                             *)
LEMMA ResultFails ==
  ASSUME NEW s, NEW envelope, Result(s, envelope),
         NEW error, error \notin {"RateLimited", "SendFailed", "ResponseError"}
  PROVE  Result(Failed(s, error), envelope)
<1>1. Failed(s, error) = [error |-> error, envelope |-> s.envelope, event |-> s.event, enforced |-> s.enforced]
  BY DEF Failed, Result, IsState
<1>2. QED
  BY <1>1 DEF Result, IsState

LEMMA EnforceQuotas ==
  ASSUME NEW envelope \in Seq(Item), NEW s, Before(s, envelope), NEW t \in enforce_quotas(s)
  PROVE  Result(t, envelope)
<1>1. Result(s, envelope) /\ s.envelope \in Seq(Item)
  BY DEF Before, Result
<1>2. CASE t = Failed(s, "QuotasFailed")
  BY <1>1, <1>2, ResultFails
<1>3. ASSUME NEW limited,
             t = [s EXCEPT !.envelope = enforce(s.envelope, s.event, limited).envelope,
                           !.enforced = enforce(s.envelope, s.event, limited).enforcement,
                           !.event = remove_event(s, limited)]
      PROVE  Result(t, envelope)
  <2> DEFINE result == enforce(s.envelope, s.event, limited)
             left == result.envelope
             enforced == result.enforcement
             event == remove_event(s, limited)
             v == [s EXCEPT !.envelope = left]
             w == [v EXCEPT !.enforced = enforced]
  <2>1. t = [error |-> s.error, envelope |-> left, event |-> event, enforced |-> enforced]
    <3> HIDE DEF left, enforced, event
    <3>1. s = [error |-> s.error, envelope |-> s.envelope, event |-> s.event, enforced |-> s.enforced]
      BY <1>1 DEF Result, IsState
    <3>2. v = [error |-> s.error, envelope |-> left, event |-> s.event, enforced |-> s.enforced]
      BY <3>1
    <3> HIDE DEF v
    <3>3. w = [error |-> s.error, envelope |-> left, event |-> s.event, enforced |-> enforced]
      BY <3>2
    <3>4. t = [w EXCEPT !.event = event]
      BY <1>3 DEF v, w, left, enforced, event
    <3> HIDE DEF w
    <3> QED
      BY <3>3, <3>4
  <2>2. /\ left \in Seq(Item) /\ enforced.event \in BOOLEAN
        /\ enforced.event <=> IF s.event = NoCategory THEN HasEvent(s.envelope) /\ Summary(s.envelope).event \in limited
                              ELSE s.event \in limited
        /\ HasEvent(left) <=> HasEvent(s.envelope) /\ ~enforced.event
        /\ Attached(left) \cap enforced.attachments = {}
        /\ Attached(left) \cup enforced.attachments = Attached(s.envelope)
    <3>1. Takes(s.envelope, s.event, limited, left, enforced)
      BY <1>1, Enforced
    <3> HIDE DEF left, enforced
    <3> QED
      BY <3>1 DEF Takes
  <2>3. event = IF s.event \in limited THEN NoCategory ELSE s.event
    BY DEF remove_event
  <2> HIDE DEF left, enforced, event, result
  <2>4. HasEvent(s.envelope) \/ s.event # NoCategory => HasEvent(envelope)
    BY <1>1 DEF Result
  <2>5. Attached(s.envelope) \subseteq Attached(envelope) \cup NewNames(envelope)
    BY <1>1 DEF Result
  <2>6. /\ enforced.event => HasEvent(envelope)
        /\ HasEvent(left) \/ event # NoCategory => HasEvent(envelope) /\ ~enforced.event
    BY <2>2, <2>3, <2>4
  <2>7. s.error \notin {"RateLimited", "SendFailed", "ResponseError"}
    BY <1>1 DEF Result
  <2>8. /\ t.error = s.error /\ t.envelope = left /\ t.event = event /\ t.enforced = enforced /\ IsState(t)
    BY <2>1 DEF IsState
  <2>9. /\ Attached(left) \subseteq Attached(envelope) \cup NewNames(envelope)
        /\ enforced.attachments \subseteq Attached(envelope) \cup NewNames(envelope)
    BY <2>2, <2>5
  <2> QED
    BY <2>2, <2>6, <2>7, <2>8, <2>9 DEF Result
<1>4. QED
  BY <1>2, <1>3 DEF enforce_quotas

LEMMA SerializeEvent ==
  ASSUME NEW envelope \in Seq(Item), NEW s, Result(s, envelope), NEW t \in serialize_event(s)
  PROVE  Result(t, envelope)
<1> DEFINE item == ItemOf(s.event)
           left == Append(s.envelope, item)
<1>1. \A error \in {"ProcessingFailed", "SerializeFailed"} : Result(Failed(s, error), envelope)
  BY ResultFails
<1>2. ASSUME s.event # NoCategory, t = [s EXCEPT !.envelope = left]
      PROVE  Result(t, envelope)
  <2>1. item \in Item /\ ~Attachment(item)
    BY EventNameAssumption
    DEF ItemOf, NewItem, Item, Attachment, is_attachment, ItemTypes, AttachmentTypes, EventTypes
  <2> HIDE DEF item
  <2>2. s.envelope \in Seq(Item)
    BY DEF Result
  <2>3. left \in Seq(Item) /\ Items(left) \subseteq Items(s.envelope) \cup {item}
    BY <2>1, <2>2, Appended
  <2> HIDE DEF left
  <2>4. Attached(left) \subseteq Attached(s.envelope)
    BY <2>1, <2>3 DEF Attached
  <2>5. t = [error |-> s.error, envelope |-> left, event |-> s.event, enforced |-> s.enforced]
    BY <1>2 DEF Result, IsState
  <2>6. /\ t.error = s.error /\ t.envelope = left /\ t.event = s.event /\ t.enforced = s.enforced /\ IsState(t)
    BY <2>5 DEF IsState
  <2>7. Attached(left) \cap s.enforced.attachments = {}
    BY <2>4 DEF Result
  <2>8. Attached(left) \subseteq Attached(envelope) \cup NewNames(envelope)
    BY <2>4 DEF Result
  <2> QED
    BY <1>2, <2>3, <2>6, <2>7, <2>8 DEF Result
<1>3. t = s \/ (s.event # NoCategory /\ t = [s EXCEPT !.envelope = left])
        \/ \E error \in {"ProcessingFailed", "SerializeFailed"} : t = Failed(s, error)
  BY DEF serialize_event
<1>4. QED
  BY <1>1, <1>2, <1>3

(* All steps on the event, one after the other.                            *)
LEMMA ProcessEvent ==
  ASSUME NEW envelope \in Seq(Item), NEW s, Raw(s, envelope), HasEvent(envelope),
         NEW processing \in BOOLEAN, NEW t \in process_event(s, processing)
  PROVE  Before(t, envelope)
<1> DEFINE If(Step(_), x) == IF processing THEN Step(x) ELSE {x}
           r1 == If(expand_unreal, s)
           r2 == Then(r1, LAMBDA x : extract_event(x, processing))
           r3 == Then(r2, LAMBDA x : If(process_unreal, x))
           r4 == Then(r3, LAMBDA x : If(create_placeholders, x))
           r5 == Then(r4, LAMBDA x : finalize_event(x, processing))
           r6 == Then(r5, sample_event)
           r7 == Then(r6, LAMBDA x : If(store_process_event, x))
           r8 == Then(r7, LAMBDA x : If(extract_transaction_metrics, x))
           r9 == Then(r8, LAMBDA x : If(filter_event, x))
<1>0. t \in r9
  BY DEF process_event
<1>1. \A x \in r1 : Before(x, envelope)
  BY ExpandUnreal DEF Raw
<1> HIDE DEF r1
<1>2. \A x \in r2 : Before(x, envelope)
  BY <1>1, ExtractEvent DEF Then
<1> HIDE DEF r2
<1>3. \A x \in r3 : Before(x, envelope)
  BY <1>2, ProcessUnreal DEF Then
<1> HIDE DEF r3
<1>4. \A x \in r4 : Before(x, envelope)
  BY <1>3, OtherSteps DEF Then
<1> HIDE DEF r4
<1>5. \A x \in r5 : Before(x, envelope)
  BY <1>4, OtherSteps DEF Then
<1> HIDE DEF r5
<1>6. \A x \in r6 : Before(x, envelope)
  BY <1>5, OtherSteps DEF Then
<1> HIDE DEF r6
<1>7. \A x \in r7 : Before(x, envelope)
  BY <1>6, OtherSteps DEF Then
<1> HIDE DEF r7
<1>8. \A x \in r8 : Before(x, envelope)
  BY <1>7, OtherSteps DEF Then
<1> HIDE DEF r8
<1>9. \A x \in r9 : Before(x, envelope)
  BY <1>8, OtherSteps DEF Then
<1>10. QED
  BY <1>0, <1>9

(* Everything that a worker can make of an envelope.                       *)
LEMMA ProcessState ==
  ASSUME NEW envelope \in Seq(Item), NEW processing \in BOOLEAN,
         NEW t \in process_state(envelope, processing)
  PROVE  Result(t, envelope)
<1> DEFINE event(x) == IF \E item \in Items(x.envelope) : creates_event(item)
                       THEN process_event(x, processing) ELSE {x}
           quotas(x) == IF processing THEN enforce_quotas(x) ELSE {x}
           r0 == prepare_state(envelope)
           r1 == Then(r0, process_sessions)
           r2 == Then(r1, process_user_reports)
           r3 == Then(r2, event)
           r4 == Then(r3, quotas)
           r5 == Then(r4, serialize_event)
<1>0. t \in r5
  BY DEF process_state
<1>1. \A x \in r0 : Raw(x, envelope)
  BY StateStarts
<1> HIDE DEF r0
<1>2. \A x \in r1 : Raw(x, envelope)
  BY <1>1, ItemsGo DEF Then, process_sessions
<1> HIDE DEF r1
<1>3. \A x \in r2 : Raw(x, envelope)
  BY <1>2, ItemsGo DEF Then, process_user_reports
<1> HIDE DEF r2
<1>4. \A x \in r3 : Before(x, envelope)
  <2>1. ASSUME NEW x, Raw(x, envelope), NEW y \in event(x) PROVE Before(y, envelope)
    <3>1. CASE HasEvent(x.envelope)
      <4>1. HasEvent(envelope)
        BY <2>1, <3>1 DEF Raw, HasEvent
      <4>2. y \in process_event(x, processing)
        BY <2>1, <3>1 DEF HasEvent
      <4> QED
        BY <2>1, <4>1, <4>2, ProcessEvent
    <3>2. CASE ~HasEvent(x.envelope)
      BY <2>1, <3>2 DEF HasEvent, Raw
    <3> QED
      BY <3>1, <3>2
  <2>2. \A x \in r2 : Before(x, envelope)
    BY <1>3 DEF Raw
  <2> HIDE DEF event
  <2> QED
    BY <1>3, <2>1, <2>2 DEF Then
<1> HIDE DEF r3
<1>5. \A x \in r4 : Result(x, envelope)
  <2>1. ASSUME NEW x, Before(x, envelope), NEW y \in quotas(x) PROVE Result(y, envelope)
    BY <2>1, EnforceQuotas DEF Before
  <2>2. \A x \in r3 : Result(x, envelope)
    BY <1>4 DEF Before
  <2> HIDE DEF quotas
  <2> QED
    BY <1>4, <2>1, <2>2 DEF Then
<1> HIDE DEF r4
<1>6. \A x \in r5 : Result(x, envelope)
  BY <1>5, SerializeEvent DEF Then
<1>7. QED
  BY <1>0, <1>6

-----------------------------------------------------------------------------
(* Who answers for a unit, and what has become of it.                      *)

(* The units that a part answers for: an open one, or a message that is    *)
(* left behind.                                                            *)
Owned(x) ==
  IF x.open THEN Counted(x.summary)
  ELSE IF x.stage \in Messages THEN CountedIn(x.envelope) ELSE {}

(* The stages in which nothing of a part has met an end.                   *)
Waiting == {"queued", "sample", "state"} \cup Messages

(* The fates that a unit of a part can have.                               *)
Expected(x, u) ==
  CASE ~x.open -> {{"timeout"}}
    [] x.open /\ x.stage \in Waiting -> {{}}
    [] x.open /\ x.stage = "checked" ->
         IF x.error = "Internal" \/ u \in CountedIn(x.envelope) THEN {{}} ELSE {{"checked"}}
    [] x.open /\ x.stage = "processed" ->
         IF x.error = "Internal" THEN {{}, {"quota"}}
         ELSE IF u \in CountedIn(x.envelope) THEN {{}} ELSE {{"quota"}, {"removed"}}
    [] x.open /\ x.stage = "answered" ->
         CASE x.error = "Internal" -> {{}}
           [] x.error = "SendFailed" -> {{"unsent"}}
           [] OTHER -> {{"upstream"}}

Named(envelope, e) == \A x \in Items(envelope) : x.name \in Names(e)

(* The envelope and the summary of a part of e.                            *)
Consistent(x, e) ==
  /\ x.envelope \in Seq(Item)
  /\ x.stage \in {"queued", "check", "checked", "sample", "state", "process"} => Named(x.envelope, e)
  /\ x.open /\ x.stage \in Waiting => CountedIn(x.envelope) = Counted(x.summary)
  /\ x.open /\ x.stage \in {"checked", "processed"} =>
       CountedIn(x.envelope) \cap Units(e) \subseteq Counted(x.summary)
  /\ x.open /\ x.stage = "checked" =>
       /\ x.error \in {NoError, "Internal", "RateLimited"}
       /\ x.error = "RateLimited" => x.envelope = <<>>
  /\ x.open /\ x.stage = "processed" => x.error \in {NoError, "Internal"}
  /\ x.open /\ x.stage = "answered" =>
       x.error \in {NoError, "Internal", "RateLimited", "ResponseError", "SendFailed"}

PartsOf(e) == {<<e, "event">>, <<e, "other">>}

Answerable ==
  \A p \in Parts :
    /\ Consistent(parts[p], p[1])
    /\ \A u \in Units(p[1]) \cap Owned(parts[p]) : fates[p[1]][u] \in Expected(parts[p], u)

Separate ==
  \A e \in Envelopes : Units(e) \cap Owned(parts[<<e, "event">>]) \cap Owned(parts[<<e, "other">>]) = {}

(* Nobody else knows an envelope that has not been queued.                 *)
Requested ==
  \A e \in Envelopes : requests[e].stage # "done" =>
    /\ requests[e].envelope \in Seq(Item) /\ Named(requests[e].envelope, e)
    /\ CountedIn(requests[e].envelope) \subseteq Counted(requests[e].summary)
    /\ requests[e].stage = "new" => CountedIn(requests[e].envelope) = Counted(requests[e].summary)
    /\ \A u \in Units(e) \cap Counted(requests[e].summary) : fates[e][u] = {}
    /\ \A p \in PartsOf(e) : parts[p].stage = "none"

(* What has met no end is still somebody's.                                *)
Covered ==
  \A e \in Envelopes : \A u \in CountedIn(Content[e]) :
    \/ fates[e][u] # {}
    \/ requests[e].stage # "done" /\ u \in Counted(requests[e].summary)
    \/ \E p \in PartsOf(e) : parts[p].open /\ u \in Owned(parts[p])

(* One end, or the two that OneEnd allows.                                 *)
Ended(F) ==
  \/ F = {} \/ \E f \in Fates : F = {f}
  \/ F = {"quota", "failed"}
  \/ \E f \in Fates : F = {"timeout", f}

EndedOnce == \A e \in Envelopes : \A u \in Units(e) : Ended(fates[e][u])

Ledger == Answerable /\ Separate /\ Requested /\ Covered /\ EndedOnce

(* The units of an envelope whose names are those of e.                    *)
LEMMA NamedUnits ==
  ASSUME NEW e, NEW envelope, Named(envelope, e)
  PROVE  CountedIn(envelope) \subseteq Units(e)
<1>1. Attached(envelope) \subseteq Names(e)
  BY DEF Named, Attached
<1>2. \A u \in CountedIn(envelope) : u = <<EventUnit>> \/ \E n \in Attached(envelope) : u = <<"attachment", n>>
  BY CountedUnits
<1>3. QED
  BY <1>1, <1>2 DEF Units

(* What a client has sent.                                                 *)
LEMMA ContentNamed ==
  ASSUME NEW e \in Envelopes
  PROVE  Content[e] \in Seq(Item) /\ Named(Content[e], e) /\ CountedIn(Content[e]) \subseteq Units(e)
<1>1. Named(Content[e], e)
  BY DEF Named, Names
<1>2. QED
  BY <1>1, NamedUnits, ContentAssumption

LEMMA TwoParts ==
  ASSUME NEW e \in Envelopes
  PROVE  /\ PartsOf(e) \subseteq Parts
         /\ \A p \in PartsOf(e) : p[1] = e
         /\ \A p \in Parts : p[1] \in Envelopes /\ p \in PartsOf(p[1])
BY DEF Parts, PartsOf

(* Fate adds an end to the units it is given, and to no other.             *)
LEMMA FateOf ==
  ASSUME NEW fs, FatesOK(fs), NEW e \in Envelopes, NEW us, NEW f \in Fates
  PROVE  /\ \A d \in Envelopes \ {e} : Fate(fs, e, us, f)[d] = fs[d]
         /\ \A u \in Units(e) :
              Fate(fs, e, us, f)[e][u] = IF u \in us THEN fs[e][u] \cup {f} ELSE fs[e][u]
<1> DEFINE g == [u \in Units(e) |-> IF u \in us THEN fs[e][u] \cup {f} ELSE fs[e][u]]
<1>1. \A u \in Units(e) : g[u] = IF u \in us THEN fs[e][u] \cup {f} ELSE fs[e][u]
  OBVIOUS
<1> HIDE DEF g
<1>2. Fate(fs, e, us, f) = [fs EXCEPT ![e] = g]
  BY DEF Fate, g
<1>3. QED
  BY <1>1, <1>2 DEF FatesOK

(* A step of a part of e, which becomes v: it gives no unit to anybody     *)
(* else, and those that v does not answer for have met an end.             *)
StepOf(p, e, v) ==
  /\ parts[p].stage # "none" /\ parts' = [parts EXCEPT ![p] = v] /\ UNCHANGED requests
  /\ \A d \in Envelopes \ {e} : fates'[d] = fates[d]
  /\ Consistent(v, e)
  /\ Units(e) \cap Owned(v) \subseteq Owned(parts[p])
  /\ \A u \in Units(e) \cap Owned(v) : fates'[e][u] \in Expected(v, u)
  /\ \A u \in Units(e) \ Owned(parts[p]) : fates'[e][u] = fates[e][u]
  /\ \A u \in Units(e) \cap Owned(parts[p]) :
       Ended(fates'[e][u]) /\ (fates'[e][u] # {} \/ (v.open /\ u \in Owned(v)))

LEMMA PartStep ==
  ASSUME Inv, Ledger, NEW p \in Parts, NEW v, StepOf(p, p[1], v)
  PROVE  Ledger'
<1> DEFINE e == p[1]
<1>0. StepOf(p, e, v) /\ e = p[1] /\ e \in Envelopes
  BY PartOf
<1> HIDE DEF e
<1> USE <1>0 DEF StepOf
<1>1. parts'[p] = v /\ \A q \in Parts \ {p} : parts'[q] = parts[q]
  BY DEF Inv, Shapes
<1>2. ASSUME NEW q \in Parts, q # p, q[1] = e, NEW u \in Units(e) \cap Owned(parts[q])
      PROVE  u \notin Owned(parts[p])
  <2>1. {p, q} = PartsOf(e) /\ p # q
    BY <1>2 DEF Parts, PartsOf
  <2>2. Units(e) \cap Owned(parts[p]) \cap Owned(parts[q]) = {}
    BY <2>1 DEF PartsOf, Ledger, Separate
  <2> QED
    BY <1>2, <2>2
<1>3. Answerable'
  <2> SUFFICES ASSUME NEW q \in Parts
               PROVE  /\ Consistent(parts'[q], q[1])
                      /\ \A u \in Units(q[1]) \cap Owned(parts'[q]) : fates'[q[1]][u] \in Expected(parts'[q], u)
    BY DEF Answerable
  <2>1. CASE q = p
    BY <1>1, <2>1
  <2>2. CASE q # p /\ q[1] = e
    <3>1. parts'[q] = parts[q] /\ Consistent(parts[q], e)
      BY <1>1, <2>2 DEF Ledger, Answerable
    <3>2. ASSUME NEW u \in Units(e) \cap Owned(parts[q])
          PROVE  fates'[e][u] \in Expected(parts[q], u)
      <4>1. fates[e][u] \in Expected(parts[q], u)
        BY <2>2 DEF Ledger, Answerable
      <4>2. fates'[e][u] = fates[e][u]
        BY <1>2, <2>2
      <4> QED
        BY <4>1, <4>2
    <3> QED
      BY <2>2, <3>1, <3>2
  <2>3. CASE q # p /\ q[1] # e
    <3>1. parts'[q] = parts[q] /\ fates'[q[1]] = fates[q[1]]
      BY <1>1, <2>3, TwoParts
    <3> QED
      BY <3>1 DEF Ledger, Answerable
  <2> QED
    BY <2>1, <2>2, <2>3
<1>4. Separate'
  <2> SUFFICES ASSUME NEW d \in Envelopes
               PROVE  Units(d) \cap Owned(parts'[<<d, "event">>]) \cap Owned(parts'[<<d, "other">>]) = {}
    BY DEF Separate
  <2>1. <<d, "event">> \in Parts /\ <<d, "other">> \in Parts
    BY DEF Parts
  <2>2. \A q \in PartsOf(d) : Units(d) \cap Owned(parts'[q]) \subseteq Owned(parts[q])
    BY <1>1, <2>1 DEF PartsOf
  <2>3. Units(d) \cap Owned(parts[<<d, "event">>]) \cap Owned(parts[<<d, "other">>]) = {}
    BY DEF Ledger, Separate
  <2> QED
    BY <2>2, <2>3 DEF PartsOf
<1>5. Requested'
  <2> SUFFICES ASSUME NEW d \in Envelopes, requests[d].stage # "done"
               PROVE  /\ requests[d].envelope \in Seq(Item) /\ Named(requests[d].envelope, d)
                      /\ CountedIn(requests[d].envelope) \subseteq Counted(requests[d].summary)
                      /\ requests[d].stage = "new" => CountedIn(requests[d].envelope) = Counted(requests[d].summary)
                      /\ \A u \in Units(d) \cap Counted(requests[d].summary) : fates'[d][u] = {}
                      /\ \A q \in PartsOf(d) : parts'[q].stage = "none"
    BY DEF Requested
  <2>1. \A q \in PartsOf(d) : parts[q].stage = "none"
    BY DEF Ledger, Requested
  <2>2. p \notin PartsOf(d) /\ d # e /\ PartsOf(d) \subseteq Parts
    BY <2>1, TwoParts
  <2>3. fates'[d] = fates[d] /\ \A q \in PartsOf(d) : parts'[q] = parts[q]
    BY <1>1, <2>2
  <2>4. /\ requests[d].envelope \in Seq(Item) /\ Named(requests[d].envelope, d)
        /\ CountedIn(requests[d].envelope) \subseteq Counted(requests[d].summary)
        /\ requests[d].stage = "new" => CountedIn(requests[d].envelope) = Counted(requests[d].summary)
        /\ \A u \in Units(d) \cap Counted(requests[d].summary) : fates[d][u] = {}
    BY DEF Ledger, Requested
  <2> QED
    BY ONLY <2>1, <2>3, <2>4
<1>6. Covered'
  <2> SUFFICES ASSUME NEW d \in Envelopes, NEW u \in CountedIn(Content[d])
               PROVE  \/ fates'[d][u] # {}
                      \/ requests[d].stage # "done" /\ u \in Counted(requests[d].summary)
                      \/ \E q \in PartsOf(d) : parts'[q].open /\ u \in Owned(parts'[q])
    BY DEF Covered
  <2>1. u \in Units(d)
    BY ContentNamed
  <2>2. \/ fates[d][u] # {}
        \/ requests[d].stage # "done" /\ u \in Counted(requests[d].summary)
        \/ \E q \in PartsOf(d) : parts[q].open /\ u \in Owned(parts[q])
    BY DEF Ledger, Covered
  <2>3. CASE d # e
    <3>1. fates'[d] = fates[d] /\ \A q \in PartsOf(d) : parts'[q] = parts[q]
      BY <1>1, <2>3, TwoParts
    <3> QED
      BY <2>2, <3>1
  <2>4. CASE d = e /\ u \in Owned(parts[p])
    BY <1>1, <2>1, <2>4, TwoParts
  <2>5. CASE d = e /\ u \notin Owned(parts[p])
    <3>1. fates'[d][u] = fates[d][u]
      BY <2>1, <2>5
    <3>2. \A q \in PartsOf(d) : u \in Owned(parts[q]) => parts'[q] = parts[q]
      BY <1>1, <2>5, TwoParts
    <3> QED
      BY <2>2, <3>1, <3>2
  <2> QED
    BY <2>3, <2>4, <2>5
<1>7. EndedOnce'
  <2> SUFFICES ASSUME NEW d \in Envelopes, NEW u \in Units(d) PROVE Ended(fates'[d][u])
    BY DEF EndedOnce
  <2>1. Ended(fates[d][u])
    BY DEF Ledger, EndedOnce
  <2> QED
    BY <2>1
<1>8. QED
  BY <1>3, <1>4, <1>5, <1>6, <1>7 DEF Ledger

(* A part after an update, and its fields.                                 *)
Replied(x, stage, envelope, error) == [x EXCEPT !.stage = stage, !.envelope = envelope, !.error = error]
Summed(x, stage, summary) == [x EXCEPT !.stage = stage, !.summary = summary]

LEMMA RepliedIs ==
  ASSUME NEW x, IsPart(x), NEW stage, NEW envelope, NEW error
  PROVE  Replied(x, stage, envelope, error)
           = [stage |-> stage, envelope |-> envelope, summary |-> x.summary, error |-> error, open |-> x.open]
<1> DEFINE v == [x EXCEPT !.stage = stage]
           w == [v EXCEPT !.envelope = envelope]
           y == [x EXCEPT !.stage = stage, !.envelope = envelope, !.error = error]
<1>1. x = [stage |-> x.stage, envelope |-> x.envelope, summary |-> x.summary,
           error |-> x.error, open |-> x.open]
  BY DEF IsPart
<1>2. y = [w EXCEPT !.error = error]
  OBVIOUS
<1>3. v = [stage |-> stage, envelope |-> x.envelope, summary |-> x.summary,
           error |-> x.error, open |-> x.open]
  BY <1>1
<1> HIDE DEF v, y
<1>4. w = [stage |-> stage, envelope |-> envelope, summary |-> x.summary,
           error |-> x.error, open |-> x.open]
  BY <1>3
<1> HIDE DEF w
<1>5. y = [stage |-> stage, envelope |-> envelope, summary |-> x.summary, error |-> error, open |-> x.open]
  BY <1>2, <1>4
<1>6. QED
  BY <1>5 DEF y, Replied

LEMMA GoneIs ==
  ASSUME NEW x, IsPart(x), NEW stage
  PROVE  [x EXCEPT !.stage = stage]
           = [stage |-> stage, envelope |-> x.envelope, summary |-> x.summary, error |-> x.error, open |-> x.open]
BY DEF IsPart

LEMMA SummedIs ==
  ASSUME NEW x, IsPart(x), NEW stage, NEW summary
  PROVE  Summed(x, stage, summary)
           = [stage |-> stage, envelope |-> x.envelope, summary |-> summary, error |-> x.error, open |-> x.open]
<1> DEFINE v == [x EXCEPT !.stage = stage]
           y == [x EXCEPT !.stage = stage, !.summary = summary]
<1>1. v = [stage |-> stage, envelope |-> x.envelope, summary |-> x.summary, error |-> x.error, open |-> x.open]
  BY GoneIs
<1>2. y = [v EXCEPT !.summary = summary]
  OBVIOUS
<1> HIDE DEF v, y
<1>3. y = [stage |-> stage, envelope |-> x.envelope, summary |-> summary, error |-> x.error, open |-> x.open]
  BY <1>1, <1>2
<1>4. QED
  BY <1>3 DEF y, Summed

(* A part that is not there, or is over, owns nothing.                     *)
LEMMA Vacant ==
  ASSUME NEW e
  PROVE  /\ Consistent(NoPart("done"), e) /\ Owned(NoPart("done")) = {}
         /\ Consistent(NoPart("none"), e) /\ Owned(NoPart("none")) = {}
<1>1. ASSUME NEW stage \in {"none", "done"}, NEW x, x = NoPart(stage)
      PROVE  Consistent(x, e) /\ Owned(x) = {}
  <2>1. x.stage = stage /\ x.envelope = <<>> /\ ~x.open
    BY <1>1 DEF NoPart
  <2> QED
    BY <1>1, <2>1 DEF Consistent, Owned, Messages
<1>2. QED
  BY <1>1

(* What is known of an open part, and of its units.                        *)
LEMMA PartKnown ==
  ASSUME Inv, Ledger, NEW p \in Parts
  PROVE  /\ p[1] \in Envelopes /\ IsPart(parts[p]) /\ Consistent(parts[p], p[1]) /\ FatesOK(fates)
         /\ parts[p].open => parts[p].stage # "none"
         /\ \A u \in Units(p[1]) : Ended(fates[p[1]][u])
         /\ \A u \in Units(p[1]) \cap Owned(parts[p]) : fates[p[1]][u] \in Expected(parts[p], u)
<1>1. p[1] \in Envelopes
  BY PartOf
<1>2. IsPart(parts[p]) /\ FatesOK(fates)
  BY DEF Inv, Shapes
<1>3. parts[p].open => parts[p].stage # "none"
  BY <1>2 DEF IsPart, Stages, Messages
<1>4. QED
  BY <1>1, <1>2, <1>3 DEF Ledger, Answerable, EndedOnce

(* A future that is over leaves nothing behind.                            *)
LEMMA FinishLedger ==
  ASSUME Inv, Ledger, NEW p \in Parts, parts[p].open, NEW error, NEW received,
         Finish(p, error, received, "done", fates), UNCHANGED requests,
         NEW f \in Fates, f = IF error = "Timeout" THEN "timeout" ELSE "failed",
         \A u \in Units(p[1]) \cap Counted(parts[p].summary) :
           IF error # NoError /\ Outcome(error, received) THEN Ended(fates[p[1]][u] \cup {f})
           ELSE fates[p[1]][u] # {}
  PROVE  Ledger'
<1> DEFINE e == p[1]
           x == parts[p]
           v == NoPart("done")
<1>1. /\ e \in Envelopes /\ IsPart(x) /\ x.stage # "none" /\ FatesOK(fates)
      /\ \A u \in Units(e) : Ended(fates[e][u])
  BY PartKnown
<1>2. Owned(x) = Counted(x.summary)
  BY DEF Owned
<1>3. parts' = [parts EXCEPT ![p] = v]
  BY DEF Finish
<1>4. fates' = IF error # NoError /\ Outcome(error, received)
               THEN Fate(fates, e, Counted(x.summary), f) ELSE fates
  BY DEF Finish
<1>5. Consistent(v, e) /\ Owned(v) = {}
  BY Vacant
<1> HIDE DEF v, x, e
<1>6. \A d \in Envelopes \ {e} : fates'[d] = fates[d]
  BY <1>1, <1>4, FateOf
<1>7. \A u \in Units(e) : fates'[e][u] = IF error # NoError /\ Outcome(error, received) /\ u \in Owned(x)
                                         THEN fates[e][u] \cup {f} ELSE fates[e][u]
  <2>1. CASE error # NoError /\ Outcome(error, received)
    <3> DEFINE us == Counted(x.summary)
    <3>1. fates' = Fate(fates, e, us, f) /\ Owned(x) = us
      BY <1>2, <1>4, <2>1
    <3> HIDE DEF us
    <3>2. FatesOK(fates) /\ e \in Envelopes /\ f \in Fates
      BY <1>1
    <3>3. \A u \in Units(e) : Fate(fates, e, us, f)[e][u] = IF u \in us THEN fates[e][u] \cup {f} ELSE fates[e][u]
      BY ONLY <3>2, FateOf
    <3>4. \A u \in Units(e) : fates'[e][u] = IF u \in us THEN fates[e][u] \cup {f} ELSE fates[e][u]
      BY ONLY <3>1, <3>3
    <3> QED
      BY <2>1, <3>1, <3>4
  <2>2. CASE ~(error # NoError /\ Outcome(error, received))
    BY <1>4, <2>2
  <2> QED
    BY <2>1, <2>2
<1>8. \A u \in Units(e) \ Owned(x) : fates'[e][u] = fates[e][u]
  BY <1>7
<1>9. ASSUME NEW u \in Units(e) \cap Owned(x) PROVE Ended(fates'[e][u]) /\ fates'[e][u] # {}
  <2>1. IF error # NoError /\ Outcome(error, received) THEN Ended(fates[e][u] \cup {f}) ELSE fates[e][u] # {}
    BY <1>2, <1>9 DEF x, e
  <2>2. CASE error # NoError /\ Outcome(error, received)
    <3>1. fates'[e][u] = fates[e][u] \cup {f}
      BY <1>7, <1>9, <2>2
    <3> QED
      BY <2>1, <2>2, <3>1
  <2>3. CASE ~(error # NoError /\ Outcome(error, received))
    <3>1. fates'[e][u] = fates[e][u]
      BY <1>7, <1>9, <2>3
    <3> QED
      BY <1>1, <1>9, <2>1, <2>3, <3>1
  <2> QED
    BY <2>2, <2>3
<1>10. QED
  <2>1. StepOf(p, e, v)
    BY <1>1, <1>3, <1>5, <1>6, <1>8, <1>9 DEF StepOf, x
  <2> QED
    BY <2>1, PartStep DEF e

(* The next stage, with nothing new about the units.                       *)
LEMMA GoesLedger ==
  ASSUME Inv, Ledger, NEW p \in Parts, parts[p].open, parts[p].stage \in {"queued", "sample", "state"},
         NEW stage \in {"check", "state", "process"}, Goes(p, stage), UNCHANGED <<requests, fates>>
  PROVE  Ledger'
<1> DEFINE e == p[1]
           x == parts[p]
           v == [x EXCEPT !.stage = stage]
<1>1. /\ e \in Envelopes /\ IsPart(x) /\ x.stage # "none" /\ Consistent(x, e)
      /\ \A u \in Units(e) : Ended(fates[e][u])
      /\ \A u \in Units(e) \cap Owned(x) : fates[e][u] \in Expected(x, u)
  BY PartKnown
<1>2. parts' = [parts EXCEPT ![p] = v]
  BY DEF Goes, Inv, Shapes
<1>3. v = [stage |-> stage, envelope |-> x.envelope, summary |-> x.summary, error |-> x.error, open |-> x.open]
  BY <1>1, GoneIs
<1>4. x.open /\ x.stage \in {"queued", "sample", "state"}
  OBVIOUS
<1> HIDE DEF v, x, e
<1>5. /\ v.open /\ v.stage = stage /\ v.envelope = x.envelope /\ v.summary = x.summary
  BY <1>3, <1>4
<1>6. Consistent(v, e)
  BY <1>1, <1>4, <1>5 DEF Consistent, Waiting, Messages
<1>7. Owned(v) = Owned(x)
  BY <1>4, <1>5 DEF Owned
<1>8. \A u : Expected(v, u) = {{}} /\ Expected(x, u) = {{}}
  BY <1>4, <1>5 DEF Expected, Waiting, Messages
<1>9. QED
  <2>1. StepOf(p, e, v)
    BY <1>1, <1>2, <1>5, <1>6, <1>7, <1>8 DEF StepOf, x
  <2> QED
    BY <2>1, PartStep DEF e

(* A new summary: what it no longer counts has met its end.                *)
LEMMA SummedLedger ==
  ASSUME Inv, Ledger, NEW p \in Parts, parts[p].open, parts[p].error = NoError, NEW stage \in {"sample", "upstream"},
         parts[p].stage = IF stage = "sample" THEN "checked" ELSE "processed",
         parts' = [parts EXCEPT ![p] = Summed(parts[p], stage, NewSummary(p))],
         UNCHANGED <<requests, fates>>
  PROVE  Ledger'
<1> DEFINE e == p[1]
           x == parts[p]
           v == Summed(x, stage, NewSummary(p))
<1>1. /\ e \in Envelopes /\ IsPart(x) /\ x.stage # "none" /\ Consistent(x, e)
      /\ \A u \in Units(e) : Ended(fates[e][u])
      /\ \A u \in Units(e) \cap Owned(x) : fates[e][u] \in Expected(x, u)
  BY PartKnown
<1>2. parts' = [parts EXCEPT ![p] = v]
  OBVIOUS
<1>3. v = [stage |-> stage, envelope |-> x.envelope, summary |-> NewSummary(p), error |-> x.error, open |-> x.open]
  BY <1>1, SummedIs
<1>4. /\ x.open /\ x.error = NoError
      /\ \/ x.stage = "checked" /\ stage = "sample"
         \/ x.stage = "processed" /\ stage = "upstream"
      /\ Counted(NewSummary(p)) = CountedIn(x.envelope)
  BY DEF CountedIn, NewSummary
<1> HIDE DEF v, x, e
<1>5. /\ v.open /\ v.stage = stage /\ v.envelope = x.envelope /\ Counted(v.summary) = CountedIn(x.envelope)
  BY <1>3, <1>4
<1>6. Consistent(v, e)
  BY <1>1, <1>4, <1>5 DEF Consistent, Waiting, Messages
<1>7. Owned(v) = CountedIn(x.envelope) /\ Owned(x) = Counted(x.summary)
  BY <1>4, <1>5 DEF Owned
<1>8. Units(e) \cap Owned(v) \subseteq Owned(x)
  BY <1>1, <1>4, <1>7 DEF Consistent
<1>9. \A u : /\ Expected(v, u) = {{}}
             /\ u \in CountedIn(x.envelope) => Expected(x, u) = {{}}
             /\ u \notin CountedIn(x.envelope) => Expected(x, u) \subseteq {{"checked"}, {"quota"}, {"removed"}}
  <2>1. \A u : Expected(v, u) = {{}}
    BY <1>4, <1>5 DEF Expected, Waiting, Messages
  <2>2. x.error # "Internal"
    BY <1>4 DEF NoError
  <2>3. CASE x.stage = "checked"
    BY <1>4, <2>1, <2>2, <2>3 DEF Expected, Waiting, Messages
  <2>4. CASE x.stage = "processed"
    BY <1>4, <2>1, <2>2, <2>4 DEF Expected, Waiting, Messages
  <2> QED
    BY <1>4, <2>3, <2>4
<1>10. \A u \in Units(e) \cap Owned(v) : fates[e][u] \in Expected(v, u)
  BY <1>1, <1>7, <1>8, <1>9
<1>11. ASSUME NEW u \in Units(e) \cap Owned(x), u \notin Owned(v) PROVE fates[e][u] # {}
  <2>1. fates[e][u] \in Expected(x, u)
    BY <1>1
  <2>2. fates[e][u] \in {{"checked"}, {"quota"}, {"removed"}}
    BY <1>7, <1>9, <1>11, <2>1
  <2> QED
    BY <2>2
<1>12. QED
  <2>1. StepOf(p, e, v)
    BY <1>1, <1>2, <1>5, <1>6, <1>8, <1>10, <1>11 DEF StepOf, x
  <2> QED
    BY <2>1, PartStep DEF e

(* The ends that a unit can meet one after the other.                      *)
LEMMA Ends ==
  /\ Ended({})
  /\ \A f \in Fates : Ended({} \cup {f}) /\ Ended({f} \cup {"timeout"}) /\ Ended({"timeout"} \cup {f})
  /\ Ended({"quota"} \cup {"failed"})
<1>1. \A f, g : {f} \cup {g} = {f, g} /\ {g} \cup {f} = {f, g}
  OBVIOUS
<1>2. \A f : {} \cup {f} = {f}
  OBVIOUS
<1>3. QED
  BY <1>1, <1>2 DEF Ended

(* What the units of an open part have met, by its stage.                  *)
LEMMA StageFates ==
  ASSUME Inv, Ledger, NEW p \in Parts, parts[p].open, NEW u \in Units(p[1]) \cap Counted(parts[p].summary)
  PROVE  LET x == parts[p]
             F == fates[p[1]][u]
         IN  /\ x.stage \in Waiting => F = {}
             /\ x.stage = "checked" => F \in {{}, {"checked"}}
             /\ x.stage = "checked" /\ x.error = "Internal" => F = {}
             /\ x.stage = "checked" /\ x.error = "RateLimited" => F = {"checked"}
             /\ x.stage = "processed" => F \in {{}, {"quota"}, {"removed"}}
             /\ x.stage = "processed" /\ x.error = "Internal" => F \in {{}, {"quota"}}
             /\ x.stage = "processed" /\ x.error = NoError /\ u \notin CountedIn(x.envelope) => F # {}
             /\ x.stage = "processed" /\ x.error = NoError /\ u \in CountedIn(x.envelope) => F = {}
             /\ x.stage = "answered" => F \in {{}, {"upstream"}, {"unsent"}}
             /\ x.stage = "answered" /\ x.error = "Internal" => F = {}
             /\ x.stage = "answered" /\ x.error # "Internal" => F # {}
<1> DEFINE x == parts[p]
           F == fates[p[1]][u]
<1>1. x.open /\ F \in Expected(x, u) /\ Consistent(x, p[1])
  <2>1. u \in Owned(x)
    BY DEF Owned
  <2> QED
    BY <2>1, PartKnown
<1> HIDE DEF x, F
<1>2. x.stage \in Waiting => F = {}
  BY <1>1 DEF Expected, Waiting, Messages
<1>3. x.stage = "checked" =>
        /\ F \in {{}, {"checked"}}
        /\ x.error = "Internal" => F = {}
        /\ x.error = "RateLimited" => F = {"checked"}
  <2>1. x.error = "RateLimited" /\ x.stage = "checked" => CountedIn(x.envelope) = {}
    BY <1>1, NoItems DEF Consistent
  <2> QED
    BY <1>1, <2>1 DEF Expected, Waiting, Messages
<1>4. x.stage = "processed" =>
        /\ F \in {{}, {"quota"}, {"removed"}}
        /\ x.error = "Internal" => F \in {{}, {"quota"}}
        /\ x.error = NoError /\ u \notin CountedIn(x.envelope) => F \in {{"quota"}, {"removed"}}
        /\ x.error = NoError /\ u \in CountedIn(x.envelope) => F = {}
  BY <1>1 DEF Expected, Waiting, Messages, NoError
<1>5. x.stage = "answered" =>
        /\ F \in {{}, {"upstream"}, {"unsent"}}
        /\ x.error = "Internal" => F = {}
        /\ x.error # "Internal" => F \in {{"upstream"}, {"unsent"}}
  BY <1>1 DEF Expected, Waiting, Messages
<1>6. {"quota"} # {} /\ {"removed"} # {} /\ {"upstream"} # {} /\ {"unsent"} # {}
  OBVIOUS
<1>7. QED
  BY <1>2, <1>3, <1>4, <1>5, <1>6 DEF x, F

(* One lemma for every action follows.                                     *)
LEMMA CheckedLedger ==
  ASSUME Inv, Ledger, NEW p \in Parts, Checked(p)
  PROVE  Ledger'
<1>1. parts[p].open /\ parts[p].stage = "checked" /\ UNCHANGED requests
  BY DEF Checked
<1>2. CASE parts[p].error # NoError /\ Finish(p, parts[p].error, FALSE, "done", fates)
  <2> DEFINE error == parts[p].error
  <2>1. error \in {"Internal", "RateLimited"}
    BY <1>1, <1>2, PartKnown DEF Consistent
  <2>2. /\ error # "Timeout" /\ "failed" \in Fates
        /\ Outcome(error, FALSE) <=> error = "Internal"
    BY <2>1 DEF Outcome, WithoutOutcome, Fates
  <2>3. ASSUME NEW u \in Units(p[1]) \cap Counted(parts[p].summary)
        PROVE  IF error # NoError /\ Outcome(error, FALSE) THEN Ended(fates[p[1]][u] \cup {"failed"})
               ELSE fates[p[1]][u] # {}
    <3>1. /\ error = "Internal" => fates[p[1]][u] = {}
          /\ error = "RateLimited" => fates[p[1]][u] = {"checked"}
      BY <1>1, StageFates
    <3>2. Ended({} \cup {"failed"}) /\ {"checked"} # {}
      BY <2>2, Ends
    <3> QED
      BY <1>2, <2>1, <2>2, <3>1, <3>2
  <2> QED
    BY <1>1, <1>2, <2>2, <2>3, FinishLedger
<1>3. CASE /\ parts[p].error = NoError
           /\ parts' = [parts EXCEPT ![p].stage = "sample", ![p].summary = NewSummary(p)]
           /\ UNCHANGED fates
  <2>1. parts' = [parts EXCEPT ![p] = Summed(parts[p], "sample", NewSummary(p))]
    BY <1>3 DEF Inv, Shapes, Summed
  <2> QED
    BY <1>1, <1>3, <2>1, SummedLedger
<1>4. QED
  BY <1>2, <1>3 DEF Checked

LEMMA SampleTraceLedger ==
  ASSUME Inv, Ledger, NEW p \in Parts, SampleTrace(p) \/ GetProjectState(p)
  PROVE  Ledger'
<1>1. parts[p].open /\ parts[p].stage \in {"sample", "state"} /\ UNCHANGED requests
  BY DEF SampleTrace, GetProjectState
<1>2. ASSUME NEW error \in {"TraceSampled", "ProjectFailed"}, Finish(p, error, FALSE, "done", fates)
      PROVE  Ledger'
  <2>1. /\ error # "Timeout" /\ "failed" \in Fates /\ error # NoError /\ Outcome(error, FALSE)
    BY DEF Outcome, WithoutOutcome, Fates, NoError
  <2>2. ASSUME NEW u \in Units(p[1]) \cap Counted(parts[p].summary)
        PROVE  Ended(fates[p[1]][u] \cup {"failed"})
    <3>1. fates[p[1]][u] = {}
      BY <1>1, StageFates DEF Waiting
    <3>2. Ended({} \cup {"failed"})
      BY <2>1, Ends
    <3> QED
      BY <3>1, <3>2
  <2> QED
    BY <1>1, <1>2, <2>1, <2>2, FinishLedger
<1>3. ASSUME NEW stage \in {"state", "process"}, Goes(p, stage), UNCHANGED fates
      PROVE  Ledger'
  BY <1>1, <1>3, GoesLedger
<1>4. QED
  BY <1>2, <1>3 DEF SampleTrace, GetProjectState

LEMMA AnsweredLedger ==
  ASSUME Inv, Ledger, NEW p \in Parts, Answered(p)
  PROVE  Ledger'
<1> DEFINE error == parts[p].error
<1>1. /\ parts[p].open /\ parts[p].stage = "answered" /\ UNCHANGED requests
      /\ Finish(p, error, Received(error), "done", fates)
  BY DEF Answered
<1>2. error \in {NoError, "Internal", "RateLimited", "ResponseError", "SendFailed"}
  BY <1>1, PartKnown DEF Consistent
<1>3. /\ error # "Timeout" /\ "failed" \in Fates
      /\ error # NoError /\ Outcome(error, Received(error)) <=> error = "Internal"
  BY <1>2 DEF Outcome, WithoutOutcome, Received, Fates, NoError
<1>4. ASSUME NEW u \in Units(p[1]) \cap Counted(parts[p].summary)
      PROVE  IF error # NoError /\ Outcome(error, Received(error)) THEN Ended(fates[p[1]][u] \cup {"failed"})
             ELSE fates[p[1]][u] # {}
  <2>1. /\ error = "Internal" => fates[p[1]][u] = {}
        /\ error # "Internal" => fates[p[1]][u] # {}
    BY <1>1, StageFates
  <2>2. Ended({} \cup {"failed"})
    BY <1>3, Ends
  <2> QED
    BY <1>3, <2>1, <2>2
<1>5. QED
  BY <1>1, <1>3, <1>4, FinishLedger

LEMMA ProcessedLedger ==
  ASSUME Inv, Ledger, NEW p \in Parts, Processed(p)
  PROVE  Ledger'
<1> DEFINE e == p[1]
           x == parts[p]
<1>1. /\ x.open /\ x.stage = "processed" /\ UNCHANGED requests
      /\ e \in Envelopes /\ Consistent(x, e) /\ FatesOK(fates) /\ \A u \in Units(e) : Ended(fates[e][u])
  BY PartKnown DEF Processed
<1>2. x.error \in {NoError, "Internal"} /\ CountedIn(x.envelope) \cap Units(e) \subseteq Counted(x.summary)
  BY <1>1 DEF Consistent
<1>3. CASE x.error # NoError /\ Finish(p, x.error, FALSE, "done", fates)
  <2>1. /\ x.error = "Internal" /\ x.error # "Timeout" /\ "failed" \in Fates /\ Outcome(x.error, FALSE)
    BY <1>2, <1>3 DEF Outcome, WithoutOutcome, Fates
  <2>2. ASSUME NEW u \in Units(e) \cap Counted(x.summary)
        PROVE  Ended(fates[e][u] \cup {"failed"})
    <3>1. fates[e][u] \in {{}, {"quota"}}
      BY <1>1, <2>1, StageFates
    <3>2. Ended({} \cup {"failed"}) /\ Ended({"quota"} \cup {"failed"})
      BY <2>1, Ends
    <3> QED
      BY <3>1, <3>2
  <2> QED
    BY <1>1, <1>3, <2>1, <2>2, FinishLedger
<1>4. CASE x.error = NoError /\ x.envelope = <<>> /\ Finish(p, "RateLimited", FALSE, "done", fates)
  <2>1. "failed" \in Fates /\ ~Outcome("RateLimited", FALSE) /\ "RateLimited" # "Timeout"
    BY DEF Outcome, WithoutOutcome, Fates
  <2>2. CountedIn(x.envelope) = {}
    BY <1>4, NoItems
  <2>3. ASSUME NEW u \in Units(e) \cap Counted(x.summary)
        PROVE  fates[e][u] # {}
    BY <1>1, <1>4, <2>2, StageFates
  <2> QED
    BY <1>1, <1>4, <2>1, <2>3, FinishLedger
<1>5. CASE /\ x.error = NoError
           /\ parts' = [parts EXCEPT ![p] = [x EXCEPT !.stage = "upstream", !.summary = NewSummary(p)]]
           /\ UNCHANGED fates
  <2>1. parts' = [parts EXCEPT ![p] = Summed(parts[p], "upstream", NewSummary(p))]
    BY <1>5 DEF Summed
  <2> QED
    BY <1>1, <1>5, <2>1, SummedLedger
<1>6. CASE /\ x.error = NoError /\ parts' = [parts EXCEPT ![p] = NoPart("done")]
           /\ fates' = Fate(fates, e, Counted(NewSummary(p)), "upstream")
  <2> DEFINE g == Fate(fates, e, Counted(NewSummary(p)), "upstream")
             v == NoPart("done")
  <2>1. Counted(NewSummary(p)) = CountedIn(x.envelope)
    BY DEF NewSummary, CountedIn
  <2>2. "upstream" \in Fates
    BY DEF Fates
  <2>3. /\ \A d \in Envelopes \ {e} : g[d] = fates[d]
        /\ \A u \in Units(e) : g[e][u] = IF u \in CountedIn(x.envelope) THEN fates[e][u] \cup {"upstream"}
                                         ELSE fates[e][u]
    <3> DEFINE us == CountedIn(x.envelope)
    <3>1. g = Fate(fates, e, us, "upstream")
      BY <2>1
    <3> HIDE DEF us, x, e, g
    <3>2. /\ \A d \in Envelopes \ {e} : g[d] = fates[d]
          /\ \A u \in Units(e) : g[e][u] = IF u \in us THEN fates[e][u] \cup {"upstream"} ELSE fates[e][u]
      BY <1>1, <2>2, <3>1, FateOf
    <3> QED
      BY <3>2 DEF us
  <2>4. Consistent(v, e) /\ Owned(v) = {}
    BY Vacant
  <2>5. fates' = g /\ x.stage # "none" /\ Owned(x) = Counted(x.summary)
    BY <1>1, <1>6 DEF Owned
  <2> HIDE DEF g, v
  <2>6. ASSUME NEW u \in Units(e) \cap Owned(x)
        PROVE  Ended(fates'[e][u]) /\ fates'[e][u] # {}
    <3>1. CASE u \in CountedIn(x.envelope)
      <4>1. fates[e][u] = {}
        BY <1>1, <1>6, <2>5, <3>1, StageFates
      <4>2. fates'[e][u] = {} \cup {"upstream"}
        BY <2>3, <2>5, <3>1, <4>1
      <4>3. Ended({} \cup {"upstream"}) /\ {} \cup {"upstream"} # {}
        BY <2>2, Ends
      <4> QED
        BY <4>2, <4>3
    <3>2. CASE u \notin CountedIn(x.envelope)
      <4>1. fates'[e][u] = fates[e][u]
        BY <2>3, <2>5, <3>2
      <4>2. fates[e][u] # {}
        BY <1>1, <1>6, <2>5, <3>2, StageFates
      <4> QED
        BY <1>1, <4>1, <4>2
    <3> QED
      BY <3>1, <3>2
  <2>7. \A u \in Units(e) \ Owned(x) : fates'[e][u] = fates[e][u]
    BY <1>2, <2>3, <2>5
  <2>8. StepOf(p, e, v)
    BY <1>1, <1>6, <2>3, <2>4, <2>5, <2>6, <2>7 DEF StepOf, v
  <2> QED
    BY <2>8, PartStep
<1>7. QED
  BY <1>3, <1>4, <1>5, <1>6 DEF Processed

(* The timer of a future fires. A message that it waits for is left behind *)
(* with units whose one end is the timeout.                                *)
LEMMA TimeoutLedger ==
  ASSUME Inv, Ledger, NEW p \in Parts, Timeout(p)
  PROVE  Ledger'
<1> DEFINE e == p[1]
           x == parts[p]
           S == Counted(x.summary)
<1>1. /\ x.open /\ x.stage # "none" /\ UNCHANGED requests /\ Finish(p, "Timeout", FALSE, Outstanding(p), fates)
      /\ e \in Envelopes /\ IsPart(x) /\ Consistent(x, e) /\ FatesOK(fates)
  BY PartKnown DEF Timeout
<1>2. "timeout" \in Fates /\ "Timeout" # NoError /\ Outcome("Timeout", FALSE)
  BY DEF Fates, NoError, Outcome, WithoutOutcome
<1>3. \A u \in Units(e) \cap S : fates[e][u] \in {{}, {"checked"}, {"quota"}, {"removed"}, {"upstream"}, {"unsent"}}
  <2> SUFFICES ASSUME NEW u \in Units(e) \cap S
               PROVE  fates[e][u] \in {{}, {"checked"}, {"quota"}, {"removed"}, {"upstream"}, {"unsent"}}
    OBVIOUS
  <2>1. x.stage \in Waiting \cup {"checked", "processed", "answered"}
    BY <1>1 DEF IsPart, Stages, Waiting
  <2> QED
    BY <1>1, <2>1, StageFates
<1>4. \A u \in Units(e) \cap S : Ended(fates[e][u] \cup {"timeout"})
  <2>1. {"checked", "quota", "removed", "upstream", "unsent"} \subseteq Fates
    BY DEF Fates
  <2>2. \A F \in {{}, {"checked"}, {"quota"}, {"removed"}, {"upstream"}, {"unsent"}} : Ended(F \cup {"timeout"})
    BY <1>2, <2>1, Ends
  <2> QED
    BY <1>3, <2>2
<1>5. CASE Outstanding(p) = "done"
  BY <1>1, <1>2, <1>4, <1>5, FinishLedger
<1>6. CASE Outstanding(p) # "done"
  <2> DEFINE y == NoPart(x.stage)
             v == [y EXCEPT !.envelope = x.envelope]
             g == Fate(fates, e, S, "timeout")
  <2>1. x.stage \in Messages /\ Outstanding(p) = x.stage
    BY <1>6 DEF Outstanding
  <2>2. parts' = [parts EXCEPT ![p] = v] /\ fates' = g
    BY <1>1, <1>2, <1>6, <2>1 DEF Finish
  <2>3. v.stage = x.stage /\ v.envelope = x.envelope /\ ~v.open
    BY DEF NoPart
  <2>4. /\ \A d \in Envelopes \ {e} : g[d] = fates[d]
        /\ \A u \in Units(e) : g[e][u] = IF u \in S THEN fates[e][u] \cup {"timeout"} ELSE fates[e][u]
    <3> HIDE DEF S, x, e
    <3> QED
      BY <1>1, <1>2, FateOf
  <2>5. \A u \in Units(e) \cap S : fates[e][u] = {}
    BY <1>1, <2>1, StageFates DEF Waiting
  <2> HIDE DEF v, g, x, e
  <2>6. Consistent(v, e)
    BY <1>1, <2>1, <2>3 DEF Consistent, Messages
  <2>7. Owned(v) = S /\ Owned(x) = S
    BY <1>1, <2>1, <2>3 DEF Owned, Consistent, Waiting
  <2> HIDE DEF S
  <2>8. \A u : Expected(v, u) = {{"timeout"}}
    BY <2>3 DEF Expected
  <2>9. \A u \in Units(e) \cap S : fates'[e][u] = {"timeout"} /\ Ended(fates'[e][u]) /\ fates'[e][u] # {}
    <3>1. {} \cup {"timeout"} = {"timeout"} /\ {"timeout"} # {}
      OBVIOUS
    <3>2. Ended({"timeout"})
      BY <1>2, <3>1, Ends
    <3> QED
      BY <2>2, <2>4, <2>5, <3>1, <3>2
  <2>10. \A u \in Units(e) \ S : fates'[e][u] = fates[e][u]
    BY <2>2, <2>4
  <2>11. StepOf(p, e, v)
    BY <1>1, <2>2, <2>4, <2>6, <2>7, <2>8, <2>9, <2>10 DEF StepOf, x
  <2> QED
    BY <2>11, PartStep DEF e
<1>7. QED
  BY <1>5, <1>6

(* A part to which a handler has answered.                                 *)
Reply(x, stage, envelope, error) ==
  [stage |-> stage, envelope |-> envelope, summary |-> x.summary, error |-> Kind(error), open |-> TRUE]

(* A handler gives the fates D to the units of an envelope.                *)
Gives(p, e, D) ==
  /\ UNCHANGED requests
  /\ \A d \in Envelopes \ {e} : fates'[d] = fates[d]
  /\ \A u \in Units(e) :
       /\ fates'[e][u] = fates[e][u] \cup D[u]
       /\ D[u] = {} \/ \E f \in Fates : D[u] = {f}
       /\ u \notin CountedIn(parts[p].envelope) => D[u] = {}

(* A handler answers: what it has reported is one end of its units, or     *)
(* comes in addition to the timeout.                                       *)
LEMMA AnswerLedger ==
  ASSUME Inv, Ledger, NEW p \in Parts, NEW e, e = p[1], parts[p].stage \in Messages,
         NEW stage, NEW envelope, NEW error, Answer(p, stage, envelope, error),
         NEW D, Gives(p, e, D), NEW y, y = Reply(parts[p], stage, envelope, error),
         parts[p].open => Consistent(y, e),
         \A u \in Units(e) \cap CountedIn(parts[p].envelope) : D[u] \in Expected(y, u)
  PROVE  Ledger'
<1> DEFINE x == parts[p]
           C == CountedIn(x.envelope)
           v == IF x.open THEN Replied(x, stage, envelope, Kind(error)) ELSE NoPart("done")
<1>1. /\ e \in Envelopes /\ IsPart(x) /\ Consistent(x, e) /\ x.stage # "none"
      /\ \A u \in Units(e) : Ended(fates[e][u])
      /\ \A u \in Units(e) \cap Owned(x) : fates[e][u] \in Expected(x, u)
  BY PartKnown DEF Messages
<1>2. parts' = [parts EXCEPT ![p] = v]
  BY DEF Answer, Replied
<1>3. Owned(x) = C
  BY <1>1 DEF Owned, Consistent, Waiting
<1>4. x.open = TRUE \/ x.open = FALSE
  BY <1>1 DEF IsPart
<1>5. \A u \in Units(e) \ C : fates'[e][u] = fates[e][u]
  <2> SUFFICES ASSUME NEW u \in Units(e), u \notin C PROVE fates'[e][u] = fates[e][u]
    OBVIOUS
  <2>1. fates'[e][u] = fates[e][u] \cup D[u] /\ D[u] = {}
    BY DEF Gives
  <2> QED
    BY ONLY <2>1
<1>6. x.stage \in Waiting
  BY DEF Waiting
<1>7. CASE x.open
  <2>1. v = y
    <3>1. v = Replied(x, stage, envelope, Kind(error))
      BY <1>7
    <3>2. x.open = TRUE
      BY <1>4, <1>7
    <3> HIDE DEF v, x
    <3>3. v = [stage |-> stage, envelope |-> envelope, summary |-> x.summary, error |-> Kind(error), open |-> TRUE]
      BY <1>1, <3>1, <3>2, RepliedIs
    <3> QED
      BY <3>3 DEF Reply, x
  <2>2. y.open /\ y.summary = x.summary
    BY DEF Reply
  <2>3. Owned(y) = Owned(x)
    BY <1>7, <2>2 DEF Owned
  <2>4. \A u \in Units(e) \cap C : fates[e][u] = {}
    BY <1>1, <1>3, <1>6, <1>7 DEF Expected, Waiting, Messages
  <2>5. \A u \in Units(e) \cap C : fates'[e][u] = D[u] /\ Ended(D[u])
    <3> SUFFICES ASSUME NEW u \in Units(e) \cap C PROVE fates'[e][u] = D[u] /\ Ended(D[u])
      OBVIOUS
    <3>1. Ended({}) /\ \A f \in Fates : Ended({f})
      BY DEF Ended
    <3>2. fates[e][u] = {}
      BY <2>4
    <3>3. fates'[e][u] = fates[e][u] \cup D[u] /\ (D[u] = {} \/ \E f \in Fates : D[u] = {f})
      BY DEF Gives
    <3> QED
      BY ONLY <3>1, <3>2, <3>3
  <2> HIDE DEF v, C
  <2>6. StepOf(p, e, y)
    BY <1>1, <1>2, <1>3, <1>5, <1>7, <2>1, <2>2, <2>3, <2>5 DEF StepOf, Gives, C
  <2> QED
    BY <2>6, PartStep
<1>8. CASE ~x.open
  <2>1. v = NoPart("done") /\ Consistent(NoPart("done"), e) /\ Owned(NoPart("done")) = {}
    BY <1>8, Vacant
  <2>2. \A u \in Units(e) \cap C : fates[e][u] = {"timeout"}
    BY <1>1, <1>3, <1>8 DEF Expected
  <2>3. \A u \in Units(e) \cap C : Ended(fates'[e][u]) /\ fates'[e][u] # {}
    <3> SUFFICES ASSUME NEW u \in Units(e) \cap C PROVE Ended(fates'[e][u]) /\ fates'[e][u] # {}
      OBVIOUS
    <3>1. fates'[e][u] = {"timeout"} \cup D[u]
      BY <2>2 DEF Gives
    <3>2. CASE D[u] = {}
      BY <1>1, <2>2, <3>1, <3>2
    <3>3. CASE \E f \in Fates : D[u] = {f}
      BY <3>1, <3>3, Ends
    <3> QED
      BY <3>2, <3>3 DEF Gives
  <2> HIDE DEF v, C
  <2>4. StepOf(p, e, NoPart("done"))
    BY <1>1, <1>2, <1>3, <1>5, <2>1, <2>3 DEF StepOf, Gives
  <2> QED
    BY <2>4, PartStep
<1>9. QED
  BY <1>7, <1>8

(* What EnvelopeLimiter takes is what is no longer counted.                *)
LEMMA TakesUnits ==
  ASSUME NEW s, NEW limited, NEW left, NEW enforced, Takes(s, NoCategory, limited, left, enforced)
  PROVE  /\ CountedIn(left) \cap Limited(enforced) = {}
         /\ CountedIn(left) \cup Limited(enforced) = CountedIn(s)
<1>1. /\ enforced.event \in BOOLEAN /\ (enforced.event => HasEvent(s))
      /\ HasEvent(left) <=> HasEvent(s) /\ ~enforced.event
      /\ Attached(left) \cap enforced.attachments = {}
      /\ Attached(left) \cup enforced.attachments = Attached(s)
  BY DEF Takes
<1>2. ASSUME NEW u PROVE ~(u \in CountedIn(left) /\ u \in Limited(enforced))
  <2>1. CASE u = <<EventUnit>>
    BY <1>1, <2>1, CountedUnits, LimitedUnits
  <2>2. ASSUME NEW n, u = <<"attachment", n>> PROVE ~(u \in CountedIn(left) /\ u \in Limited(enforced))
    BY <1>1, <2>2, CountedUnits, LimitedUnits
  <2> QED
    BY <2>1, <2>2, CountedUnits
<1>3. ASSUME NEW u PROVE u \in CountedIn(s) <=> u \in CountedIn(left) \/ u \in Limited(enforced)
  <2>1. CASE u = <<EventUnit>>
    BY <1>1, <2>1, CountedUnits, LimitedUnits
  <2>2. ASSUME NEW n, u = <<"attachment", n>>
        PROVE  u \in CountedIn(s) <=> u \in CountedIn(left) \/ u \in Limited(enforced)
    BY <1>1, <2>2, CountedUnits, LimitedUnits
  <2>3. CASE u # <<EventUnit>> /\ \A n : u # <<"attachment", n>>
    BY <1>1, <2>3, CountedUnits, LimitedUnits
  <2> QED
    BY <2>1, <2>2, <2>3
<1>4. QED
  BY <1>2, <1>3

(* What a worker makes of the units of an envelope.                        *)
LEMMA ResultUnits ==
  ASSUME NEW e \in Envelopes, NEW envelope, Named(envelope, e), NEW t, Result(t, envelope)
  PROVE  /\ Limited(t.enforced) \cap Units(e) \subseteq CountedIn(envelope)
         /\ CountedIn(t.envelope) \cap Units(e) \subseteq CountedIn(envelope)
         /\ CountedIn(t.envelope) \cap Limited(t.enforced) = {}
<1>1. NewNames(envelope) \cap Names(e) = {}
  <2> SUFFICES ASSUME NEW x \in Items(envelope), NEW i \in 1 .. 3, NewName(x.name, i) \in Names(e) PROVE FALSE
    BY DEF NewNames
  <2>1. PICK y \in Items(Content[e]) : x.name = y.name
    BY DEF Named, Names
  <2>2. PICK z \in Items(Content[e]) : NewName(x.name, i) = z.name
    BY DEF Names
  <2> QED
    BY <2>1, <2>2, ContentAssumption
<1>2. \A n : <<"attachment", n>> \in Units(e) => n \in Names(e)
  BY DEF Units, EventUnit
<1>3. /\ t.enforced.event \in BOOLEAN /\ (t.enforced.event => HasEvent(envelope))
      /\ HasEvent(t.envelope) => HasEvent(envelope) /\ ~t.enforced.event
      /\ t.enforced.attachments \subseteq Attached(envelope) \cup NewNames(envelope)
      /\ Attached(t.envelope) \subseteq Attached(envelope) \cup NewNames(envelope)
      /\ Attached(t.envelope) \cap t.enforced.attachments = {}
  BY DEF Result
<1>4. ASSUME NEW u \in Limited(t.enforced) \cap Units(e) PROVE u \in CountedIn(envelope)
  <2>1. CASE u = <<EventUnit>>
    BY <1>3, <2>1, CountedUnits, LimitedUnits
  <2>2. ASSUME NEW n \in t.enforced.attachments, u = <<"attachment", n>> PROVE u \in CountedIn(envelope)
    BY <1>1, <1>2, <1>3, <2>2, CountedUnits
  <2> QED
    BY <1>3, <2>1, <2>2, LimitedUnits
<1>5. ASSUME NEW u \in CountedIn(t.envelope) \cap Units(e) PROVE u \in CountedIn(envelope)
  <2>1. CASE u = <<EventUnit>>
    BY <1>3, <2>1, CountedUnits
  <2>2. ASSUME NEW n \in Attached(t.envelope), u = <<"attachment", n>> PROVE u \in CountedIn(envelope)
    BY <1>1, <1>2, <1>3, <2>2, CountedUnits
  <2> QED
    BY <2>1, <2>2, CountedUnits
<1>6. ASSUME NEW u \in CountedIn(t.envelope), u \in Limited(t.enforced) PROVE FALSE
  <2>1. CASE u = <<EventUnit>>
    BY <1>3, <1>6, <2>1, CountedUnits, LimitedUnits
  <2>2. ASSUME NEW n \in Attached(t.envelope), u = <<"attachment", n>> PROVE FALSE
    BY <1>3, <1>6, <2>2, LimitedUnits
  <2> QED
    BY <2>1, <2>2, CountedUnits
<1>7. QED
  BY <1>4, <1>5, <1>6

LEMMA CheckEnvelopeLedger ==
  ASSUME Inv, Ledger, NEW p \in Parts, CheckEnvelope(p)
  PROVE  Ledger'
<1> DEFINE e == p[1]
           x == parts[p]
           C == CountedIn(x.envelope)
<1>1. /\ x.stage = "check" /\ UNCHANGED requests
      /\ e \in Envelopes /\ Consistent(x, e) /\ FatesOK(fates)
  BY PartKnown DEF CheckEnvelope
<1>2. /\ x.envelope \in Seq(Item) /\ Named(x.envelope, e) /\ x.stage \in Messages
      /\ x.open => C = Counted(x.summary)
  BY <1>1 DEF Consistent, Waiting, Messages
<1>3. ASSUME NEW error \in {"ScheduleFailed", "ProjectFailed", "Rejected"},
             Answer(p, "checked", x.envelope, error), UNCHANGED fates
      PROVE  Ledger'
  <2> DEFINE D == [u \in Units(e) |-> {}]
             y == Reply(x, "checked", x.envelope, error)
  <2>1. \A u \in Units(e) : D[u] = {} /\ fates'[e][u] = fates[e][u] \cup {}
    BY <1>3
  <2>2. y.stage = "checked" /\ y.envelope = x.envelope /\ y.summary = x.summary /\ y.error = "Internal" /\ y.open
    BY <1>3 DEF Reply, Kind, NoError
  <2> HIDE DEF D, y, x, e
  <2>3. Gives(p, e, D)
    BY <1>1, <1>3, <2>1 DEF Gives
  <2>4. x.open => Consistent(y, e)
    BY <1>2, <2>2 DEF Consistent, Waiting, Messages
  <2>5. \A u : Expected(y, u) = {{}}
    BY <2>2 DEF Expected, Waiting, Messages
  <2>6. \A u \in Units(e) : D[u] \in Expected(y, u)
    BY <2>1, <2>5
  <2> QED
    BY <1>2, <1>3, <2>3, <2>4, <2>6, AnswerLedger DEF x, e, y
<1>4. ASSUME NEW limited, NEW left, NEW enforced,
             left = enforce(x.envelope, NoCategory, limited).envelope,
             enforced = enforce(x.envelope, NoCategory, limited).enforcement,
             Answer(p, "checked", left, IF left = <<>> THEN "RateLimited" ELSE NoError),
             fates' = Fate(fates, e, Limited(enforced), "checked")
      PROVE  Ledger'
  <2> DEFINE error == IF left = <<>> THEN "RateLimited" ELSE NoError
             L == Limited(enforced)
             D == [u \in Units(e) |-> IF u \in L THEN {"checked"} ELSE {}]
             y == Reply(x, "checked", left, error)
  <2>1. Takes(x.envelope, NoCategory, limited, left, enforced)
    BY <1>2, <1>4, Enforced
  <2>2. CountedIn(left) \cap L = {} /\ CountedIn(left) \cup L = C
    BY <2>1, TakesUnits
  <2>3. left \in Seq(Item) /\ Named(left, e)
    BY <1>2, <2>1 DEF Takes, Named
  <2>4. "checked" \in Fates
    BY DEF Fates
  <2>5. /\ y.stage = "checked" /\ y.envelope = left /\ y.summary = x.summary /\ y.open
        /\ y.error \in {NoError, "RateLimited"} /\ (y.error = "RateLimited" => left = <<>>)
    BY DEF Reply, Kind, NoError
  <2>6. \A u \in Units(e) : D[u] = IF u \in L THEN {"checked"} ELSE {}
    OBVIOUS
  <2> HIDE DEF D, y, x, e, L, C, error
  <2>7. /\ \A d \in Envelopes \ {e} : fates'[d] = fates[d]
        /\ \A u \in Units(e) : fates'[e][u] = IF u \in L THEN fates[e][u] \cup {"checked"} ELSE fates[e][u]
    <3>1. fates' = Fate(fates, e, L, "checked")
      BY <1>4 DEF L
    <3> QED
      BY <1>1, <2>4, <3>1, FateOf
  <2>8. \A u \in Units(e) : /\ fates'[e][u] = fates[e][u] \cup D[u]
                            /\ D[u] = {} \/ \E f \in Fates : D[u] = {f}
                            /\ u \notin C => D[u] = {}
    BY <2>2, <2>4, <2>6, <2>7
  <2>9. Gives(p, e, D)
    BY <1>1, <2>7, <2>8 DEF Gives, C, x
  <2>10. x.open => Consistent(y, e)
    BY <1>2, <2>2, <2>3, <2>5 DEF Consistent, Waiting, Messages
  <2>11. \A u : Expected(y, u) = IF u \in CountedIn(left) THEN {{}} ELSE {{"checked"}}
    BY <2>5 DEF Expected, Waiting, Messages, NoError
  <2>12. \A u \in Units(e) \cap C : D[u] \in Expected(y, u)
    BY <2>2, <2>6, <2>11
  <2>13. Answer(p, "checked", left, error)
    BY <1>4 DEF error
  <2> QED
    BY <1>2, <2>9, <2>10, <2>12, <2>13, AnswerLedger DEF x, e, y, C
<1>5. QED
  BY <1>3, <1>4 DEF CheckEnvelope

LEMMA UpstreamLedger ==
  ASSUME Inv, Ledger, NEW p \in Parts, Upstream(p)
  PROVE  Ledger'
<1> DEFINE e == p[1]
           x == parts[p]
           C == CountedIn(x.envelope)
           received == {NoError, "RateLimited", "ResponseError"}
<1>1. /\ x.stage = "upstream" /\ UNCHANGED requests
      /\ e \in Envelopes /\ Consistent(x, e) /\ FatesOK(fates)
  BY PartKnown DEF Upstream
<1>2. x.envelope \in Seq(Item) /\ x.stage \in Messages
  BY <1>1 DEF Consistent, Messages
<1>3. PICK error \in {NoError, "ScheduleFailed", "StoreFailed", "RateLimited", "ResponseError", "SendFailed"} :
        /\ Answer(p, "answered", x.envelope, error)
        /\ fates' = CASE error \in received -> Fate(fates, e, C, "upstream")
                      [] error = "SendFailed" -> Fate(fates, e, C, "unsent")
                      [] OTHER -> fates
  BY DEF Upstream, CountedIn
<1> DEFINE end == IF error \in received THEN {"upstream"} ELSE IF error = "SendFailed" THEN {"unsent"} ELSE {}
           D == [u \in Units(e) |-> IF u \in C THEN end ELSE {}]
           y == Reply(x, "answered", x.envelope, error)
<1>4. /\ "upstream" \in Fates /\ "unsent" \in Fates
  BY DEF Fates
<1>5. /\ y.stage = "answered" /\ y.envelope = x.envelope /\ y.open
      /\ y.error \in {NoError, "Internal", "RateLimited", "ResponseError", "SendFailed"}
      /\ error \in received \cup {"SendFailed"} => y.error = error
      /\ error \notin received \cup {"SendFailed"} => y.error = "Internal"
  BY DEF Reply, Kind, NoError
<1>6. \A u \in Units(e) : D[u] = IF u \in C THEN end ELSE {}
  OBVIOUS
<1> HIDE DEF D, y, x, e, C
<1>7. /\ \A d \in Envelopes \ {e} : fates'[d] = fates[d]
      /\ \A u \in Units(e) : fates'[e][u] = IF u \in C THEN fates[e][u] \cup end ELSE fates[e][u]
  <2>1. ASSUME NEW f \in Fates, fates' = Fate(fates, e, C, f)
        PROVE  /\ \A d \in Envelopes \ {e} : fates'[d] = fates[d]
               /\ \A u \in Units(e) : fates'[e][u] = IF u \in C THEN fates[e][u] \cup {f} ELSE fates[e][u]
    BY <1>1, <2>1, FateOf
  <2>2. CASE error \in received
    <3>1. fates' = Fate(fates, e, C, "upstream") /\ end = {"upstream"}
      BY <1>3, <2>2 DEF NoError
    <3> HIDE DEF end
    <3> QED
      BY <1>4, <2>1, <3>1
  <2>3. CASE error = "SendFailed"
    <3>1. fates' = Fate(fates, e, C, "unsent") /\ end = {"unsent"}
      BY <1>3, <2>3 DEF NoError
    <3> HIDE DEF end
    <3> QED
      BY <1>4, <2>1, <3>1
  <2>4. CASE error \notin received /\ error # "SendFailed"
    <3>1. fates' = fates /\ end = {}
      BY <1>3, <2>4
    <3> QED
      BY <3>1
  <2> QED
    BY <2>2, <2>3, <2>4
<1>8. end = {} \/ \E f \in Fates : end = {f}
  BY <1>4
<1> HIDE DEF end
<1>9. Gives(p, e, D)
  BY <1>1, <1>6, <1>7, <1>8 DEF Gives, C, x
<1>10. Consistent(y, e)
  BY <1>2, <1>5 DEF Consistent, Waiting, Messages
<1>11. \A u : end \in Expected(y, u)
  BY <1>5 DEF Expected, Waiting, Messages, NoError, end
<1>12. \A u \in Units(e) \cap C : D[u] \in Expected(y, u)
  BY <1>6, <1>11
<1>13. QED
  BY <1>2, <1>3, <1>9, <1>10, <1>12, AnswerLedger DEF x, e, y, C

LEMMA ProcessEnvelopeLedger ==
  ASSUME Inv, Ledger, NEW p \in Parts, ProcessEnvelope(p)
  PROVE  Ledger'
<1> DEFINE e == p[1]
           x == parts[p]
           C == CountedIn(x.envelope)
<1>1. /\ x.stage = "process" /\ UNCHANGED requests
      /\ e \in Envelopes /\ Consistent(x, e) /\ FatesOK(fates)
  BY PartKnown DEF ProcessEnvelope
<1>2. /\ x.envelope \in Seq(Item) /\ Named(x.envelope, e) /\ x.stage \in Messages
      /\ x.open => C = Counted(x.summary)
  BY <1>1 DEF Consistent, Waiting, Messages
<1>3. PICK result \in process_state(x.envelope, mode = "Store") :
        /\ parts' = [parts EXCEPT ![p] =
                       IF x.open
                       THEN [x EXCEPT !.stage = "processed", !.envelope = result.envelope, !.error = Kind(result.error)]
                       ELSE NoPart("done")]
        /\ fates' = LET tracked == Fate(fates, e, Limited(result.enforced), "quota")
                        removed == (C \ CountedIn(result.envelope)) \ Limited(result.enforced)
                    IN  IF result.error = NoError THEN Fate(tracked, e, removed, "removed") ELSE tracked
  BY DEF ProcessEnvelope, CountedIn
<1> DEFINE left == result.envelope
           L == Limited(result.enforced)
           R == (C \ CountedIn(left)) \ L
           tracked == Fate(fates, e, L, "quota")
           D == [u \in Units(e) |-> IF u \in L THEN {"quota"}
                                    ELSE IF result.error = NoError /\ u \in R THEN {"removed"} ELSE {}]
           y == Reply(x, "processed", left, result.error)
<1>4. Answer(p, "processed", left, result.error)
  BY <1>3 DEF Answer
<1>5. Result(result, x.envelope)
  <2>1. (mode = "Store") \in BOOLEAN
    OBVIOUS
  <2> QED
    BY <1>2, <1>3, <2>1, ProcessState
<1>6. L \cap Units(e) \subseteq C /\ CountedIn(left) \cap Units(e) \subseteq C /\ CountedIn(left) \cap L = {}
  <2> HIDE DEF e, x
  <2> QED
    BY <1>1, <1>2, <1>5, ResultUnits
<1>7. left \in Seq(Item) /\ result.error \notin {"RateLimited", "SendFailed", "ResponseError"}
  BY <1>5 DEF Result
<1>8. /\ y.stage = "processed" /\ y.envelope = left /\ y.summary = x.summary /\ y.open
      /\ y.error = IF result.error = NoError THEN NoError ELSE "Internal"
  BY <1>7 DEF Reply, Kind
<1>9. "quota" \in Fates /\ "removed" \in Fates
  BY DEF Fates
<1>10. \A u \in Units(e) : D[u] = IF u \in L THEN {"quota"}
                                  ELSE IF result.error = NoError /\ u \in R THEN {"removed"} ELSE {}
  OBVIOUS
<1>11. fates' = IF result.error = NoError THEN Fate(tracked, e, R, "removed") ELSE tracked
  BY <1>3
<1> HIDE DEF e, x, C, left, L, D, y
<1>12. /\ FatesOK(tracked) /\ \A d \in Envelopes \ {e} : tracked[d] = fates[d]
       /\ \A u \in Units(e) : tracked[e][u] = IF u \in L THEN fates[e][u] \cup {"quota"} ELSE fates[e][u]
  BY <1>1, <1>9, FateOK, FateOf
<1> HIDE DEF tracked
<1>13. \A d \in Envelopes \ {e} : fates'[d] = fates[d]
  <2>1. CASE result.error = NoError
    <3>1. fates' = Fate(tracked, e, R, "removed")
      BY <1>11, <2>1
    <3> HIDE DEF R
    <3> QED
      BY <1>1, <1>9, <1>12, <3>1, FateOf
  <2>2. CASE result.error # NoError
    BY <1>11, <1>12, <2>2
  <2> QED
    BY <2>1, <2>2
<1>14. \A u \in Units(e) : fates'[e][u] = fates[e][u] \cup D[u]
  <2>1. CASE result.error = NoError
    <3>1. fates' = Fate(tracked, e, R, "removed")
      BY <1>11, <2>1
    <3> HIDE DEF R
    <3>2. \A u \in Units(e) : fates'[e][u] = IF u \in R THEN tracked[e][u] \cup {"removed"} ELSE tracked[e][u]
      BY <1>1, <1>9, <1>12, <3>1, FateOf
    <3>3. \A u \in R : u \notin L
      BY DEF R
    <3> QED
      BY <1>10, <1>12, <2>1, <3>2, <3>3
  <2>2. CASE result.error # NoError
    <3>1. fates' = tracked
      BY <1>11, <2>2
    <3> QED
      BY <1>10, <1>12, <2>2, <3>1
  <2> QED
    BY <2>1, <2>2
<1>15. \A u \in Units(e) : /\ D[u] = {} \/ \E f \in Fates : D[u] = {f}
                           /\ u \notin C => D[u] = {}
  BY <1>6, <1>9, <1>10
<1>16. Gives(p, e, D)
  BY <1>1, <1>13, <1>14, <1>15 DEF Gives, C, x
<1>17. x.open => Consistent(y, e)
  BY <1>2, <1>6, <1>7, <1>8 DEF Consistent, Waiting, Messages
<1>18. ASSUME NEW u \in Units(e) \cap C PROVE D[u] \in Expected(y, u)
  <2>1. CASE result.error = NoError
    <3>1. Expected(y, u) = IF u \in CountedIn(left) THEN {{}} ELSE {{"quota"}, {"removed"}}
      BY <1>8, <2>1 DEF Expected, Waiting, Messages, NoError
    <3> QED
      BY <1>6, <1>10, <1>18, <2>1, <3>1
  <2>2. CASE result.error # NoError
    <3>1. Expected(y, u) = {{}, {"quota"}}
      BY <1>8, <2>2 DEF Expected, Waiting, Messages
    <3> QED
      BY <1>10, <1>18, <2>2, <3>1
  <2> QED
    BY <2>1, <2>2
<1>19. QED
  BY <1>2, <1>4, <1>16, <1>17, <1>18, AnswerLedger DEF x, e, y, C

LEMMA HandleEnvelopeLedger ==
  ASSUME Inv, Ledger, NEW p \in Parts, HandleEnvelope(p)
  PROVE  Ledger'
<1>1. parts[p].open
  BY DEF HandleEnvelope, Inv, Shapes, IsPart, Messages
<1>2. QED
  BY <1>1, GoesLedger DEF HandleEnvelope

(* The HTTP handler of e takes a step. The parts of e own nothing yet.     *)
HandlerOf(e, r) ==
  /\ requests[e].stage # "done" /\ requests' = [requests EXCEPT ![e] = r] /\ UNCHANGED parts
  /\ \A d \in Envelopes \ {e} : fates'[d] = fates[d]
  /\ r.stage # "done" =>
       /\ r.stage = "queue" /\ r.envelope \in Seq(Item) /\ Named(r.envelope, e)
       /\ CountedIn(r.envelope) \subseteq Counted(r.summary)
       /\ \A u \in Units(e) \cap Counted(r.summary) : fates'[e][u] = {}
  /\ \A u \in Units(e) : Ended(fates'[e][u])
  /\ \A u \in Units(e) \cap Counted(requests[e].summary) :
       fates'[e][u] # {} \/ (r.stage # "done" /\ u \in Counted(r.summary))
  /\ \A u \in Units(e) : fates[e][u] # {} => fates'[e][u] # {}

(* An envelope that is not queued has no parts.                            *)
LEMMA NotYetParts ==
  ASSUME Inv, Ledger, NEW e \in Envelopes, requests[e].stage # "done", NEW p \in PartsOf(e)
  PROVE  p \in Parts /\ p[1] = e /\ parts[p].stage = "none" /\ ~parts[p].open /\ Owned(parts[p]) = {}
<1>1. p \in Parts /\ p[1] = e
  BY TwoParts
<1>2. parts[p].stage = "none"
  BY DEF Ledger, Requested
<1>3. ~parts[p].open
  BY <1>1, <1>2 DEF Inv, Shapes, IsPart, Stages, Messages
<1>4. QED
  BY <1>1, <1>2, <1>3 DEF Owned, Messages

LEMMA RequestStep ==
  ASSUME Inv, Ledger, NEW e \in Envelopes, NEW r, HandlerOf(e, r)
  PROVE  Ledger'
<1> USE DEF HandlerOf
<1>1. /\ requests'[e] = r /\ \A d \in Envelopes \ {e} : requests'[d] = requests[d]
      /\ \A q \in Parts : parts'[q] = parts[q]
  BY DEF Inv, Shapes
<1>2. \A p \in PartsOf(e) : parts[p].stage = "none" /\ ~parts[p].open /\ Owned(parts[p]) = {}
  BY NotYetParts
<1>3. Answerable'
  <2> SUFFICES ASSUME NEW q \in Parts
               PROVE  /\ Consistent(parts[q], q[1])
                      /\ \A u \in Units(q[1]) \cap Owned(parts[q]) : fates'[q[1]][u] \in Expected(parts[q], u)
    BY DEF Answerable
  <2>1. Consistent(parts[q], q[1]) /\ \A u \in Units(q[1]) \cap Owned(parts[q]) : fates[q[1]][u] \in Expected(parts[q], u)
    BY DEF Ledger, Answerable
  <2>2. CASE q[1] = e
    BY <1>2, <2>1, <2>2, TwoParts
  <2>3. CASE q[1] # e
    BY <2>1, <2>3, TwoParts
  <2> QED
    BY <2>2, <2>3
<1>4. Separate'
  BY DEF Ledger, Separate
<1>5. Requested'
  <2> SUFFICES ASSUME NEW d \in Envelopes, requests'[d].stage # "done"
               PROVE  /\ requests'[d].envelope \in Seq(Item) /\ Named(requests'[d].envelope, d)
                      /\ CountedIn(requests'[d].envelope) \subseteq Counted(requests'[d].summary)
                      /\ requests'[d].stage = "new" => CountedIn(requests'[d].envelope) = Counted(requests'[d].summary)
                      /\ \A u \in Units(d) \cap Counted(requests'[d].summary) : fates'[d][u] = {}
                      /\ \A q \in PartsOf(d) : parts[q].stage = "none"
    BY DEF Requested
  <2>1. CASE d = e
    BY <1>1, <1>2, <2>1
  <2>2. CASE d # e
    <3>1. requests'[d] = requests[d] /\ fates'[d] = fates[d]
      BY <1>1, <2>2
    <3> QED
      BY <3>1 DEF Ledger, Requested
  <2> QED
    BY <2>1, <2>2
<1>6. Covered'
  <2> SUFFICES ASSUME NEW d \in Envelopes, NEW u \in CountedIn(Content[d])
               PROVE  \/ fates'[d][u] # {}
                      \/ requests'[d].stage # "done" /\ u \in Counted(requests'[d].summary)
                      \/ \E q \in PartsOf(d) : parts[q].open /\ u \in Owned(parts[q])
    BY DEF Covered
  <2>1. u \in Units(d)
    BY ContentNamed
  <2>2. \/ fates[d][u] # {}
        \/ requests[d].stage # "done" /\ u \in Counted(requests[d].summary)
        \/ \E q \in PartsOf(d) : parts[q].open /\ u \in Owned(parts[q])
    BY DEF Ledger, Covered
  <2>3. CASE d = e
    BY <1>1, <1>2, <2>1, <2>2, <2>3
  <2>4. CASE d # e
    <3>1. requests'[d] = requests[d] /\ fates'[d] = fates[d]
      BY <1>1, <2>4
    <3> QED
      BY <2>2, <3>1
  <2> QED
    BY <2>3, <2>4
<1>7. EndedOnce'
  BY DEF Ledger, EndedOnce
<1>8. QED
  BY <1>3, <1>4, <1>5, <1>6, <1>7 DEF Ledger

(* Trace sampling only takes items away.                                   *)
LEMMA SampledItems ==
  ASSUME NEW s \in Seq(Item)
  PROVE  sample_transaction(s) \in Seq(Item) /\ Items(sample_transaction(s)) \subseteq Items(s)
<1> DEFINE rest == TakeType(s, "Transaction")
           kept == Items(rest) \ Dependent(rest)
<1>1. rest \in Seq(Item) /\ Items(rest) \subseteq Items(s)
  BY TakeItem
<1>2. sample_transaction(s) \in {s, retain_items(rest, kept)}
  BY DEF sample_transaction
<1> HIDE DEF rest, kept
<1>3. retain_items(rest, kept) \in Seq(Item) /\ Items(retain_items(rest, kept)) \subseteq Items(rest)
  BY <1>1, RetainItems
<1>4. QED
  BY <1>1, <1>2, <1>3

(* What is counted requires an event and is no metric.                     *)
LEMMA DependentUnits ==
  ASSUME NEW item
  PROVE  creates_event(item) \/ Attachment(item) => requires_event(item) /\ ~is_metric(item)
BY DEF creates_event, Attachment, is_attachment, requires_event, is_metric, EventTypes, AttachmentTypes

(* Only items that require an event are counted.                           *)
LEMMA SameUnits ==
  ASSUME NEW s, NEW t, Items(s) \subseteq Items(t), \A x \in Items(t) : requires_event(x) => x \in Items(s)
  PROVE  CountedIn(s) = CountedIn(t)
<1>1. HasEvent(s) <=> HasEvent(t)
  BY DependentUnits DEF HasEvent
<1>2. Attached(s) = Attached(t)
  <2>1. {i \in Items(s) : Attachment(i)} = {i \in Items(t) : Attachment(i)}
    BY DependentUnits
  <2> QED
    BY <2>1 DEF Attached
<1>3. QED
  <2>1. \A u \in CountedIn(s) : u \in CountedIn(t)
    BY <1>1, <1>2, CountedUnits
  <2>2. \A u \in CountedIn(t) : u \in CountedIn(s)
    BY <1>1, <1>2, CountedUnits
  <2> QED
    BY <2>1, <2>2

(* Metrics are not counted, so QueueEnvelope loses no unit with them.      *)
LEMMA QueuedUnits ==
  ASSUME NEW s \in Seq(Item)
  PROVE  Queued(s) \in Seq(Item) /\ Items(Queued(s)) \subseteq Items(s) /\ CountedIn(Queued(s)) = CountedIn(s)
<1> DEFINE metrics == {item \in Items(s) : is_metric(item)}
           kept == Items(s) \ metrics
<1>1. Queued(s) = take_items_by(s, metrics)
  BY DEF Queued
<1>2. \A x \in Items(s) : requires_event(x) => x \in kept
  BY DEF requires_event, is_metric, EventTypes, AttachmentTypes
<1>3. kept \subseteq Items(s)
  OBVIOUS
<1> HIDE DEF metrics
<1>4. Queued(s) \in Seq(Item) /\ Items(Queued(s)) = kept
  BY <1>1, TakeItems
<1> HIDE DEF kept
<1>5. QED
  BY <1>2, <1>3, <1>4, SameUnits

(* The two parts of an envelope share its units.                           *)
Splits(s, one, two) ==
  /\ one \in Seq(Item) /\ two \in Seq(Item)
  /\ Items(one) \subseteq Items(s) /\ Items(two) \subseteq Items(s)
  /\ CountedIn(one) \cap CountedIn(two) = {}
  /\ CountedIn(one) \cup CountedIn(two) = CountedIn(s)

LEMMA SplitUnits ==
  ASSUME NEW s \in Seq(Item)
  PROVE  Splits(s, split_by(s)[1], split_by(s)[2])
<1> DEFINE one == split_by(s)[1]
           two == split_by(s)[2]
           dependent == Dependent(s)
<1>0. \A x \in Items(s) : x \in dependent <=> requires_event(x)
  BY DEF Dependent
<1>1. dependent \subseteq Items(s)
  BY DEF Dependent
<1>2. CASE dependent \in {{}, Items(s)}
  <2>1. one = <<>> /\ two = s
    BY <1>2 DEF split_by
  <2> HIDE DEF one, two
  <2>2. one \in Seq(Item) /\ Items(one) = {} /\ CountedIn(one) = {}
    BY <2>1, NoItems
  <2>3. Splits(s, one, two)
    BY <2>1, <2>2 DEF Splits
  <2> QED
    BY <2>3 DEF one, two
<1>3. CASE dependent \notin {{}, Items(s)}
  <2>1. one = retain_items(s, dependent) /\ two = retain_items(s, Items(s) \ dependent)
    BY <1>3 DEF split_by
  <2> HIDE DEF dependent, one, two
  <2>2. /\ one \in Seq(Item) /\ Items(one) = Items(s) \cap dependent
        /\ two \in Seq(Item) /\ Items(two) = Items(s) \cap (Items(s) \ dependent)
    BY <2>1, RetainItems
  <2>3. CountedIn(one) = CountedIn(s)
    BY <1>0, <1>1, <2>2, SameUnits
  <2>4. CountedIn(two) = {}
    <3>1. \A x \in Items(two) : ~creates_event(x) /\ ~Attachment(x)
      BY <1>0, <2>2, DependentUnits
    <3>2. ~HasEvent(two) /\ Attached(two) = {}
      BY <3>1 DEF HasEvent, Attached
    <3> QED
      BY <3>2, CountedUnits
  <2>5. Splits(s, one, two)
    BY <2>2, <2>3, <2>4 DEF Splits
  <2> QED
    BY <2>5 DEF one, two
<1>4. QED
  BY <1>2, <1>3

LEMMA NamedItems ==
  ASSUME NEW e, NEW s, NEW t, Items(t) \subseteq Items(s), Named(s, e)
  PROVE  Named(t, e)
BY DEF Named

(* What is known of a handler that has not queued its envelope.            *)
LEMMA RequestKnown ==
  ASSUME Inv, Ledger, NEW e \in Envelopes, requests[e].stage # "done"
  PROVE  /\ requests[e].envelope \in Seq(Item) /\ Named(requests[e].envelope, e) /\ FatesOK(fates)
         /\ CountedIn(requests[e].envelope) \subseteq Counted(requests[e].summary)
         /\ requests[e].stage = "new" => CountedIn(requests[e].envelope) = Counted(requests[e].summary)
         /\ \A u \in Units(e) \cap Counted(requests[e].summary) : fates[e][u] = {}
         /\ \A u \in Units(e) : Ended(fates[e][u])
BY DEF Inv, Shapes, Ledger, Requested, EndedOnce

(* The handler gives up on an envelope.                                    *)
LEMMA RefusedLedger ==
  ASSUME Inv, Ledger, NEW e \in Envelopes, requests[e].stage # "done",
         requests' = [requests EXCEPT ![e] = NoRequest("done")],
         fates' = Fate(fates, e, Counted(requests[e].summary), "refused"), UNCHANGED parts
  PROVE  Ledger'
<1> DEFINE S == Counted(requests[e].summary)
           r == NoRequest("done")
<1>1. /\ FatesOK(fates) /\ \A u \in Units(e) \cap S : fates[e][u] = {}
      /\ \A u \in Units(e) : Ended(fates[e][u])
  BY RequestKnown
<1>2. fates' = Fate(fates, e, S, "refused")
  OBVIOUS
<1> HIDE DEF S
<1>3. "refused" \in Fates
  BY DEF Fates
<1>4. /\ \A d \in Envelopes \ {e} : fates'[d] = fates[d]
      /\ \A u \in Units(e) : fates'[e][u] = IF u \in S THEN fates[e][u] \cup {"refused"} ELSE fates[e][u]
  BY <1>1, <1>2, <1>3, FateOf
<1>5. r.stage = "done"
  BY DEF NoRequest
<1>6. \A u \in Units(e) : Ended(fates'[e][u]) /\ (u \in S => fates'[e][u] # {})
                          /\ (fates[e][u] # {} => fates'[e][u] # {})
  <2>1. Ended({} \cup {"refused"}) /\ {} \cup {"refused"} # {}
    BY <1>3, Ends
  <2> QED
    BY <1>1, <1>4, <2>1
<1>7. HandlerOf(e, r)
  <2> HIDE DEF r
  <2> QED
    BY <1>4, <1>5, <1>6 DEF HandlerOf, S, r
<1>8. QED
  BY <1>7, RequestStep

LEMMA HandleRequestLedger ==
  ASSUME Inv, Ledger, NEW e \in Envelopes, HandleRequest(e)
  PROVE  Ledger'
<1> DEFINE q == requests[e]
           C == CountedIn(q.envelope)
<1>1. q.stage = "new" /\ UNCHANGED parts
  BY DEF HandleRequest
<1>2. /\ q.envelope \in Seq(Item) /\ Named(q.envelope, e) /\ FatesOK(fates) /\ C = Counted(q.summary)
      /\ \A u \in Units(e) \cap C : fates[e][u] = {}
      /\ \A u \in Units(e) : Ended(fates[e][u])
  <2>1. q.stage # "done"
    BY <1>1
  <2> QED
    BY <1>1, <2>1, RequestKnown
<1>3. CASE /\ requests' = [requests EXCEPT ![e] = NoRequest("done")]
           /\ fates' = Fate(fates, e, Counted(q.summary), "refused")
  BY <1>1, <1>3, RefusedLedger
<1>4. ASSUME NEW limited, NEW left, NEW enforced, NEW kept,
             left = enforce(q.envelope, NoCategory, limited).envelope,
             enforced = enforce(q.envelope, NoCategory, limited).enforcement,
             kept \in {left, <<>>, sample_transaction(left)},
             requests' = [requests EXCEPT ![e] =
                            IF kept = <<>> THEN NoRequest("done")
                            ELSE [stage |-> "queue", envelope |-> kept, summary |-> Summary(left)]],
             fates' = IF kept = <<>>
                      THEN IF left = <<>> THEN Fate(fates, e, Limited(enforced), "limited")
                           ELSE Fate(Fate(fates, e, Limited(enforced), "limited"), e,
                                     Counted(Summary(left)), "refused")
                      ELSE Fate(fates, e, Limited(enforced), "limited")
      PROVE  Ledger'
  <2> DEFINE L == Limited(enforced)
             K == CountedIn(left)
             tracked == Fate(fates, e, L, "limited")
             r == IF kept = <<>> THEN NoRequest("done")
                  ELSE [stage |-> "queue", envelope |-> kept, summary |-> Summary(left)]
  <2>1. Takes(q.envelope, NoCategory, limited, left, enforced)
    BY <1>2, <1>4, Enforced
  <2>2. K \cap L = {} /\ K \cup L = C
    BY <2>1, TakesUnits
  <2>3. left \in Seq(Item) /\ Named(left, e)
    BY <1>2, <2>1 DEF Takes, Named
  <2>4. kept \in Seq(Item) /\ Items(kept) \subseteq Items(left)
    <3>1. <<>> \in Seq(Item) /\ Items(<<>>) \subseteq Items(left)
      BY NoItems
    <3>2. sample_transaction(left) \in Seq(Item) /\ Items(sample_transaction(left)) \subseteq Items(left)
      BY <2>3, SampledItems
    <3> QED
      BY <1>4, <2>3, <3>1, <3>2
  <2>5. Named(kept, e) /\ CountedIn(kept) \subseteq K
    BY <2>3, <2>4, NamedItems, FewerItems
  <2>6. "limited" \in Fates /\ "refused" \in Fates
    BY DEF Fates
  <2>7. left = <<>> => K = {}
    BY NoItems
  <2>8. Counted(Summary(left)) = K
    BY DEF CountedIn
  <2>9. /\ requests' = [requests EXCEPT ![e] = r]
        /\ fates' = IF kept = <<>> /\ left # <<>> THEN Fate(tracked, e, K, "refused") ELSE tracked
    BY <1>4, <2>8
  <2>10. /\ kept = <<>> => r.stage = "done"
         /\ kept # <<>> => r.stage = "queue" /\ r.envelope = kept /\ Counted(r.summary) = K
    BY <2>8 DEF NoRequest
  <2> HIDE DEF q, C, L, K, r
  <2>11. /\ FatesOK(tracked) /\ \A d \in Envelopes \ {e} : tracked[d] = fates[d]
         /\ \A u \in Units(e) : tracked[e][u] = IF u \in L THEN fates[e][u] \cup {"limited"} ELSE fates[e][u]
    <3>1. FatesOK(fates)
      BY <1>2
    <3>2. FatesOK(tracked)
      BY <2>6, <3>1, FateOK
    <3>3. /\ \A d \in Envelopes \ {e} : tracked[d] = fates[d]
          /\ \A u \in Units(e) : tracked[e][u] = IF u \in L THEN fates[e][u] \cup {"limited"} ELSE fates[e][u]
      <4>1. tracked = Fate(fates, e, L, "limited")
        OBVIOUS
      <4> HIDE DEF tracked
      <4> QED
        BY <2>6, <3>1, <4>1, FateOf
    <3> QED
      BY <3>2, <3>3
  <2> HIDE DEF tracked
  <2>12. /\ \A d \in Envelopes \ {e} : fates'[d] = fates[d]
         /\ \A u \in Units(e) : fates'[e][u] = IF kept = <<>> /\ left # <<>> /\ u \in K
                                               THEN tracked[e][u] \cup {"refused"} ELSE tracked[e][u]
    <3>1. CASE kept = <<>> /\ left # <<>>
      <4>1. fates' = Fate(tracked, e, K, "refused")
        BY <2>9, <3>1
      <4>2. /\ \A d \in Envelopes \ {e} : fates'[d] = tracked[d]
            /\ \A u \in Units(e) : fates'[e][u] = IF u \in K THEN tracked[e][u] \cup {"refused"} ELSE tracked[e][u]
        BY <2>6, <2>11, <4>1, FateOf
      <4> QED
        BY <2>11, <3>1, <4>2
    <3>2. CASE ~(kept = <<>> /\ left # <<>>)
      <4>1. fates' = tracked
        BY <2>9, <3>2
      <4> QED
        BY <2>11, <3>2, <4>1
    <3> QED
      BY <3>1, <3>2
  <2>13. ASSUME NEW u \in Units(e)
         PROVE  /\ u \notin C => fates'[e][u] = fates[e][u]
                /\ u \in L => fates'[e][u] = {"limited"}
                /\ u \in K => fates'[e][u] = IF kept = <<>> THEN {"refused"} ELSE {}
    <3>1. u \in C => fates[e][u] = {}
      BY <1>2
    <3>2. \A f : {} \cup {f} = {f}
      OBVIOUS
    <3> QED
      BY <2>2, <2>7, <2>11, <2>12, <3>1, <3>2
  <2>14. \A u \in Units(e) : Ended(fates'[e][u]) /\ (fates[e][u] # {} => fates'[e][u] # {})
    <3>1. Ended({}) /\ Ended({"limited"}) /\ Ended({"refused"})
      BY <2>6 DEF Ended
    <3>2. \A u \in Units(e) : u \in C => fates[e][u] = {}
      BY <1>2
    <3> QED
      BY <1>2, <2>2, <2>13, <3>1, <3>2
  <2>15. \A u \in Units(e) \cap C : fates'[e][u] # {} \/ (r.stage # "done" /\ u \in Counted(r.summary))
    BY <2>2, <2>10, <2>13
  <2>16. r.stage # "done" =>
           /\ r.stage = "queue" /\ r.envelope \in Seq(Item) /\ Named(r.envelope, e)
           /\ CountedIn(r.envelope) \subseteq Counted(r.summary)
           /\ \A u \in Units(e) \cap Counted(r.summary) : fates'[e][u] = {}
    BY <2>4, <2>5, <2>10, <2>13
  <2>17. HandlerOf(e, r)
    BY <1>1, <1>2, <2>9, <2>12, <2>14, <2>15, <2>16 DEF HandlerOf, q
  <2> QED
    BY <2>17, RequestStep
<1>5. CASE \E limited \in SUBSET Relevant(q.envelope, NoCategory),
              then \in {"Queue", "PayloadError", "TraceSampled"} :
             LET result == enforce(q.envelope, NoCategory, limited)
                 tracked == Fate(fates, e, Limited(result.enforcement), "limited")
                 summary == Summary(result.envelope)
                 kept == CASE then = "Queue" -> result.envelope
                           [] then = "PayloadError" -> <<>>
                           [] then = "TraceSampled" -> sample_transaction(result.envelope)
                 ended == IF result.envelope = <<>> THEN tracked
                          ELSE Fate(tracked, e, Counted(summary), "refused")
             IN  /\ requests' = [requests EXCEPT ![e] =
                      IF kept = <<>> THEN NoRequest("done")
                      ELSE [stage |-> "queue", envelope |-> kept, summary |-> summary]]
                 /\ fates' = IF kept = <<>> THEN ended ELSE tracked
  <2>1. PICK limited \in SUBSET Relevant(q.envelope, NoCategory),
             then \in {"Queue", "PayloadError", "TraceSampled"} :
          LET left == enforce(q.envelope, NoCategory, limited).envelope
              enforced == enforce(q.envelope, NoCategory, limited).enforcement
              kept == CASE then = "Queue" -> left
                        [] then = "PayloadError" -> <<>>
                        [] then = "TraceSampled" -> sample_transaction(left)
          IN  /\ requests' = [requests EXCEPT ![e] =
                   IF kept = <<>> THEN NoRequest("done")
                   ELSE [stage |-> "queue", envelope |-> kept, summary |-> Summary(left)]]
              /\ fates' = IF kept = <<>>
                          THEN IF left = <<>> THEN Fate(fates, e, Limited(enforced), "limited")
                           ELSE Fate(Fate(fates, e, Limited(enforced), "limited"), e,
                                     Counted(Summary(left)), "refused")
                          ELSE Fate(fates, e, Limited(enforced), "limited")
    BY ONLY <1>5
  <2> DEFINE left == enforce(q.envelope, NoCategory, limited).envelope
             enforced == enforce(q.envelope, NoCategory, limited).enforcement
             kept == CASE then = "Queue" -> left
                       [] then = "PayloadError" -> <<>>
                       [] then = "TraceSampled" -> sample_transaction(left)
  <2>2. /\ requests' = [requests EXCEPT ![e] =
             IF kept = <<>> THEN NoRequest("done")
             ELSE [stage |-> "queue", envelope |-> kept, summary |-> Summary(left)]]
        /\ fates' = IF kept = <<>>
                    THEN IF left = <<>> THEN Fate(fates, e, Limited(enforced), "limited")
                         ELSE Fate(Fate(fates, e, Limited(enforced), "limited"), e,
                                   Counted(Summary(left)), "refused")
                    ELSE Fate(fates, e, Limited(enforced), "limited")
    BY ONLY <2>1
  <2>3. /\ left = enforce(q.envelope, NoCategory, limited).envelope
        /\ enforced = enforce(q.envelope, NoCategory, limited).enforcement
        /\ kept \in {left, <<>>, sample_transaction(left)}
    OBVIOUS
  <2> HIDE DEF left, enforced, kept
  <2> QED
    BY ONLY <1>4, <2>2, <2>3
<1>6. QED
  BY <1>3, <1>5 DEF HandleRequest

(* A new part owns the units of its envelope, which have met no end.       *)
Starts(v, envelope, e) ==
  /\ v.open /\ Consistent(v, e) /\ Owned(v) = CountedIn(envelope)
  /\ \A u : Expected(v, u) = {{}}

LEMMA NewPartOwns ==
  ASSUME NEW e, NEW envelope \in Seq(Item), Named(envelope, e)
  PROVE  Starts(NewPart(envelope), envelope, e)
<1> DEFINE v == NewPart(envelope)
<1>1. /\ v.stage = "queued" /\ v.envelope = envelope /\ v.open /\ Counted(v.summary) = CountedIn(envelope)
  BY DEF NewPart, CountedIn
<1> HIDE DEF v
<1>2. Starts(v, envelope, e)
  BY <1>1 DEF Starts, Consistent, Owned, Expected, Waiting, Messages
<1>3. QED
  BY <1>2 DEF v

(* The envelope is refused, or its parts take over.                        *)
LEMMA QueueEnvelopeLedger ==
  ASSUME Inv, Ledger, NEW e \in Envelopes, QueueEnvelope(e)
  PROVE  Ledger'
<1> DEFINE q == requests[e]
           S == Counted(q.summary)
           C == CountedIn(q.envelope)
           queued == Queued(q.envelope)
           one == split_by(queued)[1]
           two == split_by(queued)[2]
           ev == <<e, "event">>
           ot == <<e, "other">>
<1>1. q.stage = "queue" /\ requests' = [requests EXCEPT ![e] = NoRequest("done")]
  BY DEF QueueEnvelope
<1>2. /\ q.envelope \in Seq(Item) /\ Named(q.envelope, e) /\ FatesOK(fates) /\ C \subseteq S
      /\ \A u \in Units(e) \cap S : fates[e][u] = {}
      /\ \A u \in Units(e) : Ended(fates[e][u])
  <2>1. q.stage # "done"
    BY <1>1
  <2> QED
    BY <2>1, RequestKnown
<1>3. CASE UNCHANGED parts /\ fates' = Fate(fates, e, Counted(q.summary), "refused")
  BY <1>1, <1>3, RefusedLedger
<1>4. ASSUME parts' = [p \in Parts |-> CASE p = ev /\ one # <<>> -> NewPart(one)
                                         [] p = ot /\ two # <<>> -> NewPart(two)
                                         [] OTHER -> parts[p]],
             fates' = Fate(fates, e, S \ C, "removed")
      PROVE  Ledger'
  <2>1. queued \in Seq(Item) /\ Items(queued) \subseteq Items(q.envelope) /\ CountedIn(queued) = C
    BY <1>2, QueuedUnits
  <2> HIDE DEF queued
  <2>2. /\ one \in Seq(Item) /\ two \in Seq(Item)
        /\ Items(one) \subseteq Items(queued) /\ Items(two) \subseteq Items(queued)
        /\ CountedIn(one) \cap CountedIn(two) = {}
        /\ CountedIn(one) \cup CountedIn(two) = C
    <3>1. Splits(queued, one, two)
      BY <2>1, SplitUnits
    <3> HIDE DEF one, two, C
    <3> QED
      BY <2>1, <3>1 DEF Splits
  <2>3. Named(one, e) /\ Named(two, e)
    BY <1>2, <2>1, <2>2 DEF Named
  <2>4. ev \in Parts /\ ot \in Parts /\ ev # ot /\ PartsOf(e) = {ev, ot} /\ ev[1] = e /\ ot[1] = e
    BY DEF Parts, PartsOf
  <2>5. /\ parts[ev].stage = "none" /\ ~parts[ev].open /\ Owned(parts[ev]) = {}
        /\ parts[ot].stage = "none" /\ ~parts[ot].open /\ Owned(parts[ot]) = {}
    <3>1. q.stage # "done"
      BY <1>1
    <3> QED
      BY <2>4, <3>1, NotYetParts
  <2> HIDE DEF one, two
  <2>6. /\ one # <<>> => parts'[ev] = NewPart(one)
        /\ one = <<>> => parts'[ev] = parts[ev]
        /\ two # <<>> => parts'[ot] = NewPart(two)
        /\ two = <<>> => parts'[ot] = parts[ot]
        /\ \A p \in Parts \ {ev, ot} : parts'[p] = parts[p]
    BY <1>4, <2>4
  <2>7. Consistent(parts[ev], e) /\ Consistent(parts[ot], e)
    BY <2>4 DEF Ledger, Answerable
  <2>8. /\ Consistent(parts'[ev], e) /\ Owned(parts'[ev]) = CountedIn(one)
        /\ \A u \in CountedIn(one) : parts'[ev].open /\ Expected(parts'[ev], u) = {{}}
    <3>1. CASE one # <<>>
      <4>1. Starts(NewPart(one), one, e)
        BY <2>2, <2>3, NewPartOwns
      <4> QED
        BY <2>6, <3>1, <4>1 DEF Starts
    <3>2. CASE one = <<>>
      BY <2>5, <2>6, <2>7, <3>2, NoItems
    <3> QED
      BY <3>1, <3>2
  <2>9. /\ Consistent(parts'[ot], e) /\ Owned(parts'[ot]) = CountedIn(two)
        /\ \A u \in CountedIn(two) : parts'[ot].open /\ Expected(parts'[ot], u) = {{}}
    <3>1. CASE two # <<>>
      <4>1. Starts(NewPart(two), two, e)
        BY <2>2, <2>3, NewPartOwns
      <4> QED
        BY <2>6, <3>1, <4>1 DEF Starts
    <3>2. CASE two = <<>>
      BY <2>5, <2>6, <2>7, <3>2, NoItems
    <3> QED
      BY <3>1, <3>2
  <2>10. "removed" \in Fates
    BY DEF Fates
  <2> DEFINE gone == S \ C
  <2>11. /\ \A d \in Envelopes \ {e} : fates'[d] = fates[d]
         /\ \A u \in Units(e) : fates'[e][u] = IF u \in gone THEN fates[e][u] \cup {"removed"} ELSE fates[e][u]
    <3>1. fates' = Fate(fates, e, gone, "removed") /\ FatesOK(fates)
      BY <1>2, <1>4
    <3> HIDE DEF gone
    <3> QED
      BY <2>10, <3>1, FateOf
  <2>12. ASSUME NEW u \in Units(e)
         PROVE  /\ u \in C => fates'[e][u] = {}
                /\ u \in S /\ u \notin C => fates'[e][u] = {"removed"}
                /\ u \notin S => fates'[e][u] = fates[e][u]
    <3>1. u \in S => fates[e][u] = {}
      BY <1>2
    <3>2. {} \cup {"removed"} = {"removed"}
      OBVIOUS
    <3> HIDE DEF S, C
    <3> QED
      BY <1>2, <2>11, <3>1, <3>2
  <2>13. /\ requests'[e].stage = "done" /\ \A d \in Envelopes \ {e} : requests'[d] = requests[d]
    BY <1>1 DEF Inv, Shapes, NoRequest
  <2> HIDE DEF S, C, ev, ot, q
  <2>14. Answerable'
    <3> SUFFICES ASSUME NEW p \in Parts
                 PROVE  /\ Consistent(parts'[p], p[1])
                        /\ \A u \in Units(p[1]) \cap Owned(parts'[p]) : fates'[p[1]][u] \in Expected(parts'[p], u)
      BY DEF Answerable
    <3>1. CASE p = ev
      BY <2>2, <2>4, <2>8, <2>12, <3>1
    <3>2. CASE p = ot
      BY <2>2, <2>4, <2>9, <2>12, <3>2
    <3>3. CASE p \notin {ev, ot}
      <4>1. p[1] # e /\ p[1] \in Envelopes
        BY <2>4, <3>3, TwoParts
      <4>2. parts'[p] = parts[p] /\ fates'[p[1]] = fates[p[1]]
        BY <2>6, <2>11, <3>3, <4>1
      <4> QED
        BY <4>2 DEF Ledger, Answerable
    <3> QED
      BY <3>1, <3>2, <3>3
  <2>15. ASSUME NEW d \in Envelopes, d # e
         PROVE  \A p \in PartsOf(d) : p \in Parts /\ parts'[p] = parts[p]
    BY <2>4, <2>6, <2>15, TwoParts
  <2>16. Separate'
    <3> SUFFICES ASSUME NEW d \in Envelopes
                 PROVE  Units(d) \cap Owned(parts'[<<d, "event">>]) \cap Owned(parts'[<<d, "other">>]) = {}
      BY DEF Separate
    <3>1. CASE d = e
      BY <2>2, <2>8, <2>9, <3>1 DEF ev, ot
    <3>2. CASE d # e
      BY <2>15, <3>2 DEF PartsOf, Ledger, Separate
    <3> QED
      BY <3>1, <3>2
  <2>17. Requested'
    <3> SUFFICES ASSUME NEW d \in Envelopes, requests'[d].stage # "done"
                 PROVE  /\ requests'[d].envelope \in Seq(Item) /\ Named(requests'[d].envelope, d)
                        /\ CountedIn(requests'[d].envelope) \subseteq Counted(requests'[d].summary)
                        /\ requests'[d].stage = "new" => CountedIn(requests'[d].envelope) = Counted(requests'[d].summary)
                        /\ \A u \in Units(d) \cap Counted(requests'[d].summary) : fates'[d][u] = {}
                        /\ \A p \in PartsOf(d) : parts'[p].stage = "none"
      BY DEF Requested
    <3>1. d # e /\ requests'[d] = requests[d] /\ fates'[d] = fates[d]
      BY <2>11, <2>13
    <3>2. \A p \in PartsOf(d) : parts'[p] = parts[p]
      BY <2>15, <3>1
    <3> QED
      BY <3>1, <3>2 DEF Ledger, Requested
  <2>18. Covered'
    <3> SUFFICES ASSUME NEW d \in Envelopes, NEW u \in CountedIn(Content[d])
                 PROVE  \/ fates'[d][u] # {}
                        \/ requests'[d].stage # "done" /\ u \in Counted(requests'[d].summary)
                        \/ \E p \in PartsOf(d) : parts'[p].open /\ u \in Owned(parts'[p])
      BY DEF Covered
    <3>1. u \in Units(d)
      BY ContentNamed
    <3>2. \/ fates[d][u] # {}
          \/ requests[d].stage # "done" /\ u \in Counted(requests[d].summary)
          \/ \E p \in PartsOf(d) : parts[p].open /\ u \in Owned(parts[p])
      BY DEF Ledger, Covered
    <3>3. CASE d = e
      <4>1. fates[e][u] # {} \/ u \in S
        BY <2>4, <2>5, <3>2, <3>3 DEF S, q
      <4>2. CASE u \in C
        BY <2>2, <2>4, <2>8, <2>9, <3>3, <4>2
      <4>3. CASE u \notin C
        BY <2>12, <3>1, <3>3, <4>1, <4>3
      <4> QED
        BY <4>2, <4>3
    <3>4. CASE d # e
      <4>1. requests'[d] = requests[d] /\ fates'[d] = fates[d]
        BY <2>11, <2>13, <3>4
      <4>2. \A p \in PartsOf(d) : parts'[p] = parts[p]
        BY <2>15, <3>4
      <4> QED
        BY <3>2, <4>1, <4>2
    <3> QED
      BY <3>3, <3>4
  <2>19. EndedOnce'
    <3> SUFFICES ASSUME NEW d \in Envelopes, NEW u \in Units(d) PROVE Ended(fates'[d][u])
      BY DEF EndedOnce
    <3>1. CASE d = e
      <4>1. Ended({}) /\ Ended({"removed"})
        BY <2>10 DEF Ended
      <4> QED
        BY <1>2, <2>12, <3>1, <4>1
    <3>2. CASE d # e
      BY <2>11, <3>2 DEF Ledger, EndedOnce
    <3> QED
      BY <3>1, <3>2
  <2> QED
    BY <2>14, <2>16, <2>17, <2>18, <2>19 DEF Ledger
<1>5. QED
  BY <1>3, <1>4 DEF QueueEnvelope, CountedIn

(* The ledger is inductive.                                                *)
LEMMA InitLedger == Init => Ledger
<1> SUFFICES ASSUME Init PROVE Ledger
  OBVIOUS
<1>1. \A p \in Parts : parts[p] = NoPart("none") /\ p[1] \in Envelopes
  BY PartOf DEF Init
<1>2. \A e \in Envelopes : /\ requests[e].stage = "new" /\ requests[e].envelope = Content[e]
                           /\ Counted(requests[e].summary) = CountedIn(Content[e])
                           /\ \A u \in Units(e) : fates[e][u] = {}
  BY DEF Init, CountedIn
<1>3. NoPart("none").stage = "none" /\ \A e : Consistent(NoPart("none"), e) /\ Owned(NoPart("none")) = {}
  BY Vacant DEF NoPart
<1>4. \A e \in Envelopes : /\ Content[e] \in Seq(Item) /\ Named(Content[e], e)
                           /\ PartsOf(e) \subseteq Parts /\ <<e, "event">> \in Parts
  BY ContentNamed, TwoParts DEF Parts
<1>5. Answerable
  BY <1>1, <1>3 DEF Answerable
<1>6. Separate
  BY <1>1, <1>3, <1>4 DEF Separate
<1>7. Requested
  BY <1>1, <1>2, <1>3, <1>4 DEF Requested
<1>8. Covered
  BY <1>2 DEF Covered
<1>9. EndedOnce
  BY <1>2 DEF EndedOnce, Ended
<1>10. QED
  BY <1>5, <1>6, <1>7, <1>8, <1>9 DEF Ledger

LEMMA NextLedger == Inv /\ Ledger /\ [Next]_vars => Ledger'
<1> SUFFICES ASSUME Inv, Ledger, [Next]_vars PROVE Ledger'
  OBVIOUS
<1>1. CASE UNCHANGED vars
  BY <1>1 DEF vars, Ledger, Answerable, Separate, Requested, Covered, EndedOnce
<1>2. QED
  BY <1>1, HandleRequestLedger, QueueEnvelopeLedger, HandleEnvelopeLedger, CheckEnvelopeLedger,
     CheckedLedger, SampleTraceLedger, ProcessEnvelopeLedger, ProcessedLedger, UpstreamLedger,
     AnsweredLedger, TimeoutLedger DEF Next

(* From the ends of a unit to their number.                                *)
LEMMA EndedSizes ==
  ASSUME NEW F, Ended(F)
  PROVE  \/ Cardinality(F) <= 1
         \/ F = {"quota", "failed"}
         \/ "timeout" \in F /\ Cardinality(F) = 2
<1>1. \A f : Cardinality({f}) = 1 /\ IsFiniteSet({f})
  BY FS_Singleton
<1>2. CASE F = {}
  BY <1>2, FS_EmptySet
<1>3. ASSUME NEW f, F = {f} PROVE Cardinality(F) <= 1
  BY <1>1, <1>3
<1>4. ASSUME NEW f, F = {"timeout", f}
      PROVE  \/ Cardinality(F) <= 1
             \/ "timeout" \in F /\ Cardinality(F) = 2
  <2>1. CASE f = "timeout"
    <3>1. F = {"timeout"}
      BY <1>4, <2>1
    <3> QED
      BY <1>1, <3>1
  <2>2. CASE f # "timeout"
    <3>1. F = {"timeout"} \cup {f} /\ f \notin {"timeout"}
      BY <1>4, <2>2
    <3>2. Cardinality({"timeout"} \cup {f}) = Cardinality({"timeout"}) + 1
      BY <1>1, <3>1, FS_AddElement
    <3> QED
      BY <1>1, <1>4, <3>1, <3>2
  <2> QED
    BY <2>1, <2>2
<1>5. QED
  BY <1>2, <1>3, <1>4 DEF Ended

(* Whatever is limited, dropped, sampled, taken by the upstream or timed   *)
(* out on its way, in every interleaving of handlers, messages and timers: *)
(* the event and each attachment of an envelope meet one end, or the two   *)
(* that a timeout or a worker failing after its quotas may cause, and when *)
(* all is over none of them is without one.                                *)
THEOREM EverythingEndsOnce == Spec => []EndsOnce
<1>1. Inv /\ Ledger => EndsOnce
  <2> SUFFICES ASSUME Inv, Ledger PROVE EndsOnce
    OBVIOUS
  <2>1. OneEnd
    BY EndedSizes DEF OneEnd, Ledger, EndedOnce
  <2>2. NothingForgotten
    <3> SUFFICES ASSUME NEW e \in Envelopes, NEW u \in CountedIn(Content[e]), Over(e)
                 PROVE  fates[e][u] # {}
      BY DEF NothingForgotten, CountedIn
    <3>1. requests[e].stage = "done" /\ \A p \in PartsOf(e) : parts[p].stage \in {"none", "done"}
      BY DEF Over, PartsOf
    <3>2. \A p \in PartsOf(e) : ~parts[p].open
      BY <3>1, TwoParts DEF Inv, Shapes, IsPart, Stages, Messages
    <3> QED
      BY <3>1, <3>2 DEF Ledger, Covered
  <2> QED
    BY <2>1, <2>2 DEF EndsOnce
<1>2. Init => Inv /\ Ledger
  BY InitInv, InitLedger
<1>3. Inv /\ Ledger /\ [Next]_vars => Inv' /\ Ledger'
  BY NextInv, NextLedger
<1>4. QED
  BY <1>1, <1>2, <1>3, PTL DEF Spec

-----------------------------------------------------------------------------
(* Selectors of the rules that a worker scrubs events and files with.      *)

(* matches_selector finds nothing that the selector does not stand for,    *)
(* and it starts with the first state that can be the first.               *)
LEMMA FoundIsSelected ==
  ASSUME NEW States, NEW PathItems, NEW path \in Seq(States), NEW selector \in Seq(PathItems), NEW pii,
         Valid(selector), matches_selector(path, selector, pii)
  PROVE  \E taken \in 0 .. Len(path) - Len(selector) :
           Selects(path, selector, pii, taken) /\ StartsFirst(path, selector, pii, taken)
<1> DEFINE deeps == {i \in DOMAIN selector : selector[i] = DeepWildcard}
           room == Len(path) - Len(selector)
           position(taken, i) == IF \A d \in deeps : i < d THEN room - taken + i ELSE room - taken + taken + i
           Fits(taken) ==
             /\ deeps = {} => taken = 0
             /\ room - taken + taken >= 1
             /\ \A i \in DOMAIN selector : matches_state(selector[i], pii, i, path[position(taken, i)])
<1>1. /\ Len(path) \in Nat /\ Len(selector) \in Nat /\ DOMAIN selector = 1 .. Len(selector)
      /\ room \in Nat /\ room >= 1
  BY DEF matches_selector
<1>2. SUFFICES \E taken \in 0 .. room : Fits(taken) /\ StartsFirst(path, selector, pii, taken)
  BY DEF Selects
<1> HIDE DEF Fits
<1>3. CASE deeps = {}
  <2>1. TailMatches(path, selector, pii, 0)
    BY <1>3 DEF matches_selector
  <2>2. Fits(0)
    BY <1>1, <1>3, <2>1 DEF TailMatches, Fits
  <2>3. StartsFirst(path, selector, pii, 0)
    BY <1>3 DEF StartsFirst
  <2> QED
    BY <1>1, <2>2, <2>3
<1>4. CASE deeps # {}
  <2> DEFINE deep == CHOOSE i \in deeps : TRUE
             end == Len(path) - Len(selector) + deep
             remaining == SubSeq(path, 1, end - 1)
  <2>1. deep \in deeps /\ deep \in 1 .. Len(selector)
    BY <1>1, <1>4
  <2>2. \A d \in deeps : d = deep
    BY <2>1 DEF Valid
  <2>3. /\ TailMatches(path, selector, pii, deep - 1)
        /\ IF deep = 1 THEN remaining # <<>> ELSE HeadMatches(remaining, selector, pii, deep)
    BY <1>4 DEF matches_selector
  <2> HIDE DEF deep
  <2>4. \A i \in deep .. Len(selector) : matches_state(selector[i], pii, i, path[room + i])
    BY <1>1, <2>1, <2>3 DEF TailMatches
  <2>5. \A taken \in 0 .. room, i \in 1 .. Len(selector) :
          position(taken, i) = IF i < deep THEN room - taken + i ELSE room + i
    BY <1>1, <2>1, <2>2
  <2> HIDE DEF position
  <2>6. CASE deep = 1
    <3>1. \A i \in DOMAIN selector : matches_state(selector[i], pii, i, path[position(room, i)])
      BY <1>1, <2>4, <2>5, <2>6
    <3>2. Fits(room)
      BY <1>1, <1>4, <3>1 DEF Fits
    <3>3. StartsFirst(path, selector, pii, room)
      BY <2>2, <2>6 DEF StartsFirst
    <3> QED
      BY <1>1, <3>2, <3>3
  <2>7. CASE deep # 1
    <3> DEFINE hits == {k \in DOMAIN remaining : matches_state(selector[1], pii, 1, remaining[k])}
               first == CHOOSE k \in hits : \A l \in hits : k <= l
               taken == room - (first - 1)
    <3>1. /\ end \in Int /\ end - 1 \in 0 .. Len(path)
          /\ DOMAIN remaining = 1 .. end - 1
          /\ \A k \in 1 .. end - 1 : remaining[k] = path[k]
          /\ end = room + deep
      BY <1>1, <2>1
    <3>2. /\ hits # {}
          /\ \A i \in 2 .. deep - 1 :
               first + i - 1 \in DOMAIN remaining /\ matches_state(selector[i], pii, i, remaining[first + i - 1])
      BY <2>3, <2>7 DEF HeadMatches
    <3>3. \E k \in hits : \A l \in hits : k <= l
      <4>1. end - 1 \in Nat /\ hits \in SUBSET (1 .. end - 1)
        BY <1>1, <3>1
      <4> HIDE DEF end, hits
      <4> QED
        BY <3>2, <4>1, Least
    <3>4. first \in hits /\ \A l \in hits : first <= l
      BY <3>3
    <3> HIDE DEF first
    <3>5. first \in 1 .. end - 1 /\ matches_state(selector[1], pii, 1, path[first])
      BY <3>1, <3>4
    <3>6. ASSUME NEW i \in 1 .. deep - 1
          PROVE  first + i - 1 \in 1 .. end - 1 /\ matches_state(selector[i], pii, i, path[first + i - 1])
      <4>1. CASE i = 1
        BY <3>5, <4>1
      <4>2. CASE i # 1
        <5>1. i \in 2 .. deep - 1
          BY <2>1, <4>2
        <5> QED
          BY <3>1, <3>2, <5>1
      <4> QED
        BY <4>1, <4>2
    <3>7. taken \in 0 .. room /\ room - taken = first - 1
      <4>1. deep - 1 \in 1 .. deep - 1
        BY <1>1, <2>1, <2>7
      <4>2. first + (deep - 1) - 1 \in 1 .. end - 1
        BY <3>6, <4>1
      <4>3. /\ first \in Int /\ deep \in Int /\ room \in Int
            /\ first >= 1 /\ first + (deep - 1) - 1 <= end - 1 /\ end = room + deep
        BY <1>1, <2>1, <3>1, <3>5, <4>2
      <4> HIDE DEF room, end
      <4> QED
        BY <4>3
    <3> HIDE DEF taken
    <3>8. ASSUME NEW i \in DOMAIN selector
          PROVE  matches_state(selector[i], pii, i, path[position(taken, i)])
      <4>1. CASE i < deep
        <5>1. i \in 1 .. deep - 1 /\ i \in 1 .. Len(selector)
          BY <1>1, <2>1, <4>1
        <5>2. position(taken, i) = (room - taken) + i
          BY <2>5, <3>7, <4>1, <5>1
        <5>3. (room - taken) + i = first + i - 1
          <6>1. room - taken = first - 1 /\ first \in Int /\ i \in Int
            BY <3>1, <3>5, <3>7, <5>1
          <6> HIDE DEF room
          <6> QED
            BY <6>1
        <5> QED
          BY <3>6, <5>1, <5>2, <5>3
      <4>2. CASE ~(i < deep)
        <5>1. i \in deep .. Len(selector) /\ position(taken, i) = room + i
          BY <1>1, <2>1, <2>5, <3>7, <4>2
        <5> QED
          BY <2>4, <5>1
      <4> QED
        BY <4>1, <4>2
    <3>9. Fits(taken)
      BY <1>1, <1>4, <3>7, <3>8 DEF Fits
    <3>10. StartsFirst(path, selector, pii, taken)
      <4> SUFFICES ASSUME NEW k \in 1 .. room - taken, matches_state(selector[1], pii, 1, path[k]) PROVE FALSE
        BY DEF StartsFirst
      <4>1. k \in Int /\ 1 <= k /\ k < first
        BY <3>1, <3>5, <3>7
      <4>2. k \in 1 .. end - 1
        BY <3>1, <3>5, <4>1
      <4>3. k \in hits
        BY <3>1, <4>2
      <4>4. first <= k /\ first \in Int
        <5> HIDE DEF hits
        <5> QED
          BY <3>1, <3>4, <3>5, <4>3
      <4> HIDE DEF hits, room, end, remaining
      <4> QED
        BY <4>1, <4>4
    <3> QED
      BY <3>7, <3>9, <3>10
  <2> QED
    BY <2>6, <2>7
<1> QED
  BY <1>3, <1>4

(* It finds what starts with the first state that can be the first.        *)
LEMMA SelectedIsFound ==
  ASSUME NEW States, NEW PathItems, NEW path \in Seq(States), NEW selector \in Seq(PathItems), NEW pii,
         Valid(selector),
         \E taken \in 0 .. Len(path) - Len(selector) :
           Selects(path, selector, pii, taken) /\ StartsFirst(path, selector, pii, taken)
  PROVE  matches_selector(path, selector, pii)
<1> DEFINE deeps == {i \in DOMAIN selector : selector[i] = DeepWildcard}
           room == Len(path) - Len(selector)
           position(taken, i) == IF \A d \in deeps : i < d THEN room - taken + i ELSE room - taken + taken + i
           Leading(taken) ==
             (\E d \in DOMAIN selector : d > 1 /\ selector[d] = DeepWildcard) =>
               \A k \in 1 .. room - taken : ~matches_state(selector[1], pii, 1, path[k])
<1>1. PICK taken \in 0 .. room :
        /\ deeps = {} => taken = 0
        /\ room - taken + taken >= 1
        /\ \A i \in DOMAIN selector : matches_state(selector[i], pii, i, path[position(taken, i)])
        /\ Leading(taken)
  BY DEF Selects, StartsFirst
<1> HIDE DEF Leading
<1>2. /\ Len(path) \in Nat /\ Len(selector) \in Nat
      /\ DOMAIN selector = 1 .. Len(selector) /\ DOMAIN path = 1 .. Len(path)
      /\ room \in Nat /\ taken \in Nat /\ room >= 1 /\ Len(selector) <= Len(path) - 1
  BY <1>1
<1>3. 1 \in DOMAIN selector
  BY <1>2 DEF Valid
<1>4. pii # "False"
  BY <1>1, <1>3 DEF matches_state
<1>5. CASE deeps = {}
  <2>1. \A i \in DOMAIN selector : position(taken, i) = room + i
    <3>1. taken = 0 /\ \A i : \A d \in deeps : i < d
      BY <1>1, <1>5
    <3>2. \A i \in DOMAIN selector : position(taken, i) = room - taken + i
      BY <3>1
    <3> QED
      BY <1>2, <3>1, <3>2
  <2>2. TailMatches(path, selector, pii, 0)
    <3>1. \A i \in 1 .. Len(selector) : matches_state(selector[i], pii, i, path[room + i])
      BY <1>1, <1>2, <2>1
    <3> QED
      BY <3>1 DEF TailMatches
  <2> QED
    BY <1>2, <1>4, <1>5, <2>2 DEF matches_selector
<1>6. CASE deeps # {}
  <2> DEFINE deep == CHOOSE i \in deeps : TRUE
             end == Len(path) - Len(selector) + deep
             remaining == SubSeq(path, 1, end - 1)
  <2>1. deep \in deeps /\ deep \in 1 .. Len(selector)
    BY <1>2, <1>6
  <2>2. \A d \in deeps : d = deep
    BY <2>1 DEF Valid
  <2>3. SUFFICES /\ TailMatches(path, selector, pii, deep - 1)
                 /\ IF deep = 1 THEN remaining # <<>> ELSE HeadMatches(remaining, selector, pii, deep)
    BY <1>2, <1>4, <1>6 DEF matches_selector
  <2> HIDE DEF deep
  <2>4. \A i \in 1 .. Len(selector) :
          position(taken, i) = IF i < deep THEN room - taken + i ELSE room + i
    BY <1>2, <2>1, <2>2
  <2> HIDE DEF position
  <2>5. \A i \in 1 .. Len(selector) :
          matches_state(selector[i], pii, i, path[IF i < deep THEN room - taken + i ELSE room + i])
    BY <1>1, <1>2, <2>4
  <2>6. TailMatches(path, selector, pii, deep - 1)
    BY <1>2, <2>1, <2>5 DEF TailMatches
  <2>7. /\ end \in Int /\ end - 1 \in 1 .. Len(path) /\ end - 1 = room + (deep - 1)
        /\ Len(remaining) = end - 1
        /\ DOMAIN remaining = 1 .. end - 1
        /\ \A k \in 1 .. end - 1 : remaining[k] = path[k]
    BY <1>2, <2>1
  <2>8. remaining # <<>>
    BY <2>7
  <2> HIDE DEF remaining, end
  <2>9. ASSUME deep # 1
        PROVE  HeadMatches(remaining, selector, pii, deep)
    <3> DEFINE hits == {k \in DOMAIN remaining : matches_state(selector[1], pii, 1, remaining[k])}
               first == CHOOSE k \in hits : \A l \in hits : k <= l
               start == room - taken
    <3>1. \A i \in 1 .. deep - 1 :
            start + i \in 1 .. end - 1 /\ matches_state(selector[i], pii, i, path[start + i])
      <4> SUFFICES ASSUME NEW i \in 1 .. deep - 1
                   PROVE  start + i \in 1 .. end - 1 /\ matches_state(selector[i], pii, i, path[start + i])
        OBVIOUS
      <4>1. i \in 1 .. Len(selector) /\ i < deep
        BY <1>2, <2>1
      <4>2. start + i \in 1 .. end - 1
        BY <1>1, <1>2, <2>1, <2>7
      <4> QED
        BY <2>5, <4>1, <4>2
    <3>2. start + 1 \in hits
      <4>1. 1 \in 1 .. deep - 1
        BY <1>2, <2>1, <2>9
      <4>2. start + 1 \in 1 .. end - 1 /\ matches_state(selector[1], pii, 1, path[start + 1])
        BY <3>1, <4>1
      <4> QED
        BY <2>7, <4>2
    <3>3. \A k \in hits : start + 1 <= k
      <4> SUFFICES ASSUME NEW k \in hits, ~(start + 1 <= k) PROVE FALSE
        OBVIOUS
      <4>1. k \in 1 .. start /\ matches_state(selector[1], pii, 1, path[k])
        BY <1>2, <2>7
      <4>2. deep \in DOMAIN selector /\ deep > 1 /\ selector[deep] = DeepWildcard
        BY <1>2, <2>1, <2>9
      <4> QED
        BY <1>1, <4>1, <4>2 DEF Leading
    <3>4. hits \subseteq Int /\ start + 1 \in Int
      BY <1>2, <2>7
    <3>5. first = start + 1
      <4>1. first \in hits /\ \A l \in hits : first <= l
        BY <3>2, <3>3
      <4>2. first \in Int /\ first <= start + 1 /\ start + 1 <= first
        BY <3>2, <3>3, <3>4, <4>1
      <4> HIDE DEF first, start
      <4> QED
        BY <3>4, <4>2
    <3>6. \A i \in 2 .. deep - 1 :
            first + i - 1 \in DOMAIN remaining /\ matches_state(selector[i], pii, i, remaining[first + i - 1])
      <4> SUFFICES ASSUME NEW i \in 2 .. deep - 1
                   PROVE  first + i - 1 \in DOMAIN remaining /\ matches_state(selector[i], pii, i, remaining[first + i - 1])
        OBVIOUS
      <4>1. first + i - 1 = start + i /\ i \in 1 .. deep - 1
        <5>1. first = start + 1 /\ start \in Int /\ i \in Int /\ i >= 1 /\ i <= deep - 1
          BY <1>2, <2>1, <3>5
        <5> HIDE DEF start, first
        <5> QED
          BY <5>1
      <4> QED
        BY <2>7, <3>1, <4>1
    <3> QED
      BY <3>2, <3>6 DEF HeadMatches
  <2> QED
    BY <2>6, <2>8, <2>9
<1> QED
  BY <1>5, <1>6

(* A selector chooses a value if and only if it stands for it, also if it   *)
(* starts with a wildcard; with items before a deep wildcard only the first *)
(* state counts at which these can start, for every path, selector and      *)
(* attribute of a value (Path::matches_selector).                           *)
THEOREM SelectorsAreExact ==
  ASSUME NEW States, NEW PathItems, NEW path \in Seq(States), NEW selector \in Seq(PathItems), NEW pii,
         Valid(selector)
  PROVE  Exact(path, selector, pii)
BY FoundIsSelected, SelectedIsFound DEF Exact

-----------------------------------------------------------------------------
(* FlattenSeq: there is a function that does what it says.                 *)

Flattening(seqs, n, g) == g = [i \in 1 .. n |-> IF i = 1 THEN seqs[i] ELSE g[i - 1] \o seqs[i]]

LEMMA FlatteningExists ==
  ASSUME NEW seqs, NEW n \in Nat
  PROVE  \E g : Flattening(seqs, n, g)
<1> DEFINE bad == {m \in 1 .. n : ~\E g : Flattening(seqs, m, g)}
<1>1. bad = {}
  <2> SUFFICES ASSUME bad # {} PROVE FALSE
    OBVIOUS
  <2>1. PICK m \in bad : \A l \in bad : m <= l
    BY Least
  <2>2. m \in 1 .. n /\ ~\E g : Flattening(seqs, m, g)
    OBVIOUS
  <2>3. CASE m = 1
    <3> DEFINE h == [i \in 1 .. 1 |-> seqs[i]]
    <3>1. Flattening(seqs, 1, h)
      BY DEF Flattening
    <3> QED
      BY <2>2, <2>3, <3>1
  <2>4. CASE m # 1
    <3>1. m - 1 \in 1 .. n /\ ~(m - 1 \in bad)
      BY <2>1, <2>2, <2>4
    <3>2. PICK g : Flattening(seqs, m - 1, g)
      BY <3>1
    <3> DEFINE h == [i \in 1 .. m |-> IF i = m THEN g[m - 1] \o seqs[m] ELSE g[i]]
    <3>3. \A i \in 1 .. m : h[i] = IF i = 1 THEN seqs[i] ELSE h[i - 1] \o seqs[i]
      <4> SUFFICES ASSUME NEW i \in 1 .. m PROVE h[i] = IF i = 1 THEN seqs[i] ELSE h[i - 1] \o seqs[i]
        OBVIOUS
      <4>1. CASE i = m
        <5>1. i - 1 \in 1 .. m /\ i - 1 # m /\ i # 1
          BY <2>2, <2>4, <4>1
        <5> QED
          BY <4>1, <5>1
      <4>2. CASE i # m
        <5>1. i \in 1 .. m - 1
          BY <2>2, <4>2
        <5>2. h[i] = g[i] /\ g[i] = IF i = 1 THEN seqs[i] ELSE g[i - 1] \o seqs[i]
          BY <3>2, <4>2, <5>1 DEF Flattening
        <5>3. i # 1 => i - 1 \in 1 .. m /\ i - 1 # m
          BY <2>2, <5>1
        <5> QED
          BY <5>2, <5>3
      <4> QED
        BY <4>1, <4>2
    <3>4. h = [i \in 1 .. m |-> h[i]]
      OBVIOUS
    <3> HIDE DEF h
    <3>5. Flattening(seqs, m, h)
      BY <3>3, <3>4 DEF Flattening
    <3> QED
      BY <2>2, <3>5
  <2> QED
    BY <2>3, <2>4
<1>2. CASE n = 0
  <2>1. Flattening(seqs, 0, [i \in 1 .. 0 |-> 0])
    BY DEF Flattening
  <2> QED
    BY <1>2, <2>1
<1>3. CASE n # 0
  <2>1. n \in 1 .. n
    BY <1>3
  <2> QED
    BY <1>1, <2>1
<1> QED
  BY <1>2, <1>3

LEMMA FlattenIs ==
  ASSUME NEW seqs, Len(seqs) \in Nat, Len(seqs) # 0
  PROVE  \E g : Flattening(seqs, Len(seqs), g) /\ FlattenSeq(seqs) = g[Len(seqs)]
<1> DEFINE g == CHOOSE g : Flattening(seqs, Len(seqs), g)
<1>1. Flattening(seqs, Len(seqs), g)
  BY FlatteningExists
<1>2. FlattenSeq(seqs) = g[Len(seqs)]
  BY DEF FlattenSeq, Flattening
<1> QED
  BY <1>1, <1>2

(* Every element of a flattened sequence is one of the sequences that it   *)
(* was made of, each of which stands in it as a whole, one after another.  *)
Flat(seqs, n, t, at) ==
  /\ at \in [1 .. n + 1 -> Nat] /\ at[1] = 0 /\ at[n + 1] = Len(t)
  /\ \A i \in 1 .. n :
       /\ at[i + 1] = at[i] + Len(seqs[i]) /\ at[i] + Len(seqs[i]) <= Len(t)
       /\ \A k \in 1 .. Len(seqs[i]) : t[at[i] + k] = seqs[i][k]
  /\ \A p \in 1 .. Len(t) : \E i \in 1 .. n : p - at[i] \in 1 .. Len(seqs[i])

LEMMA FlatNext ==
  ASSUME NEW S, NEW seqs \in Seq(Seq(S)), NEW n \in Nat, n + 1 \in 1 .. Len(seqs),
         NEW t \in Seq(S), NEW at, Flat(seqs, n, t, at)
  PROVE  \E b : Flat(seqs, n + 1, t \o seqs[n + 1], b)
<1> DEFINE s == seqs[n + 1]
           u == t \o s
           b == [i \in 1 .. n + 2 |-> IF i = n + 2 THEN Len(u) ELSE at[i]]
<1>1. s \in Seq(S) /\ \A i \in 1 .. n + 1 : seqs[i] \in Seq(S)
  OBVIOUS
<1> HIDE DEF s
<1>2. /\ Len(t) \in Nat /\ Len(s) \in Nat /\ \A i \in 1 .. n + 1 : Len(seqs[i]) \in Nat
      /\ Len(u) = Len(t) + Len(s)
      /\ \A p \in 1 .. Len(t) : u[p] = t[p]
      /\ \A k \in 1 .. Len(s) : u[Len(t) + k] = s[k]
  BY <1>1
<1> HIDE DEF u
<1>3. b \in [1 .. n + 2 -> Nat] /\ b[1] = 0 /\ b[n + 2] = Len(u)
  <2>1. \A i \in 1 .. n + 2 : i # n + 2 => at[i] \in Nat
    BY DEF Flat
  <2>2. Len(u) \in Nat /\ at[1] = 0
    BY <1>2 DEF Flat
  <2>3. 1 \in 1 .. n + 2 /\ n + 2 \in 1 .. n + 2 /\ 1 # n + 2
    OBVIOUS
  <2> QED
    BY <2>1, <2>2, <2>3
<1>4. ASSUME NEW i \in 1 .. n + 1
      PROVE  /\ b[i + 1] = b[i] + Len(seqs[i]) /\ b[i] + Len(seqs[i]) <= Len(u)
             /\ \A k \in 1 .. Len(seqs[i]) : u[b[i] + k] = seqs[i][k]
  <2>1. CASE i = n + 1
    <3>0. n + 1 \in 1 .. n + 2 /\ n + 1 # n + 2 /\ at[n + 1] = Len(t) /\ i + 1 = n + 2
      BY <2>1 DEF Flat
    <3>1. seqs[i] = s /\ b[i] = Len(t) /\ b[i + 1] = Len(u)
      BY <1>3, <2>1, <3>0 DEF s
    <3>2. Len(t) + Len(s) <= Len(u)
      BY <1>2
    <3> HIDE DEF b
    <3> QED
      BY <1>2, <3>1, <3>2
  <2>2. CASE i # n + 1
    <3>0. i \in 1 .. n /\ i \in 1 .. n + 2 /\ i + 1 \in 1 .. n + 2 /\ i # n + 2 /\ i + 1 # n + 2
      BY <2>2
    <3>1. i \in 1 .. n /\ b[i] = at[i] /\ b[i + 1] = at[i + 1]
      BY <3>0
    <3>2. /\ at[i] \in Nat /\ Len(seqs[i]) \in Nat /\ at[i + 1] = at[i] + Len(seqs[i])
          /\ at[i] + Len(seqs[i]) <= Len(t)
          /\ \A k \in 1 .. Len(seqs[i]) : t[at[i] + k] = seqs[i][k]
      BY <1>2, <3>1 DEF Flat
    <3>3. \A k \in 1 .. Len(seqs[i]) : at[i] + k \in 1 .. Len(t)
      <4> DEFINE a == at[i]
                 l == Len(seqs[i])
                 m == Len(t)
      <4>1. a \in Nat /\ l \in Nat /\ m \in Nat /\ a + l <= m
        BY <1>2, <3>2
      <4> HIDE DEF a, l, m
      <4>2. \A k \in 1 .. l : a + k \in 1 .. m
        BY <4>1
      <4> QED
        BY <4>2 DEF a, l, m
    <3>4. at[i] + Len(seqs[i]) <= Len(u)
      BY <1>2, <3>2
    <3>5. \A k \in 1 .. Len(seqs[i]) : u[at[i] + k] = seqs[i][k]
      BY <1>2, <3>2, <3>3
    <3> HIDE DEF b
    <3> QED
      BY <3>1, <3>2, <3>4, <3>5
  <2> QED
    BY <2>1, <2>2
<1>5. ASSUME NEW p \in 1 .. Len(u)
      PROVE  \E i \in 1 .. n + 1 : p - b[i] \in 1 .. Len(seqs[i])
  <2>1. CASE p <= Len(t)
    <3>1. p \in 1 .. Len(t)
      BY <1>2, <2>1
    <3>2. PICK i \in 1 .. n : p - at[i] \in 1 .. Len(seqs[i])
      BY <3>1 DEF Flat
    <3>3. i \in 1 .. n + 1 /\ i \in 1 .. n + 2 /\ i # n + 2
      BY <3>2
    <3>4. b[i] = at[i]
      BY <3>3
    <3> HIDE DEF b
    <3> QED
      BY <3>2, <3>3, <3>4
  <2>2. CASE ~(p <= Len(t))
    <3>0. n + 1 \in 1 .. n + 2 /\ n + 1 # n + 2 /\ at[n + 1] = Len(t)
      BY DEF Flat
    <3>1. n + 1 \in 1 .. n + 1 /\ b[n + 1] = Len(t) /\ seqs[n + 1] = s
      BY <3>0 DEF s
    <3>2. p - Len(t) \in 1 .. Len(s)
      BY <1>2, <2>2
    <3> HIDE DEF b
    <3> QED
      BY <3>1, <3>2
  <2> QED
    BY <2>1, <2>2
<1> HIDE DEF b
<1>6. Flat(seqs, n + 1, u, b)
  <2>1. (n + 1) + 1 = n + 2
    OBVIOUS
  <2> QED
    BY <1>3, <1>4, <1>5, <2>1 DEF Flat
<1> QED
  BY <1>6 DEF u, s

LEMMA Flattened ==
  ASSUME NEW S, NEW seqs \in Seq(Seq(S))
  PROVE  FlattenSeq(seqs) \in Seq(S) /\ \E at : Flat(seqs, Len(seqs), FlattenSeq(seqs), at)
<1>1. CASE Len(seqs) = 0
  <2>1. seqs = <<>> /\ FlattenSeq(seqs) = <<>>
    BY <1>1 DEF FlattenSeq
  <2>2. Flat(seqs, Len(seqs), FlattenSeq(seqs), [i \in 1 .. 1 |-> 0])
    BY <1>1, <2>1 DEF Flat
  <2>3. <<>> \in Seq(S)
    OBVIOUS
  <2> QED
    BY <2>1, <2>2, <2>3, Zenon
<1>2. CASE Len(seqs) # 0
  <2> DEFINE n == Len(seqs)
  <2>1. n \in Nat /\ \A i \in 1 .. n : seqs[i] \in Seq(S)
    OBVIOUS
  <2>2. PICK g : Flattening(seqs, n, g) /\ FlattenSeq(seqs) = g[n]
    <3>1. n # 0
      BY <1>2
    <3> QED
      BY <2>1, <3>1, FlattenIs
  <2>3. \A i \in 1 .. n : g[i] = IF i = 1 THEN seqs[i] ELSE g[i - 1] \o seqs[i]
    BY <2>2 DEF Flattening
  <2> HIDE DEF n
  <2> DEFINE Good(i) == g[i] \in Seq(S) /\ \E at : Flat(seqs, i, g[i], at)
             bad == {i \in 1 .. n : ~Good(i)}
  <2>4. bad = {}
    <3> SUFFICES ASSUME bad # {} PROVE FALSE
      OBVIOUS
    <3>1. PICK i \in bad : \A j \in bad : i <= j
      BY <2>1, Least
    <3>2. i \in 1 .. n /\ ~Good(i)
      OBVIOUS
    <3>3. CASE i = 1
      <4>1. g[1] = seqs[1] /\ g[1] \in Seq(S)
        BY <2>1, <2>3, <3>2, <3>3
      <4> DEFINE l == Len(g[1])
                 at == [j \in 1 .. 2 |-> IF j = 1 THEN 0 ELSE l]
      <4>2. Flat(seqs, 1, g[1], at)
        <5>1. l \in Nat /\ Len(seqs[1]) = l
          BY <4>1
        <5> HIDE DEF l
        <5>2. at \in [1 .. 2 -> Nat] /\ at[1] = 0 /\ at[2] = l
          BY <5>1
        <5> HIDE DEF at
        <5>3. 1 .. 1 = {1} /\ 1 + 1 = 2 /\ Len(g[1]) = l
          BY DEF l
        <5>4. at[1] + l <= l /\ at[2] = at[1] + l /\ \A k \in 1 .. l : at[1] + k = k /\ k - at[1] = k
          BY <5>1, <5>2
        <5> QED
          BY <4>1, <5>1, <5>2, <5>3, <5>4 DEF Flat
      <4> QED
        BY <3>2, <3>3, <4>1, <4>2
    <3>4. CASE i # 1
      <4> DEFINE m == i - 1
      <4>1. m \in Nat /\ m + 1 = i /\ m \in 1 .. n /\ ~(m \in bad)
        <5>1. i \in Int /\ i >= 2 /\ i <= n
          BY <2>1, <3>2, <3>4
        <5>2. m \in Nat /\ m + 1 = i /\ m \in 1 .. n
          BY <2>1, <5>1
        <5>3. ~(i <= m)
          BY <5>1
        <5> HIDE DEF bad, m
        <5> QED
          BY <3>1, <5>2, <5>3
      <4>2. PICK at : g[m] \in Seq(S) /\ Flat(seqs, m, g[m], at)
        BY <4>1
      <4>3. g[i] = g[m] \o seqs[m + 1] /\ seqs[m + 1] \in Seq(S)
        BY <2>1, <2>3, <3>2, <3>4, <4>1
      <4>4. m + 1 \in 1 .. Len(seqs)
        BY <3>2, <4>1 DEF n
      <4> HIDE DEF m
      <4>5. \E b : Flat(seqs, m + 1, g[m] \o seqs[m + 1], b)
        BY <4>1, <4>2, <4>4, FlatNext
      <4>6. g[i] \in Seq(S)
        BY <4>2, <4>3
      <4> QED
        BY <3>2, <4>1, <4>3, <4>5, <4>6
    <3> QED
      BY <3>3, <3>4
  <2>5. n \in 1 .. n
    BY <1>2, <2>1 DEF n
  <2> QED
    BY <2>2, <2>4, <2>5 DEF n
<1> QED
  BY <1>1, <1>2

IsSeq(s) == Len(s) \in Nat /\ s = [k \in 1 .. Len(s) |-> s[k]]

LEMMA SequenceOf ==
  ASSUME NEW s, IsSeq(s), NEW S, \A k \in 1 .. Len(s) : s[k] \in S
  PROVE  s \in Seq(S)
<1> DEFINE n == Len(s)
<1>1. n \in Nat /\ s = [k \in 1 .. n |-> s[k]] /\ \A k \in 1 .. n : s[k] \in S
  BY DEF IsSeq
<1> HIDE DEF n
<1>2. s \in [1 .. n -> S]
  BY <1>1
<1> QED
  BY <1>1, <1>2

LEMMA SequenceIs ==
  ASSUME NEW S, NEW s \in Seq(S)
  PROVE  IsSeq(s) /\ \A k \in 1 .. Len(s) : s[k] \in S
BY DEF IsSeq

LEMMA SequenceOfLength ==
  ASSUME NEW n \in Nat, NEW s, s = [k \in 1 .. n |-> s[k]]
  PROVE  Len(s) = n /\ IsSeq(s)
<1> DEFINE S == {s[k] : k \in 1 .. n}
<1>1. s \in [1 .. n -> S]
  OBVIOUS
<1> HIDE DEF S
<1>2. s \in Seq(S) /\ Len(s) = n
  BY <1>1
<1> QED
  BY <1>2, SequenceIs

LEMMA ShortSequences ==
  ASSUME NEW x
  PROVE  /\ IsSeq(<<>>) /\ Len(<<>>) = 0
         /\ IsSeq(<<x>>) /\ Len(<<x>>) = 1 /\ <<x>>[1] = x
BY DEF IsSeq

LEMMA FlattenedAll ==
  ASSUME NEW n \in Nat, NEW seqs, seqs = [i \in 1 .. n |-> seqs[i]], \A i \in 1 .. n : IsSeq(seqs[i])
  PROVE  IsSeq(FlattenSeq(seqs)) /\ \E at : Flat(seqs, n, FlattenSeq(seqs), at)
<1> DEFINE S == UNION {{seqs[i][k] : k \in 1 .. Len(seqs[i])} : i \in 1 .. n}
<1>1. \A i \in 1 .. n : \A k \in 1 .. Len(seqs[i]) : seqs[i][k] \in S
  OBVIOUS
<1> HIDE DEF S
<1>2. \A i \in 1 .. n : seqs[i] \in Seq(S)
  BY <1>1, SequenceOf
<1>3. Len(seqs) = n /\ IsSeq(seqs)
  BY SequenceOfLength
<1>4. seqs \in Seq(Seq(S))
  BY <1>2, <1>3, SequenceOf
<1> QED
  BY <1>3, <1>4, Flattened, SequenceIs

KindIn(s, kinds) == IsSeq(s) /\ \A k \in 1 .. Len(s) : s[k].kind \in kinds

LEMMA FlattenedKinds ==
  ASSUME NEW n \in Nat, NEW seqs, seqs = [i \in 1 .. n |-> seqs[i]],
         NEW kinds, \A i \in 1 .. n : KindIn(seqs[i], kinds)
  PROVE  KindIn(FlattenSeq(seqs), kinds)
<1> DEFINE t == FlattenSeq(seqs)
<1>1. \A i \in 1 .. n : IsSeq(seqs[i])
  BY DEF KindIn
<1>2. IsSeq(t) /\ \E at : Flat(seqs, n, t, at)
  BY <1>1, FlattenedAll
<1>3. PICK at : Flat(seqs, n, t, at)
  BY <1>2
<1> HIDE DEF t
<1>4. ASSUME NEW p \in 1 .. Len(t) PROVE t[p].kind \in kinds
  <2>1. PICK i \in 1 .. n : p - at[i] \in 1 .. Len(seqs[i])
    BY <1>3 DEF Flat
  <2>2. at[i] \in Nat /\ \A k \in 1 .. Len(seqs[i]) : t[at[i] + k] = seqs[i][k]
    BY <1>3 DEF Flat
  <2>3. t[at[i] + (p - at[i])] = seqs[i][p - at[i]] /\ seqs[i][p - at[i]].kind \in kinds
    BY <2>1, <2>2 DEF KindIn
  <2>4. p \in Int /\ at[i] + (p - at[i]) = p
    BY <1>2, <2>2 DEF IsSeq
  <2> QED
    BY <2>3, <2>4
<1> QED
  BY <1>2, <1>4 DEF KindIn, t

-----------------------------------------------------------------------------
(* The messages of an item.                                                *)

(* An item has the members that the type needs.                            *)
IsStoreItem(item) ==
  /\ item.ty = "Attachment" => item.size \in Nat
  /\ item.ty = "Sessions" => \A aggregates \in item.aggregates : IsSeq(aggregates)
  /\ item.ty = "MetricBuckets" => item.buckets \in Nat

LEMMA ExplodedKinds ==
  ASSUME NEW aggregate
  PROVE  KindIn(Exploded(aggregate), {"Session"})
<1> DEFINE seqs == [n \in DOMAIN Statuses |->
             LET count == aggregate[Statuses[n]]
             IN  IF count = 0 THEN <<>>
                 ELSE <<SessionMessage("nil", Statuses[n], count, IF Statuses[n] = "Exited" THEN 0 ELSE 1)>>]
<1>1. DOMAIN Statuses = 1 .. 4
  BY DEF Statuses
<1>2. seqs = [n \in 1 .. 4 |-> seqs[n]]
  BY <1>1
<1>3. ASSUME NEW n \in 1 .. 4 PROVE KindIn(seqs[n], {"Session"})
  <2> DEFINE x == SessionMessage("nil", Statuses[n], aggregate[Statuses[n]], IF Statuses[n] = "Exited" THEN 0 ELSE 1)
  <2>1. seqs[n] = <<>> \/ seqs[n] = <<x>>
    BY <1>1
  <2>2. x.kind = "Session"
    BY DEF SessionMessage, Message
  <2> HIDE DEF x, seqs
  <2>3. KindIn(<<>>, {"Session"}) /\ KindIn(<<x>>, {"Session"})
    BY <2>2 DEF KindIn, IsSeq
  <2> QED
    BY <2>1, <2>3
<1>4. Exploded(aggregate) = FlattenSeq(seqs)
  BY DEF Exploded
<1> HIDE DEF seqs
<1> QED
  BY <1>2, <1>3, <1>4, FlattenedKinds

LEMMA SessionsKinds ==
  ASSUME NEW aggregates, IsSeq(aggregates)
  PROVE  KindIn(produce_sessions_from_aggregate(aggregates), {"Session"})
<1> DEFINE n == Min({Len(aggregates), MaxExplodedSessions})
           seqs == [i \in DOMAIN Taken(aggregates) |-> Exploded(aggregates[i])]
<1>1. n \in 0 .. Len(aggregates)
  <2> DEFINE a == Len(aggregates)
             b == MaxExplodedSessions
  <2>1. a \in Nat /\ b \in Nat
    BY ExplodedAssumption DEF IsSeq
  <2> HIDE DEF a, b
  <2>2. Min({a, b}) \in {a, b} /\ \A y \in {a, b} : Min({a, b}) <= y
    <3>1. \E x \in {a, b} : \A y \in {a, b} : x <= y
      BY <2>1
    <3> QED
      BY <3>1, Zenon DEF Min
  <2>3. Min({a, b}) \in 0 .. a
    BY <2>1, <2>2
  <2> QED
    BY <2>3 DEF a, b
<1> HIDE DEF n
<1>2. DOMAIN Taken(aggregates) = 1 .. n
  <2> DEFINE S == {aggregates[k] : k \in 1 .. Len(aggregates)}
  <2>1. aggregates \in Seq(S)
    BY SequenceOf
  <2> HIDE DEF S
  <2>2. Len(SubSeq(aggregates, 1, n)) = n /\ SubSeq(aggregates, 1, n) \in Seq(S)
    BY <1>1, <2>1
  <2> QED
    BY <2>2 DEF Taken, n
<1>3. n \in Nat
  BY <1>1 DEF IsSeq
<1>4. seqs = [i \in 1 .. n |-> seqs[i]] /\ \A i \in 1 .. n : KindIn(seqs[i], {"Session"})
  BY <1>2, ExplodedKinds
<1>5. produce_sessions_from_aggregate(aggregates) = FlattenSeq(seqs)
  BY DEF produce_sessions_from_aggregate
<1> HIDE DEF seqs
<1> QED
  BY <1>3, <1>4, <1>5, FlattenedKinds

Others == {"NoEventId", "UserReport", "Session", "Metric"}

(* An item makes chunks only if it is an attachment of an envelope with an *)
(* id, and then it makes nothing else.                                     *)
LEMMA MessagesOfItem ==
  ASSUME NEW items, NEW n, IsStoreItem(items[n]), NEW event_id
  PROVE  IF items[n].ty = "Attachment" /\ event_id # {}
         THEN ItemMessages(items, n, event_id)
                = ChunkMessages(CHOOSE e \in event_id : TRUE, n, items[n].size)
         ELSE KindIn(ItemMessages(items, n, event_id), Others)
<1> DEFINE item == items[n]
           id == CHOOSE e \in event_id : TRUE
           s == ItemMessages(items, n, event_id)
<1>1. ASSUME NEW x, x.kind \in Others
      PROVE  KindIn(<<x>>, Others)
  BY <1>1 DEF KindIn, IsSeq
<1>2. KindIn(<<>>, Others)
  BY DEF KindIn, IsSeq
<1>3. KindIn(<<NoEventId>>, Others)
  <2>1. NoEventId.kind \in Others
    BY DEF NoEventId, Others
  <2> QED
    BY <1>1, <2>1
<1>4. KindIn(<<Message("Attachments", "UserReport", id, [id |-> n])>>, Others)
  <2> DEFINE x == Message("Attachments", "UserReport", id, [id |-> n])
  <2>1. x.kind \in Others
    BY DEF Message, Others
  <2> HIDE DEF x
  <2>2. KindIn(<<x>>, Others)
    BY <1>1, <2>1
  <2> QED
    BY <2>2 DEF x
<1>5. ASSUME NEW update PROVE KindIn(produce_session_update(update), Others)
  <2> DEFINE x == produce_session_update(update)[1]
  <2>1. x.kind \in Others
    BY DEF Message, SessionMessage, produce_session_update, Others
  <2>2. produce_session_update(update) = <<x>>
    BY DEF produce_session_update
  <2> HIDE DEF x
  <2> QED
    BY <1>1, <2>1, <2>2
<1>6. item.ty \in {"Session", "Sessions"} => KindIn(produce_sessions(item), Others)
  <2>1. CASE item.ty = "Session"
    <3>1. produce_sessions(item) = <<>> \/ \E update : produce_sessions(item) = produce_session_update(update)
      BY <2>1, Zenon DEF produce_sessions
    <3> QED
      BY <1>2, <1>5, <3>1
  <2>2. CASE item.ty = "Sessions"
    <3>1. \/ produce_sessions(item) = <<>>
          \/ \E aggregates \in item.aggregates : produce_sessions(item) = produce_sessions_from_aggregate(aggregates)
      BY <2>2 DEF produce_sessions
    <3>2. \A aggregates \in item.aggregates : KindIn(produce_sessions_from_aggregate(aggregates), {"Session"})
      BY <2>2, SessionsKinds DEF IsStoreItem
    <3>3. \A aggregates \in item.aggregates : KindIn(produce_sessions_from_aggregate(aggregates), Others)
      BY <3>2 DEF KindIn, Others
    <3> QED
      BY <1>2, <3>1, <3>3
  <2> QED
    BY <2>1, <2>2
<1>7. item.ty = "MetricBuckets" => KindIn(produce_metrics(item.buckets), Others)
  <2> SUFFICES ASSUME item.ty = "MetricBuckets" PROVE KindIn(produce_metrics(item.buckets), Others)
    OBVIOUS
  <2> DEFINE t == produce_metrics(item.buckets)
             m == item.buckets
  <2>1. m \in Nat /\ t = [k \in 1 .. m |-> t[k]] /\ \A k \in 1 .. m : t[k].kind \in Others
    BY DEF IsStoreItem, produce_metrics, Message, Others
  <2> HIDE DEF t, m
  <2>2. KindIn(t, Others)
    BY <2>1, SequenceOfLength DEF KindIn
  <2> QED
    BY <2>2 DEF t
<1>8. CASE item.ty = "Attachment" /\ event_id # {}
  BY <1>8 DEF ItemMessages, is_slow_item
<1>9. CASE ~(item.ty = "Attachment" /\ event_id # {})
  <2>1. \/ s \in {<<NoEventId>>, <<Message("Attachments", "UserReport", id, [id |-> n])>>, <<>>}
        \/ item.ty \in {"Session", "Sessions"} /\ s = produce_sessions(item)
        \/ item.ty = "MetricBuckets" /\ s = produce_metrics(item.buckets)
    BY <1>9 DEF ItemMessages, is_slow_item
  <2> HIDE DEF s, item, id
  <2>2. KindIn(s, Others)
    BY <1>2, <1>3, <1>4, <1>5, <1>6, <1>7, <2>1
  <2> QED
    BY <1>9, <2>2 DEF s, item
<1> QED
  BY <1>8, <1>9

LEMMA ChunkCounts ==
  ASSUME NEW size \in Nat
  PROVE  /\ ChunkCount(size) \in Nat
         /\ size <= ChunkCount(size) * AttachmentChunkSize
         /\ ChunkCount(size) * AttachmentChunkSize < size + AttachmentChunkSize
<1> DEFINE c == AttachmentChunkSize
<1>1. c \in Nat /\ c > 0
  BY ChunkAssumption
<1> HIDE DEF c
<1>2. ASSUME NEW x \in Nat PROVE x \div c \in Nat /\ (x \div c) * c <= x /\ x < (x \div c) * c + c
  BY <1>1
<1>3. size + c - 1 \in Nat
  BY <1>1
<1>4. ChunkCount(size) = (size + c - 1) \div c
  BY DEF ChunkCount, c
<1> DEFINE q == (size + c - 1) \div c
<1>5. q \in Nat /\ q * c <= size + c - 1 /\ size + c - 1 < q * c + c
  BY <1>2, <1>3
<1> HIDE DEF q
<1>6. q * c \in Nat
  BY <1>1, <1>5
<1>7. size <= q * c /\ q * c < size + c
  BY <1>1, <1>5, <1>6
<1> QED
  BY <1>4, <1>5, <1>7 DEF q, c

LEMMA IntervalSize ==
  ASSUME NEW p \in Nat, NEW q \in Nat, NEW s, s = p + 1 .. p + q
  PROVE  Cardinality(s) = q
<1> DEFINE a == p + 1
           b == p + q
<1>1. a \in Int /\ b \in Int /\ (IF a > b THEN 0 ELSE b - a + 1) = q
  OBVIOUS
<1> HIDE DEF a, b
<1>2. Cardinality(a .. b) = IF a > b THEN 0 ELSE b - a + 1
  BY <1>1, FS_Interval
<1> QED
  BY <1>1, <1>2 DEF a, b

(* The chunks have the bytes of the attachment.                            *)
LEMMA ChunkBytes ==
  ASSUME NEW size \in Nat, NEW p \in Nat, NEW log,
         \A j \in 1 .. ChunkCount(size) : log[p + j].data.size = ChunkSize(size, j - 1),
         NEW seen, seen = p + 1 .. p + ChunkCount(size)
  PROVE  Cardinality(BytesSeen(log, seen)) = size
<1> DEFINE c == AttachmentChunkSize
           q == ChunkCount(size)
           sizes == [k \in seen |-> log[k].data.size]
           B == BytesSeen(log, seen)
           from(b) == (b - 1) \div c
           f == [b \in 1 .. size |-> <<p + 1 + from(b), b - from(b) * c>>]
<1>1. c \in Nat /\ c > 0
  BY ChunkAssumption
<1>2. q \in Nat /\ size <= q * c /\ q * c < size + c
  BY ChunkCounts
<1>3. \A j \in 1 .. q : sizes[p + j] = IF size - (j - 1) * c < c THEN size - (j - 1) * c ELSE c
  <2>1. \A j \in 1 .. q : log[p + j].data.size = ChunkSize(size, j - 1)
    OBVIOUS
  <2>2. \A j \in 1 .. q : ChunkSize(size, j - 1) = IF size - (j - 1) * c < c THEN size - (j - 1) * c ELSE c
    BY DEF ChunkSize
  <2>3. seen = p + 1 .. p + q
    OBVIOUS
  <2> HIDE DEF q
  <2>4. \A j \in 1 .. q : sizes[p + j] = log[p + j].data.size
    <3>1. \A j \in 1 .. q : p + j \in p + 1 .. p + q
      BY <1>2
    <3>2. \A j \in 1 .. q : p + j \in seen
      BY <2>3, <3>1
    <3> QED
      BY <3>2
  <2> HIDE DEF c, sizes
  <2> QED
    BY <2>1, <2>2, <2>4
<1> HIDE DEF c
<1>11. B = UNION {{k} \X (1 .. sizes[k]) : k \in p + 1 .. p + q}
  BY DEF BytesSeen
<1> HIDE DEF q, B, sizes
<1>4. ASSUME NEW b \in 1 .. size
      PROVE  from(b) \in Nat /\ from(b) * c \in Nat /\ from(b) * c <= b - 1 /\ b - 1 < from(b) * c + c
  <2>1. b - 1 \in Nat
    OBVIOUS
  <2>2. ASSUME NEW x \in Nat PROVE x \div c \in Nat /\ (x \div c) * c \in Nat /\ (x \div c) * c <= x /\ x < (x \div c) * c + c
    BY <1>1
  <2> QED
    BY <2>1, <2>2
<1> HIDE DEF from
<1>5. ASSUME NEW b \in 1 .. size PROVE f[b] \in B
  <2> DEFINE d == from(b)
             j == d + 1
  <2>1. d \in Nat /\ d * c \in Nat /\ d * c <= b - 1 /\ b - 1 < d * c + c /\ b \in Nat /\ b <= size
    BY <1>4
  <2>2. f[b] = <<p + 1 + d, b - d * c>>
    OBVIOUS
  <2> HIDE DEF d
  <2>3. d < q
    <3>1. d * c < q * c
      <4>1. q * c \in Nat
        BY <1>1, <1>2
      <4> QED
        BY <1>2, <2>1, <4>1
    <3>2. q <= d => q * c <= d * c
      BY <1>1, <1>2, <2>1
    <3> QED
      BY <1>1, <1>2, <2>1, <3>1, <3>2
  <2>4. j \in 1 .. q /\ j - 1 = d /\ p + j = p + 1 + d
    BY <1>2, <2>1, <2>3
  <2>5. b - d * c \in 1 .. sizes[p + 1 + d]
    <3>1. sizes[p + j] = IF size - (j - 1) * c < c THEN size - (j - 1) * c ELSE c
      BY <1>3, <2>4
    <3>2. sizes[p + 1 + d] = IF size - d * c < c THEN size - d * c ELSE c
      BY <2>4, <3>1
    <3> QED
      BY <1>1, <2>1, <3>2
  <2>6. p + 1 + d \in p + 1 .. p + q
    BY <1>2, <2>1, <2>3
  <2> QED
    BY <1>11, <2>2, <2>5, <2>6
<1>6. ASSUME NEW a \in 1 .. size, NEW b \in 1 .. size, f[a] = f[b] PROVE a = b
  <2>1. p + 1 + from(a) = p + 1 + from(b) /\ a - from(a) * c = b - from(b) * c
    BY <1>6
  <2>2. from(a) = from(b)
    BY <1>4, <2>1
  <2> QED
    BY <1>4, <2>1, <2>2
<1>7. ASSUME NEW x \in B PROVE \E b \in 1 .. size : f[b] = x
  <2>1. PICK k \in p + 1 .. p + q : x \in {k} \X (1 .. sizes[k])
    BY <1>11
  <2> DEFINE j == k - p
             d == j - 1
             r == x[2]
             b == d * c + r
  <2>2. j \in 1 .. q /\ p + j = k /\ d \in Nat /\ d + 1 <= q
    BY <1>2, <2>1
  <2>3. x = <<k, r>> /\ r \in 1 .. sizes[k]
    BY <2>1
  <2> HIDE DEF r
  <2>4. sizes[k] = IF size - d * c < c THEN size - d * c ELSE c
    BY <1>3, <2>2
  <2> HIDE DEF j
  <2> HIDE DEF d
  <2>5. d * c \in Nat
    BY <1>1, <2>2
  <2>6. b \in 1 .. size /\ d * c <= b - 1 /\ b - 1 < d * c + c /\ r \in Nat
    BY <1>1, <2>3, <2>4, <2>5
  <2>7. from(b) = d
    <3> DEFINE e == from(b)
    <3>1. e \in Nat /\ e * c \in Nat /\ e * c <= b - 1 /\ b - 1 < e * c + c
      BY <1>4, <2>6
    <3> HIDE DEF e
    <3> HIDE DEF b
    <3>2. b \in Int /\ d \in Nat
      BY <2>2, <2>6
    <3>3. (e + 1) * c = e * c + c /\ (d + 1) * c = d * c + c
      BY <1>1, <3>1, <3>2
    <3>4. e * c < (d + 1) * c /\ d * c < (e + 1) * c
      BY <1>1, <2>5, <2>6, <3>1, <3>2, <3>3
    <3>5. e < d + 1
      <4>1. d + 1 <= e => (d + 1) * c <= e * c
        BY <1>1, <3>1, <3>2
      <4> QED
        BY <1>1, <2>5, <3>1, <3>2, <3>3, <3>4, <4>1
    <3>6. d < e + 1
      <4>1. e + 1 <= d => (e + 1) * c <= d * c
        BY <1>1, <3>1, <3>2
      <4> QED
        BY <1>1, <2>5, <3>1, <3>2, <3>3, <3>4, <4>1
    <3> QED
      BY <3>1, <3>2, <3>5, <3>6 DEF e
  <2>8. f[b] = <<p + 1 + d, b - d * c>>
    BY <2>6, <2>7
  <2>9. p + 1 + d = k /\ b - d * c = r
    BY <2>1, <2>2, <2>5, <2>6 DEF d, j
  <2> QED
    BY <2>3, <2>6, <2>8, <2>9
<1> HIDE DEF f
<1>8. f \in [1 .. size -> B]
  BY <1>5 DEF f
<1>9. f \in Bijection(1 .. size, B)
  BY <1>6, <1>7, <1>8 DEF Bijection, Injection, Surjection, IsInjective
<1> QED
  BY <1>9, FS_CountingElements DEF ExistsBijection, B

(* Chunks that stand together, as ChunkMessages makes them, reassemble.    *)
LEMMA ChunksReassemble ==
  ASSUME NEW size \in Nat, NEW p \in Nat, NEW log,
         \A j \in 1 .. ChunkCount(size) :
           log[p + j].data.index = j - 1 /\ log[p + j].data.size = ChunkSize(size, j - 1),
         NEW seen, seen = p + 1 .. p + ChunkCount(size),
         NEW attachment, attachment.chunks = ChunkCount(size), attachment.size = size
  PROVE  IsWhole(log, seen, attachment)
<1> DEFINE q == ChunkCount(size)
<1>1. q \in Nat /\ seen = p + 1 .. p + q
  BY ChunkCounts
<1>2. Cardinality(seen) = q
  BY <1>1, IntervalSize
<1>3. ASSUME NEW k \in seen PROVE log[k].data.index = Cardinality({l \in seen : l < k})
  <2> DEFINE j == k - p - 1
             before == {l \in seen : l < k}
  <2> HIDE DEF q
  <2>0. q \in Nat /\ k \in p + 1 .. p + q
    BY <1>1
  <2>1. j \in Nat /\ j + 1 \in 1 .. q /\ p + (j + 1) = k /\ (j + 1) - 1 = j /\ k \in Int
    BY <2>0
  <2>2. log[p + (j + 1)].data.index = (j + 1) - 1
    BY <2>1 DEF q
  <2>3. \A l : l \in p + 1 .. p + q /\ l < k <=> l \in p + 1 .. p + j
    BY <2>0, <2>1
  <2>4. before = p + 1 .. p + j
    BY <1>1, <2>3
  <2> HIDE DEF j, before
  <2>5. Cardinality(before) = j
    BY <2>1, <2>4, IntervalSize
  <2> QED
    BY <2>1, <2>2, <2>5 DEF before
<1>4. Cardinality(BytesSeen(log, seen)) = size
  BY ChunkBytes
<1> QED
  BY <1>2, <1>3, <1>4 DEF IsWhole

-----------------------------------------------------------------------------
(* The messages of an envelope with an id.                                 *)

LEMMA AttachmentOfItem ==
  ASSUME NEW items, NEW n \in Nat, DOMAIN items = 1 .. n
  PROVE  /\ IsSeq(Attachments(items))
         /\ \A p \in 1 .. Len(Attachments(items)) :
              \E i \in 1 .. n : items[i].ty = "Attachment" /\ Attachments(items)[p] = ChunkedAttachment(items[i], i)
<1> DEFINE seqs == [i \in DOMAIN items |->
             IF items[i].ty = "Attachment" THEN <<ChunkedAttachment(items[i], i)>> ELSE <<>>]
           t == Attachments(items)
<1>1. \A i \in 1 .. n : seqs[i] = IF items[i].ty = "Attachment" THEN <<ChunkedAttachment(items[i], i)>> ELSE <<>>
  OBVIOUS
<1>2. seqs = [i \in 1 .. n |-> seqs[i]]
  OBVIOUS
<1>3. t = FlattenSeq(seqs)
  BY DEF Attachments
<1> HIDE DEF seqs
<1>4. \A i \in 1 .. n : IsSeq(seqs[i])
  <2> SUFFICES ASSUME NEW i \in 1 .. n PROVE IsSeq(seqs[i])
    OBVIOUS
  <2> DEFINE x == ChunkedAttachment(items[i], i)
  <2>1. seqs[i] = <<x>> \/ seqs[i] = <<>>
    BY <1>1
  <2> HIDE DEF x
  <2> QED
    BY <2>1, ShortSequences
<1>5. IsSeq(t) /\ \E at : Flat(seqs, n, t, at)
  BY <1>2, <1>3, <1>4, FlattenedAll
<1>6. PICK at : Flat(seqs, n, t, at)
  BY <1>5
<1> HIDE DEF t
<1>7. ASSUME NEW p \in 1 .. Len(t)
      PROVE  \E i \in 1 .. n : items[i].ty = "Attachment" /\ t[p] = ChunkedAttachment(items[i], i)
  <2>1. PICK i \in 1 .. n : p - at[i] \in 1 .. Len(seqs[i])
    BY <1>6 DEF Flat
  <2>2. at[i] \in Nat /\ \A k \in 1 .. Len(seqs[i]) : t[at[i] + k] = seqs[i][k]
    <3>1. i \in 1 .. n + 1
      OBVIOUS
    <3> QED
      BY <1>6, <3>1 DEF Flat
  <2>3. p \in Int /\ at[i] + (p - at[i]) = p
    BY <1>5, <2>2 DEF IsSeq
  <2>4. t[p] = seqs[i][p - at[i]]
    BY <2>1, <2>2, <2>3
  <2> DEFINE k == p - at[i]
             x == ChunkedAttachment(items[i], i)
  <2>5. k \in 1 .. Len(seqs[i]) /\ t[p] = seqs[i][k]
    BY <2>1, <2>4
  <2>6. seqs[i] = IF items[i].ty = "Attachment" THEN <<x>> ELSE <<>>
    BY <1>1
  <2> HIDE DEF k, x
  <2>7. items[i].ty = "Attachment" /\ t[p] = x
    BY <2>5, <2>6
  <2> QED
    BY <2>7 DEF x
<1> QED
  BY <1>5, <1>7 DEF t

IsFinal(x, items, n, id) ==
  /\ x.kind \in {"Event", "Attachment"}
  /\ \A a \in ToSet(x.data.attachments) :
       \E i \in 1 .. n :
         /\ items[i].ty = "Attachment" /\ a = ChunkedAttachment(items[i], i)
         /\ x.topic = "Attachments" /\ x.uuid = id

LEMMA FinalOfEnvelope ==
  ASSUME NEW items, NEW n \in Nat, DOMAIN items = 1 .. n, NEW id
  PROVE  /\ IsSeq(FinalMessages(items, {id}))
         /\ \A p \in 1 .. Len(FinalMessages(items, {id})) : IsFinal(FinalMessages(items, {id})[p], items, n, id)
<1> DEFINE t == Attachments(items)
           topic == TopicOf(items)
           s == FinalMessages(items, {id})
           one(k) == Message(topic, "Attachment", id, [attachments |-> <<t[k]>>])
           all == Message(topic, "Event", id, [attachments |-> t])
<1>1. /\ IsSeq(t)
      /\ \A p \in 1 .. Len(t) : \E i \in 1 .. n : items[i].ty = "Attachment" /\ t[p] = ChunkedAttachment(items[i], i)
  BY AttachmentOfItem
<1>2. ASSUME NEW i \in 1 .. n, items[i].ty = "Attachment" PROVE topic = "Attachments"
  BY <1>2 DEF TopicOf, is_slow_item
<1>3. s = <<>> \/ s = <<all>> \/ s = [k \in DOMAIN t |-> one(k)]
  <2>1. (CHOOSE e \in {id} : TRUE) = id
    OBVIOUS
  <2>2. {id} # {}
    OBVIOUS
  <2> QED
    BY <2>1, <2>2, Zenon DEF FinalMessages
<1> HIDE DEF s, topic, t
<1>4. DOMAIN t = 1 .. Len(t) /\ Len(t) \in Nat
  BY <1>1 DEF IsSeq
<1>5. IsFinal(all, items, n, id)
  <2>1. all.kind = "Event" /\ all.topic = topic /\ all.uuid = id /\ all.data.attachments = t
    BY DEF Message
  <2>2. ToSet(t) = {t[p] : p \in 1 .. Len(t)}
    BY <1>4 DEF ToSet
  <2> HIDE DEF all
  <2> QED
    BY <1>1, <1>2, <2>1, <2>2 DEF IsFinal
<1>6. ASSUME NEW k \in 1 .. Len(t) PROVE IsFinal(one(k), items, n, id)
  <2> DEFINE x == one(k)
             a == t[k]
  <2>1. x.kind = "Attachment" /\ x.topic = topic /\ x.uuid = id /\ x.data.attachments = <<a>>
    BY DEF Message
  <2>2. ToSet(<<a>>) = {a}
    BY DEF ToSet
  <2>3. PICK i \in 1 .. n : items[i].ty = "Attachment" /\ a = ChunkedAttachment(items[i], i)
    BY <1>1
  <2> HIDE DEF x, a
  <2>4. IsFinal(x, items, n, id)
    BY <1>2, <2>1, <2>2, <2>3 DEF IsFinal
  <2> QED
    BY <2>4 DEF x
<1> HIDE DEF all, one
<1>7. CASE s = <<>>
  <2>1. IsSeq(s) /\ Len(s) = 0
    BY <1>7, ShortSequences
  <2>2. 1 .. Len(s) = {}
    BY <2>1
  <2> QED
    BY <2>1, <2>2 DEF s
<1>8. CASE s = <<all>>
  <2>1. IsSeq(s) /\ Len(s) = 1 /\ s[1] = all
    BY <1>8, ShortSequences
  <2> QED
    BY <1>5, <2>1 DEF s
<1>9. CASE s = [k \in DOMAIN t |-> one(k)]
  <2>1. s = [k \in 1 .. Len(t) |-> s[k]] /\ \A k \in 1 .. Len(t) : s[k] = one(k)
    BY <1>4, <1>9
  <2>2. Len(s) = Len(t) /\ IsSeq(s)
    BY <1>4, <2>1, SequenceOfLength
  <2> QED
    BY <1>6, <2>1, <2>2 DEF s
<1> QED
  BY <1>3, <1>7, <1>8, <1>9

LEMMA Joined ==
  ASSUME NEW s, NEW t, IsSeq(s), IsSeq(t)
  PROVE  /\ IsSeq(s \o t) /\ Len(s \o t) = Len(s) + Len(t)
         /\ \A k \in 1 .. Len(s) : (s \o t)[k] = s[k]
         /\ \A k \in Len(s) + 1 .. Len(s) + Len(t) : k - Len(s) \in 1 .. Len(t) /\ (s \o t)[k] = t[k - Len(s)]
<1> DEFINE S == {s[k] : k \in 1 .. Len(s)} \cup {t[k] : k \in 1 .. Len(t)}
<1>1. (\A k \in 1 .. Len(s) : s[k] \in S) /\ (\A k \in 1 .. Len(t) : t[k] \in S)
  OBVIOUS
<1> HIDE DEF S
<1>2. s \in Seq(S) /\ t \in Seq(S)
  BY <1>1, SequenceOf
<1>3. s \o t \in Seq(S) /\ Len(s \o t) = Len(s) + Len(t)
  BY <1>2
<1>4. IsSeq(s \o t)
  BY <1>3, SequenceIs
<1>5. \A k \in 1 .. Len(s) : (s \o t)[k] = s[k]
  BY <1>2
<1>6. ASSUME NEW k \in Len(s) + 1 .. Len(s) + Len(t)
      PROVE  k - Len(s) \in 1 .. Len(t) /\ (s \o t)[k] = t[k - Len(s)]
  BY <1>2
<1> QED
  BY <1>3, <1>4, <1>5, <1>6

(* What was produced is the start of the messages.                         *)
LEMMA ProducedStart ==
  ASSUME NEW items, NEW event_id, NEW fails \in Nat, IsSeq(StoreEnvelope(items, event_id))
  PROVE  /\ DOMAIN Produced(items, event_id, fails) \subseteq 1 .. Len(StoreEnvelope(items, event_id))
         /\ \A m \in DOMAIN Produced(items, event_id, fails) : \A k \in 1 .. m :
              /\ k \in DOMAIN Produced(items, event_id, fails)
              /\ Produced(items, event_id, fails)[k] = StoreEnvelope(items, event_id)[k]
<1> DEFINE s == StoreEnvelope(items, event_id)
           n == Len(s)
           stops == {k \in DOMAIN s : s[k] = NoEventId} \cup {fails + 1, n + 1}
           e == Min(stops)
           log == Produced(items, event_id, fails)
<1>1. n \in Nat /\ DOMAIN s = 1 .. n
  BY DEF IsSeq
<1>2. log = SubSeq(s, 1, e - 1)
  BY DEF Produced
<1>3. s \in Seq({s[k] : k \in 1 .. n})
  BY SequenceOf
<1> DEFINE S == {s[k] : k \in 1 .. n}
<1> HIDE DEF S, s, log
<1> HIDE DEF n
<1>4. e \in 1 .. n + 1
  <2>1. stops \in SUBSET (1 .. n + fails + 1) /\ n + 1 \in stops /\ n + fails + 1 \in Nat
    BY <1>1
  <2> HIDE DEF stops
  <2>2. \E i \in stops : \A j \in stops : i <= j
    BY <2>1, Least
  <2>3. e \in stops /\ \A j \in stops : e <= j
    BY <2>2, Zenon DEF Min
  <2>4. e \in 1 .. n + fails + 1 /\ e <= n + 1
    BY <2>1, <2>3
  <2> HIDE DEF e
  <2> QED
    BY <1>1, <2>4
<1> HIDE DEF e
<1>5. e - 1 \in 0 .. n
  BY <1>1, <1>4
<1>6. s \in Seq(S) /\ Len(s) = n
  BY <1>3 DEF S, n
<1>7. Len(log) = e - 1 /\ DOMAIN log = 1 .. e - 1 /\ \A k \in 1 .. e - 1 : log[k] = s[k]
  BY <1>1, <1>2, <1>5, <1>6
<1>8. DOMAIN log \subseteq 1 .. n
  BY <1>1, <1>5, <1>7
<1>9. \A m \in DOMAIN log : \A k \in 1 .. m : k \in DOMAIN log /\ log[k] = s[k]
  BY <1>1, <1>5, <1>7
<1> QED
  BY <1>8, <1>9 DEF log, s, n

(* An envelope without an id produces no event and no attachment.          *)
LEMMA FinalWithoutId ==
  ASSUME NEW items
  PROVE  KindIn(FinalMessages(items, {}), Others)
<1>1. FinalMessages(items, {}) = <<>> \/ FinalMessages(items, {}) = <<NoEventId>>
  BY Zenon DEF FinalMessages
<1>2. NoEventId.kind \in Others
  BY DEF NoEventId, Others
<1>3. 1 .. 0 = {} /\ 1 .. 1 = {1}
  OBVIOUS
<1> QED
  BY <1>1, <1>2, <1>3, ShortSequences DEF KindIn

(* The messages of the items, and where those of an item stand.            *)
LEMMA MessagesOfItems ==
  ASSUME NEW items, NEW n \in Nat, DOMAIN items = 1 .. n, \A i \in 1 .. n : IsStoreItem(items[i]),
         NEW event_id, NEW seqs, seqs = [i \in 1 .. n |-> seqs[i]],
         \A i \in 1 .. n : seqs[i] = ItemMessages(items, i, event_id)
  PROVE  /\ KindIn(FlattenSeq(seqs), Others \cup {"AttachmentChunk"})
         /\ \E at : Flat(seqs, n, FlattenSeq(seqs), at)
         /\ \A i \in 1 .. n : KindIn(seqs[i], Others \cup {"AttachmentChunk"})
         /\ event_id = {} => KindIn(FlattenSeq(seqs), Others)
<1> DEFINE e == CHOOSE e \in event_id : TRUE
<1>1. seqs = [i \in 1 .. n |-> seqs[i]] /\ \A i \in 1 .. n : seqs[i] = ItemMessages(items, i, event_id)
  OBVIOUS
<1>2. ASSUME NEW i \in 1 .. n, items[i].ty = "Attachment", event_id # {}
      PROVE  KindIn(seqs[i], Others \cup {"AttachmentChunk"})
  <2> DEFINE s == seqs[i]
             q == ChunkCount(items[i].size)
  <2>1. s = ChunkMessages(e, i, items[i].size)
    BY <1>1, <1>2, MessagesOfItem
  <2>2. q \in Nat
    BY <1>2, ChunkCounts DEF IsStoreItem
  <2>3. s = [k \in 1 .. q |-> s[k]] /\ \A k \in 1 .. q : s[k].kind = "AttachmentChunk"
    BY <2>1 DEF ChunkMessages, Message
  <2> HIDE DEF s, q
  <2>4. KindIn(s, Others \cup {"AttachmentChunk"})
    BY <2>2, <2>3, SequenceOfLength DEF KindIn
  <2> QED
    BY <2>4 DEF s
<1>3. ASSUME NEW i \in 1 .. n, ~(items[i].ty = "Attachment" /\ event_id # {})
      PROVE  KindIn(seqs[i], Others)
  BY <1>1, <1>3, MessagesOfItem
<1>4. \A i \in 1 .. n : KindIn(seqs[i], Others \cup {"AttachmentChunk"})
  BY <1>2, <1>3 DEF KindIn
<1>5. \A i \in 1 .. n : IsSeq(seqs[i])
  BY <1>4 DEF KindIn
<1>6. KindIn(FlattenSeq(seqs), Others \cup {"AttachmentChunk"}) /\ \E at : Flat(seqs, n, FlattenSeq(seqs), at)
  BY <1>1, <1>4, <1>5, FlattenedKinds, FlattenedAll
<1>7. ASSUME event_id = {} PROVE KindIn(FlattenSeq(seqs), Others)
  <2>1. \A i \in 1 .. n : KindIn(seqs[i], Others)
    BY <1>3, <1>7
  <2> QED
    BY <1>1, <2>1, FlattenedKinds
<1> QED
  BY <1>4, <1>6, <1>7

(* Where the chunks of an attachment are in the messages.                  *)
ChunksAt(s, p, id, a, size) ==
  /\ p + ChunkCount(size) <= Len(s)
  /\ \A j \in 1 .. ChunkCount(size) : s[p + j] = ChunkMessages(id, a, size)[j]
  /\ \A k \in 1 .. Len(s) : s[k].kind = "AttachmentChunk" /\ s[k].data.id = a
       => k \in p + 1 .. p + ChunkCount(size)

LEMMA ChunksOfAttachment ==
  ASSUME NEW items, NEW n \in Nat, DOMAIN items = 1 .. n, \A i \in 1 .. n : IsStoreItem(items[i]),
         NEW id, NEW a \in 1 .. n, items[a].ty = "Attachment",
         NEW seqs, seqs = [i \in 1 .. n |-> seqs[i]],
         \A i \in 1 .. n : seqs[i] = ItemMessages(items, i, {id})
  PROVE  \E p \in Nat : ChunksAt(FlattenSeq(seqs), p, id, a, items[a].size)
<1> DEFINE q == ChunkCount(items[a].size)
           chunks == ChunkMessages(id, a, items[a].size)
           s == FlattenSeq(seqs)
<1>1. s = FlattenSeq(seqs) /\ \A i \in 1 .. n : seqs[i] = ItemMessages(items, i, {id})
  OBVIOUS
<1> HIDE DEF s
<1>2. (CHOOSE e \in {id} : TRUE) = id /\ {id} # {}
  OBVIOUS
<1>4. KindIn(s, Others \cup {"AttachmentChunk"}) /\ \E at : Flat(seqs, n, s, at)
  BY <1>1, MessagesOfItems
<1>5. PICK at : Flat(seqs, n, s, at)
  BY <1>4
<1>6. seqs[a] = chunks
  BY <1>1, <1>2, MessagesOfItem
<1>7. q \in Nat /\ Len(chunks) = q
  <2>1. q \in Nat
    BY ChunkCounts DEF IsStoreItem
  <2>2. chunks = [j \in 1 .. q |-> chunks[j]]
    BY DEF ChunkMessages
  <2> HIDE DEF chunks, q
  <2> QED
    BY <2>1, <2>2, SequenceOfLength
<1>8. /\ at[a] \in Nat /\ at[a] + q <= Len(s)
      /\ \A j \in 1 .. q : s[at[a] + j] = chunks[j]
  <2> HIDE DEF chunks, q
  <2> QED
    BY <1>5, <1>6, <1>7 DEF Flat
<1>9. ASSUME NEW k \in 1 .. Len(s), s[k].kind = "AttachmentChunk", s[k].data.id = a
      PROVE  k \in at[a] + 1 .. at[a] + q
  <2>1. PICK i \in 1 .. n : k - at[i] \in 1 .. Len(seqs[i])
    BY <1>5 DEF Flat
  <2>2. at[i] \in Nat /\ \A j \in 1 .. Len(seqs[i]) : s[at[i] + j] = seqs[i][j]
    BY <1>5 DEF Flat
  <2> DEFINE j == k - at[i]
  <2>3. k \in Int /\ at[i] + j = k
    BY <1>4, <2>2 DEF KindIn, IsSeq
  <2>4. s[k] = seqs[i][j] /\ j \in 1 .. Len(seqs[i])
    BY <2>1, <2>2, <2>3
  <2>5. items[i].ty = "Attachment"
    <3> SUFFICES ASSUME items[i].ty # "Attachment" PROVE FALSE
      OBVIOUS
    <3>1. KindIn(seqs[i], Others)
      BY <1>1, MessagesOfItem
    <3> HIDE DEF j
    <3>2. s[k].kind \in Others
      BY <2>4, <3>1 DEF KindIn
    <3> QED
      BY <1>9, <3>2 DEF Others
  <2>6. seqs[i] = ChunkMessages(id, i, items[i].size)
    BY <1>1, <1>2, <2>5, MessagesOfItem
  <2>7. i = a
    <3> DEFINE r == ChunkCount(items[i].size)
               t == ChunkMessages(id, i, items[i].size)
    <3>1. r \in Nat
      BY <2>5, ChunkCounts DEF IsStoreItem
    <3>2. t = [l \in 1 .. r |-> t[l]] /\ \A l \in 1 .. r : t[l].data.id = i
      BY DEF ChunkMessages, Message
    <3> HIDE DEF r, t, j
    <3>3. Len(t) = r
      BY <3>1, <3>2, SequenceOfLength
    <3>4. seqs[i] = t
      BY <2>6 DEF t
    <3>5. s[k] = t[j] /\ j \in 1 .. r
      BY <2>4, <3>3, <3>4
    <3>6. s[k].data.id = i
      BY <3>2, <3>5
    <3> QED
      BY <1>9, <3>6
  <2>8. Len(seqs[i]) = q
    BY <1>6, <1>7, <2>7
  <2> HIDE DEF q
  <2>9. j \in 1 .. q /\ at[a] + j = k
    BY <2>3, <2>4, <2>7, <2>8
  <2> HIDE DEF j
  <2> QED
    BY <1>7, <1>8, <2>9
<1>10. ChunksAt(s, at[a], id, a, items[a].size)
  BY <1>8, <1>9 DEF ChunksAt
<1> QED
  BY <1>8, <1>10 DEF s

(* All chunks of the attachments of an event or of a single attachment are *)
(* produced before it, in their order and with all bytes, and, but for a   *)
(* nil id, with its topic and key, so that a consumer of it has read them, *)
(* for every envelope, every size of a chunk and wherever the producer     *)
(* failed (Handler<StoreEnvelope>, KafkaMessage::key).                     *)
THEOREM ProducedReassembles ==
  ASSUME NEW S, NEW items \in Seq(S), \A i \in DOMAIN items : IsStoreItem(items[i]),
         NEW event_id, event_id = {} \/ \E e : event_id = {e}, NEW fails \in Nat
  PROVE  Reassembles(Produced(items, event_id, fails))
<1> DEFINE n == Len(items)
           seqs == [i \in DOMAIN items |-> ItemMessages(items, i, event_id)]
           s == FlattenSeq(seqs)
           t == FinalMessages(items, event_id)
           all == StoreEnvelope(items, event_id)
           log == Produced(items, event_id, fails)
<1>1. n \in Nat /\ DOMAIN items = 1 .. n /\ \A i \in 1 .. n : IsStoreItem(items[i])
  OBVIOUS
<1>2. seqs = [i \in 1 .. n |-> seqs[i]] /\ \A i \in 1 .. n : seqs[i] = ItemMessages(items, i, event_id)
  BY <1>1
<1>4. all = s \o t
  BY DEF StoreEnvelope
<1> HIDE DEF n, seqs
<1>5. KindIn(s, Others \cup {"AttachmentChunk"}) /\ (event_id = {} => KindIn(s, Others))
  BY <1>1, <1>2, MessagesOfItems
<1>6. IsSeq(t)
  BY <1>1, FinalOfEnvelope, FinalWithoutId DEF KindIn
<1> HIDE DEF s, t, all, log
<1>7. /\ IsSeq(all) /\ Len(all) = Len(s) + Len(t) /\ Len(s) \in Nat /\ Len(t) \in Nat
      /\ \A k \in 1 .. Len(s) : all[k] = s[k]
      /\ \A k \in Len(s) + 1 .. Len(s) + Len(t) : k - Len(s) \in 1 .. Len(t) /\ all[k] = t[k - Len(s)]
  <2>1. IsSeq(s) /\ IsSeq(t)
    BY <1>5, <1>6 DEF KindIn
  <2>2. Len(s) \in Nat /\ Len(t) \in Nat
    BY <2>1 DEF IsSeq
  <2> QED
    BY <1>4, <2>1, <2>2, Joined
<1>8. /\ DOMAIN log \subseteq 1 .. Len(all)
      /\ \A m \in DOMAIN log : \A k \in 1 .. m : k \in DOMAIN log /\ log[k] = all[k]
  BY <1>7, ProducedStart DEF all, log
<1> SUFFICES ASSUME NEW m \in DOMAIN log, log[m].kind \in {"Event", "Attachment"},
                    NEW a \in ToSet(log[m].data.attachments)
             PROVE  IsWhole(log, ChunksBefore(log, m, a.id), a) /\ InOrderWith(log, m, ChunksBefore(log, m, a.id))
  BY DEF Reassembles, log
<1>9. m \in 1 .. Len(all) /\ m \in Nat /\ log[m] = all[m]
  BY <1>7, <1>8
<1>10. m > Len(s) /\ m - Len(s) \in 1 .. Len(t) /\ log[m] = t[m - Len(s)]
  <2>1. m > Len(s)
    <3> SUFFICES ASSUME m \in 1 .. Len(s) PROVE FALSE
      BY <1>7, <1>9
    <3>1. s[m].kind \in Others \cup {"AttachmentChunk"} /\ log[m] = s[m]
      BY <1>5, <1>7, <1>9 DEF KindIn
    <3> QED
      BY <3>1 DEF Others
  <2> QED
    BY <1>7, <1>9, <2>1
<1>11. event_id # {}
  <2> SUFFICES ASSUME event_id = {} PROVE FALSE
    OBVIOUS
  <2>1. KindIn(t, Others)
    BY FinalWithoutId DEF t
  <2>2. log[m].kind \in Others
    BY <1>10, <2>1 DEF KindIn
  <2> QED
    BY <2>2 DEF Others
<1>12. PICK id : event_id = {id}
  BY <1>11
<1>13. \A p \in 1 .. Len(t) : IsFinal(t[p], items, n, id)
  BY <1>1, <1>12, FinalOfEnvelope DEF t
<1>14. PICK i \in 1 .. n : /\ items[i].ty = "Attachment" /\ a = ChunkedAttachment(items[i], i)
                           /\ log[m].topic = "Attachments" /\ log[m].uuid = id
  BY <1>10, <1>13 DEF IsFinal
<1> DEFINE size == items[i].size
           q == ChunkCount(size)
           chunks == ChunkMessages(id, i, size)
<1>15. size \in Nat /\ q \in Nat
  BY <1>1, <1>14, ChunkCounts DEF IsStoreItem
<1>16. a.id = i /\ a.chunks = q /\ a.size = size
  BY <1>14 DEF ChunkedAttachment
<1>17. \A j \in 1 .. q : /\ chunks[j].kind = "AttachmentChunk" /\ chunks[j].topic = "Attachments" /\ chunks[j].uuid = id
                         /\ chunks[j].data.id = i /\ chunks[j].data.index = j - 1
                         /\ chunks[j].data.size = ChunkSize(size, j - 1)
  BY DEF ChunkMessages, Message
<1>18. PICK p \in Nat :
         /\ p + q <= Len(s)
         /\ \A j \in 1 .. q : s[p + j] = chunks[j]
         /\ \A k \in 1 .. Len(s) : s[k].kind = "AttachmentChunk" /\ s[k].data.id = i => k \in p + 1 .. p + q
  <2>1. \A j \in 1 .. n : seqs[j] = ItemMessages(items, j, {id})
    BY <1>2, <1>12
  <2>2. PICK p \in Nat : ChunksAt(FlattenSeq(seqs), p, id, i, items[i].size)
    BY <1>1, <1>2, <1>14, <2>1, ChunksOfAttachment
  <2>3. ChunksAt(s, p, id, i, size)
    BY <2>2 DEF s
  <2> QED
    BY <2>3 DEF ChunksAt
<1> DEFINE seen == ChunksBefore(log, m, a.id)
<1> HIDE DEF size, chunks
<1> HIDE DEF q
<1>19. \A j \in 1 .. q : p + j \in 1 .. Len(s) /\ p + j \in 1 .. m - 1 /\ log[p + j] = chunks[j]
  <2>1. \A j \in 1 .. q : p + j \in 1 .. Len(s) /\ p + j \in 1 .. m - 1 /\ p + j \in 1 .. m
    <3> DEFINE l == Len(s)
    <3>1. l \in Nat /\ m \in Nat /\ m > l /\ q \in Nat /\ p + q <= l
      BY <1>7, <1>9, <1>10, <1>15, <1>18
    <3> HIDE DEF l
    <3>2. \A j \in 1 .. q : p + j \in 1 .. l /\ p + j \in 1 .. m - 1 /\ p + j \in 1 .. m
      BY <3>1
    <3> QED
      BY <3>2 DEF l
  <2>2. \A j \in 1 .. q : log[p + j] = all[p + j] /\ all[p + j] = s[p + j]
    BY <1>7, <1>8, <2>1
  <2> QED
    BY <1>18, <2>1, <2>2
<1>20. seen = p + 1 .. p + q
  <2>1. ASSUME NEW k \in seen PROVE k \in p + 1 .. p + q
    <3>1. k \in 1 .. m - 1 /\ log[k].kind = "AttachmentChunk" /\ log[k].data.id = i
      BY <1>16 DEF ChunksBefore
    <3>2. k \in 1 .. m /\ k \in 1 .. Len(all) /\ log[k] = all[k]
      BY <1>7, <1>8, <1>9, <3>1
    <3>3. k \in 1 .. Len(s)
      <4> SUFFICES ASSUME k > Len(s) PROVE FALSE
        BY <1>7, <3>2
      <4>1. k - Len(s) \in 1 .. Len(t) /\ all[k] = t[k - Len(s)]
        BY <1>7, <3>2
      <4>2. log[k].kind \in {"Event", "Attachment"}
        BY <1>13, <3>2, <4>1 DEF IsFinal
      <4> QED
        BY <3>1, <4>2
    <3> QED
      BY <1>7, <1>18, <3>1, <3>2, <3>3
  <2>2. ASSUME NEW k \in p + 1 .. p + q PROVE k \in seen
    <3> DEFINE j == k - p
    <3>1. j \in 1 .. q /\ p + j = k
      BY <1>15
    <3>2. k \in 1 .. m - 1 /\ log[k] = chunks[j]
      BY <1>19, <3>1
    <3> HIDE DEF j
    <3> QED
      BY <1>14, <1>16, <1>17, <3>1, <3>2 DEF ChunksBefore
  <2> QED
    BY <2>1, <2>2
<1>21. \A j \in 1 .. q : log[p + j].data.index = j - 1 /\ log[p + j].data.size = ChunkSize(size, j - 1)
  BY <1>17, <1>19
<1> HIDE DEF seen
<1>22. IsWhole(log, seen, a)
  BY <1>15, <1>16, <1>20, <1>21, ChunksReassemble DEF q
<1>23. InOrderWith(log, m, seen)
  <2> SUFFICES ASSUME NEW k \in seen
               PROVE  log[k].topic = log[m].topic /\ (log[m].uuid # "nil" => PartitionKey(log, k) = PartitionKey(log, m))
    BY DEF InOrderWith
  <2> DEFINE j == k - p
  <2>1. j \in 1 .. q /\ p + j = k
    BY <1>15, <1>20
  <2>2. log[k] = chunks[j]
    BY <1>19, <2>1
  <2> HIDE DEF j
  <2>3. log[k].topic = "Attachments" /\ log[k].uuid = id
    BY <1>17, <2>1, <2>2
  <2> QED
    BY <1>14, <2>3 DEF PartitionKey
<1> QED
  BY <1>22, <1>23 DEF seen

-----------------------------------------------------------------------------
(* Texts of envelopes.                                                     *)

Fields == {"is", "dsn", "origin", "event_id", "ty", "length"}

IsObject(x) ==
  /\ x = [f \in Fields |-> x[f]]
  /\ x.is = "object"
  /\ x.length = {} \/ \E n \in Nat : x.length = {n}

(* A text is a sequence of newlines, objects and other bytes.              *)
IsText(s) ==
  /\ IsSeq(s)
  /\ \A k \in 1 .. Len(s) : s[k] = Newline \/ s[k] = Byte \/ IsObject(s[k])

LEMMA SymbolsDiffer ==
  /\ Newline # Byte /\ Newline.is # "object" /\ Byte.is # "object"
  /\ \A x : IsObject(x) => x # Newline /\ x # Byte
<1>1. Newline.is = "newline" /\ Byte.is = "byte"
  BY DEF Newline, Byte
<1> QED
  BY <1>1 DEF IsObject

LEMMA FirstOfHits ==
  ASSUME NEW n \in Nat, NEW hits \in SUBSET (1 .. n)
  PROVE  IF hits = {} THEN FirstOf(hits) = 0
         ELSE FirstOf(hits) \in hits /\ \A k \in hits : FirstOf(hits) <= k
<1>1. CASE hits = {}
  BY <1>1 DEF FirstOf
<1>2. CASE hits # {}
  <2>1. \E j \in hits : \A k \in hits : j <= k
    BY <1>2, Least
  <2>2. FirstOf(hits) = CHOOSE j \in hits : \A k \in hits : j <= k
    BY <1>2 DEF FirstOf
  <2> QED
    BY <1>2, <2>1, <2>2, Zenon
<1> QED
  BY <1>1, <1>2

LEMMA NextValueIs ==
  ASSUME NEW s, IsText(s), NEW i \in Nat, i > 0
  PROVE  /\ NextValue(s, i) = 0 \/ NextValue(s, i) \in i .. Len(s)
         /\ i <= Len(s) /\ s[i] # Newline => NextValue(s, i) = i
<1> DEFINE hits == {j \in i .. Len(s) : s[j] # Newline}
<1>1. Len(s) \in Nat /\ hits \in SUBSET (1 .. Len(s)) /\ NextValue(s, i) = FirstOf(hits)
  BY DEF IsText, IsSeq, NextValue
<1>2. IF hits = {} THEN FirstOf(hits) = 0
      ELSE FirstOf(hits) \in hits /\ \A k \in hits : FirstOf(hits) <= k
  BY <1>1, FirstOfHits
<1>3. hits \subseteq i .. Len(s)
  OBVIOUS
<1>4. i <= Len(s) /\ s[i] # Newline => i \in hits
  BY <1>1
<1> HIDE DEF hits
<1>5. FirstOf(hits) = 0 \/ FirstOf(hits) \in i .. Len(s)
  BY <1>2, <1>3
<1>6. ASSUME i \in hits PROVE FirstOf(hits) = i
  <2>1. FirstOf(hits) <= i /\ FirstOf(hits) \in i .. Len(s)
    BY <1>2, <1>3, <1>6
  <2> QED
    BY <1>1, <2>1
<1> QED
  BY <1>1, <1>4, <1>5, <1>6

LEMMA NextNewlineIs ==
  ASSUME NEW s, IsText(s), NEW i \in Nat, i > 0
  PROVE  IF NextNewline(s, i) = 0 THEN \A k \in i .. Len(s) : s[k] # Newline
         ELSE /\ NextNewline(s, i) \in i .. Len(s) /\ s[NextNewline(s, i)] = Newline
              /\ \A k \in i .. NextNewline(s, i) - 1 : s[k] # Newline
<1> DEFINE hits == {j \in i .. Len(s) : s[j] = Newline}
           f == NextNewline(s, i)
<1>1. Len(s) \in Nat /\ hits \in SUBSET (1 .. Len(s)) /\ f = FirstOf(hits)
  BY DEF IsText, IsSeq, NextNewline
<1>2. IF hits = {} THEN FirstOf(hits) = 0
      ELSE FirstOf(hits) \in hits /\ \A k \in hits : FirstOf(hits) <= k
  BY <1>1, FirstOfHits
<1>3. \A k \in i .. Len(s) : s[k] = Newline <=> k \in hits
  OBVIOUS
<1>4. \A k \in hits : k \in i .. Len(s) /\ s[k] = Newline /\ k # 0
  OBVIOUS
<1> HIDE DEF hits, f
<1>5. CASE hits = {}
  BY <1>1, <1>2, <1>3, <1>5 DEF f
<1>6. CASE hits # {}
  <2>1. f \in hits /\ \A k \in hits : f <= k
    BY <1>1, <1>2, <1>6
  <2>2. f \in i .. Len(s) /\ s[f] = Newline /\ f # 0
    BY <1>4, <2>1
  <2>3. \A k \in i .. f - 1 : k \in i .. Len(s) /\ ~(f <= k)
    BY <1>1, <2>2
  <2>4. \A k \in i .. f - 1 : s[k] # Newline
    BY <1>3, <2>1, <2>3
  <2> QED
    BY <2>2, <2>4 DEF f
<1> QED
  BY <1>5, <1>6

LEMMA Results ==
  /\ \A v : Ok(v).ok = TRUE /\ Ok(v).value = v
  /\ \A e : Err(e).ok = FALSE
BY DEF Ok, Err

(* An item as it is in an envelope.                                        *)
IsItem(x) ==
  /\ x = [headers |-> x.headers, payload |-> x.payload]
  /\ IsObject(x.headers) /\ x.headers.ty # {}
  /\ IsText(x.payload)
  /\ x.headers.length = {} => \A k \in 1 .. Len(x.payload) : x.payload[k] # Newline
  /\ x.headers.length # {} => x.headers.length = {Len(x.payload)}

LEMMA PartOfText ==
  ASSUME NEW s, IsText(s), NEW a \in Nat, a > 0, NEW b \in Nat, a <= b, b <= Len(s) + 1
  PROVE  /\ IsText(SubSeq(s, a, b - 1)) /\ Len(SubSeq(s, a, b - 1)) = b - a
         /\ \A k \in 1 .. b - a : a + k - 1 \in a .. b - 1 /\ SubSeq(s, a, b - 1)[k] = s[a + k - 1]
<1> DEFINE S == {s[k] : k \in 1 .. Len(s)}
           u == SubSeq(s, a, b - 1)
           n == Len(s)
           IsSymbol(x) == x = Newline \/ x = Byte \/ IsObject(x)
<1>1. n \in Nat /\ s \in Seq(S) /\ \A x \in S : IsSymbol(x)
  <2>1. \A x \in S : IsSymbol(x)
    BY DEF IsText
  <2>2. s \in Seq(S)
    BY SequenceOf DEF IsText
  <2> QED
    BY <2>1, <2>2 DEF IsText, IsSeq
<1> HIDE DEF S, IsSymbol
<1>2. u = [k \in 1 .. b - a |-> s[a + k - 1]] /\ b - a \in Nat
  <2>1. (b - 1) - a + 1 = b - a /\ b - a \in Nat
    OBVIOUS
  <2> QED
    BY <2>1
<1>3. \A k \in 1 .. b - a : a + k - 1 \in a .. b - 1 /\ a + k - 1 \in 1 .. n
  <2> HIDE DEF n
  <2> QED
    BY <1>1 DEF n
<1>4. \A k \in 1 .. b - a : u[k] = s[a + k - 1] /\ s[a + k - 1] \in S
  BY <1>1, <1>2, <1>3
<1> HIDE DEF u
<1>5. u = [k \in 1 .. b - a |-> u[k]]
  BY <1>2
<1>6. Len(u) = b - a /\ IsSeq(u)
  BY <1>2, <1>5, SequenceOfLength
<1>7. \A k \in 1 .. Len(u) : IsSymbol(u[k])
  BY <1>1, <1>4, <1>6
<1>8. IsText(u)
  BY <1>6, <1>7 DEF IsText, IsSymbol
<1> QED
  BY <1>3, <1>4, <1>6, <1>8 DEF u

LEMMA ParsedItem ==
  ASSUME NEW s, IsText(s), NEW o \in 1 .. Len(s), parse_item(s, o).ok
  PROVE  /\ parse_item(s, o) = Ok(parse_item(s, o).value)
         /\ parse_item(s, o).value.offset \in o + 1 .. Len(s) + 2
         /\ IsItem(parse_item(s, o).value.item)
<1> DEFINE n == Len(s)
           i == NextValue(s, o)
           start == IF i + 2 <= n + 1 THEN i + 2 ELSE n + 1
           end == PayloadEnd(s, start, s[i].length)
           r == parse_item(s, o)
           payload == SubSeq(s, start, end - 1)
           item == [headers |-> s[i], payload |-> payload]
<1>1. n \in Nat /\ o \in Nat /\ o > 0 /\ o <= n
  BY DEF IsText, IsSeq
<1>2. i = 0 \/ i \in o .. n
  BY <1>1, NextValueIs
<1>3. r = ItemAt(s, i, start)
  BY DEF parse_item
<1> HIDE DEF i, start, end, r
<1>4. i # 0 /\ s[i].is = "object" /\ s[i].ty # {} /\ require_termination(s, i + 1)
      /\ r = Payload(s, s[i], start, end)
  <2>1. r.ok
    BY DEF r
  <2> QED
    BY <1>3, <2>1, Results DEF ItemAt, end
<1>5. end # 0 /\ r = Ok([item |-> item, offset |-> end + 1])
  <2>1. r.ok
    BY DEF r
  <2> QED
    BY <1>4, <2>1, Results DEF Payload
<1>6. i \in Nat /\ o <= i /\ i <= n /\ IsObject(s[i])
  <2>1. i \in Nat /\ o <= i /\ i <= n /\ i \in 1 .. n
    BY <1>1, <1>2, <1>4
  <2> QED
    BY <1>4, <2>1, SymbolsDiffer DEF IsText
<1>7. start \in Nat /\ i + 1 <= start /\ start <= n + 1
  <2> HIDE DEF n
  <2> QED
    BY <1>1, <1>6 DEF start
<1>8. /\ end \in Nat /\ start <= end /\ end <= n + 1
      /\ s[i].length = {} => \A k \in start .. end - 1 : s[k] # Newline
      /\ s[i].length # {} => s[i].length = {end - start}
  <2>1. CASE s[i].length = {}
    <3> DEFINE f == NextNewline(s, start)
    <3>1. end = IF f = 0 THEN n + 1 ELSE f
      BY <2>1 DEF end, PayloadEnd
    <3>2. IF f = 0 THEN \A k \in start .. n : s[k] # Newline
          ELSE /\ f \in start .. n /\ s[f] = Newline
               /\ \A k \in start .. f - 1 : s[k] # Newline
      <4>1. start > 0
        BY <1>6, <1>7
      <4> QED
        BY <1>7, <4>1, NextNewlineIs
    <3> HIDE DEF f, n
    <3>3. CASE f = 0
      <4>1. end = n + 1 /\ end - 1 = n /\ \A k \in start .. n : s[k] # Newline
        BY <1>1, <3>1, <3>2, <3>3
      <4>2. end \in Nat /\ start <= end /\ end <= n + 1
        BY <1>1, <1>7, <4>1
      <4> QED
        BY <2>1, <4>1, <4>2
    <3>4. CASE f # 0
      <4>1. end = f /\ f \in start .. n /\ \A k \in start .. f - 1 : s[k] # Newline
        BY <3>1, <3>2, <3>4
      <4>2. end \in Nat /\ start <= end /\ end <= n + 1
        BY <1>1, <1>7, <4>1
      <4> QED
        BY <2>1, <4>1, <4>2
    <3> QED
      BY <3>3, <3>4
  <2>2. CASE s[i].length # {}
    <3>1. PICK l \in Nat : s[i].length = {l}
      BY <1>6, <2>2 DEF IsObject
    <3>2. (CHOOSE m \in {l} : TRUE) = l
      OBVIOUS
    <3>3. end = IF start + l <= n + 1 /\ require_termination(s, start + l) THEN start + l ELSE 0
      BY <2>2, <3>1, <3>2 DEF end, PayloadEnd
    <3>4. end = start + l /\ start + l <= n + 1
      BY <1>5, <3>3
    <3> HIDE DEF n
    <3>5. end \in Nat /\ start <= end /\ end <= n + 1 /\ end - start = l
      BY <1>7, <3>4
    <3> QED
      BY <2>2, <3>1, <3>5
  <2> QED
    BY <2>1, <2>2
<1>9. /\ IsText(payload) /\ Len(payload) = end - start
      /\ \A k \in 1 .. end - start : start + k - 1 \in start .. end - 1 /\ payload[k] = s[start + k - 1]
  <2>1. start > 0
    BY <1>6, <1>7
  <2> QED
    BY <1>7, <1>8, <2>1, PartOfText
<1> HIDE DEF payload
<1>10. item.headers = s[i] /\ item.payload = payload
  OBVIOUS
<1>11. IsItem(item)
  <2>1. item = [headers |-> item.headers, payload |-> item.payload]
    OBVIOUS
  <2> HIDE DEF item
  <2>2. s[i].length = {} => \A k \in 1 .. Len(payload) : payload[k] # Newline
    BY <1>8, <1>9
  <2> QED
    BY <1>4, <1>6, <1>8, <1>9, <1>10, <2>1, <2>2 DEF IsItem
<1> HIDE DEF item
<1>12. r.value.item = item /\ r.value.offset = end + 1 /\ r = Ok(r.value)
  BY <1>5, Results
<1>13. end + 1 \in o + 1 .. n + 2
  <2> HIDE DEF n
  <2> QED
    BY <1>1, <1>6, <1>7, <1>8
<1> QED
  BY <1>11, <1>12, <1>13 DEF r

-----------------------------------------------------------------------------
(* parse_items: there is a function that does what it says.                *)

Step(s, o, g) ==
  IF o > Len(s) THEN Ok(<<>>) ELSE FollowedBy(parse_item(s, o), g[parse_item(s, o).value.offset])

Parsing(s, k, g) == g = [o \in k .. Len(s) + 3 |-> Step(s, o, g)]

(* A step only needs what comes after it.                                  *)
LEMMA StepNeeds ==
  ASSUME NEW s, IsText(s), NEW k \in Nat, k > 0, NEW o \in k .. Len(s) + 3, NEW g, NEW h,
         \A p \in k + 1 .. Len(s) + 3 : g[p] = h[p]
  PROVE  Step(s, o, g) = Step(s, o, h)
<1> DEFINE n == Len(s)
           item == parse_item(s, o)
<1>1. n \in Nat
  BY DEF IsText, IsSeq
<1>2. CASE o > n
  BY <1>2 DEF Step
<1>3. CASE ~(o > n)
  <2>1. o \in 1 .. n
    <3> HIDE DEF n
    <3>1. o \in k .. n + 3
      BY DEF n
    <3> QED
      BY <1>1, <1>3, <3>1
  <2>2. CASE ~item.ok
    BY <1>3, <2>2 DEF Step, FollowedBy
  <2>3. CASE item.ok
    <3> DEFINE p == item.value.offset
    <3>1. p \in o + 1 .. n + 2
      BY <2>1, <2>3, ParsedItem
    <3> HIDE DEF p, item
    <3>2. p \in k + 1 .. n + 3
      <4> HIDE DEF n
      <4>1. o \in k .. n + 3
        BY DEF n
      <4> QED
        BY <1>1, <3>1, <4>1
    <3>3. g[p] = h[p]
      BY <3>2
    <3> QED
      BY <1>3, <3>3 DEF Step, p, item
  <2> QED
    BY <2>2, <2>3
<1> QED
  BY <1>2, <1>3

LEMMA ParsingExists ==
  ASSUME NEW s, IsText(s), NEW k \in 1 .. Len(s) + 3
  PROVE  \E g : Parsing(s, k, g)
<1> DEFINE n == Len(s)
           m == n + 3
           bad == {d \in 1 .. m : ~\E g : Parsing(s, m + 1 - d, g)}
<1>1. n \in Nat /\ m \in Nat /\ m > n
  BY DEF IsText, IsSeq
<1>2. bad = {}
  <2> SUFFICES ASSUME bad # {} PROVE FALSE
    OBVIOUS
  <2>1. PICK d \in bad : \A l \in bad : d <= l
    <3>1. bad \in SUBSET (1 .. m)
      OBVIOUS
    <3> HIDE DEF bad, m
    <3> QED
      BY <1>1, <3>1, Least
  <2>2. d \in 1 .. m /\ ~\E g : Parsing(s, m + 1 - d, g)
    OBVIOUS
  <2>3. CASE d = 1
    <3> DEFINE h == [o \in m .. m |-> Ok(<<>>)]
    <3>1. m + 1 - d = m /\ \A o \in m .. m : o > n
      BY <1>1, <2>3
    <3>2. \A o \in m .. m : Step(s, o, h) = Ok(<<>>)
      BY <3>1 DEF Step
    <3>3. h = [o \in m .. m |-> Step(s, o, h)]
      BY <3>2
    <3> HIDE DEF h
    <3>4. Parsing(s, m, h)
      BY <3>3 DEF Parsing
    <3> HIDE DEF m
    <3> QED
      BY <2>2, <3>1, <3>4
  <2>4. CASE d # 1
    <3> DEFINE j == m + 1 - d
    <3>1. d - 1 \in 1 .. m /\ ~(d <= d - 1) /\ m + 1 - (d - 1) = j + 1 /\ j \in 1 .. m /\ j \in Nat /\ j > 0
      <4> HIDE DEF m
      <4> QED
        BY <1>1, <2>2, <2>4
    <3>2. d - 1 \notin bad
      <4> HIDE DEF bad, j
      <4> QED
        BY <2>1, <3>1
    <3>3. PICK g : Parsing(s, j + 1, g)
      <4>1. \E g : Parsing(s, m + 1 - (d - 1), g)
        BY <3>1, <3>2
      <4> HIDE DEF j, m
      <4> QED
        BY <3>1, <4>1
    <3> DEFINE h == [o \in j .. m |-> IF o = j THEN Step(s, j, g) ELSE g[o]]
    <3> HIDE DEF j
    <3>4. \A o \in j + 1 .. m : h[o] = g[o] /\ g[o] = Step(s, o, g)
      <4>1. \A o \in j + 1 .. m : g[o] = Step(s, o, g)
        BY <3>3 DEF Parsing
      <4> HIDE DEF m
      <4>2. \A o \in j + 1 .. m : o \in j .. m /\ o # j
        BY <1>1, <3>1
      <4> QED
        BY <4>1, <4>2
    <3>5. \A o \in j .. m : h[o] = IF o = j THEN Step(s, j, g) ELSE g[o]
      OBVIOUS
    <3>6. h = [o \in j .. m |-> h[o]]
      OBVIOUS
    <3> HIDE DEF h
    <3>7. \A o \in j .. m : Step(s, o, h) = Step(s, o, g)
      BY <3>1, <3>4, StepNeeds
    <3>8. \A o \in j .. m : h[o] = Step(s, o, h)
      <4> SUFFICES ASSUME NEW o \in j .. m PROVE h[o] = Step(s, o, h)
        OBVIOUS
      <4>1. o = j \/ o \in j + 1 .. m
        <5> HIDE DEF m
        <5> QED
          BY <1>1, <3>1
      <4> QED
        BY <3>4, <3>5, <3>7, <4>1
    <3>9. Parsing(s, j, h)
      BY <3>6, <3>8 DEF Parsing
    <3> QED
      BY <2>2, <3>9 DEF j
  <2> QED
    BY <2>3, <2>4
<1> DEFINE c == m + 1 - k
<1>3. c \in 1 .. m /\ m + 1 - c = k
  <2>1. k \in 1 .. m
    OBVIOUS
  <2> HIDE DEF m
  <2> QED
    BY <1>1, <2>1
<1>4. \E g : Parsing(s, m + 1 - c, g)
  <2> HIDE DEF c
  <2> QED
    BY <1>2, <1>3
<1> QED
  BY <1>3, <1>4

LEMMA ParseItemsIs ==
  ASSUME NEW s, IsText(s), NEW o \in 1 .. Len(s) + 3
  PROVE  parse_items(s, o) =
           IF o > Len(s) THEN Ok(<<>>)
           ELSE FollowedBy(parse_item(s, o), parse_items(s, parse_item(s, o).value.offset))
<1> DEFINE g == CHOOSE g : Parsing(s, 1, g)
<1>1. Parsing(s, 1, g)
  <2>1. 1 \in 1 .. Len(s) + 3
    BY DEF IsText, IsSeq
  <2> QED
    BY <2>1, ParsingExists
<1>2. \A p : parse_items(s, p) = g[p]
  BY DEF parse_items, Parsing, Step
<1> HIDE DEF g
<1>3. g[o] = Step(s, o, g)
  BY <1>1 DEF Parsing
<1> QED
  BY <1>2, <1>3 DEF Step

IsItems(v) == IsSeq(v) /\ \A k \in 1 .. Len(v) : IsItem(v[k])

LEMMA NothingIsItems == IsItems(<<>>)
<1>1. IsSeq(<<>>) /\ Len(<<>>) = 0
  BY ShortSequences
<1>2. 1 .. 0 = {}
  OBVIOUS
<1> QED
  BY <1>1, <1>2 DEF IsItems

LEMMA FirstItemAndRest ==
  ASSUME NEW x, IsItem(x), NEW v, IsItems(v)
  PROVE  IsItems(<<x>> \o v)
<1> DEFINE u == <<x>>
<1>1. IsSeq(u) /\ Len(u) = 1 /\ u[1] = x
  BY ShortSequences
<1> HIDE DEF u
<1>2. /\ IsSeq(u \o v) /\ Len(u \o v) = Len(u) + Len(v)
      /\ \A k \in 1 .. Len(u) : (u \o v)[k] = u[k]
      /\ \A k \in Len(u) + 1 .. Len(u) + Len(v) : k - Len(u) \in 1 .. Len(v) /\ (u \o v)[k] = v[k - Len(u)]
  BY <1>1, Joined DEF IsItems
<1>3. Len(v) \in Nat
  BY DEF IsItems, IsSeq
<1>4. ASSUME NEW k \in 1 .. Len(u \o v) PROVE IsItem((u \o v)[k])
  <2>1. k = 1 \/ k \in Len(u) + 1 .. Len(u) + Len(v)
    BY <1>1, <1>2, <1>3
  <2>2. CASE k = 1
    <3>1. (u \o v)[1] = x
      BY <1>1, <1>2
    <3> QED
      BY <2>2, <3>1
  <2>3. CASE k \in Len(u) + 1 .. Len(u) + Len(v)
    <3>1. k - Len(u) \in 1 .. Len(v) /\ (u \o v)[k] = v[k - Len(u)]
      BY <1>2, <2>3
    <3>2. \A l \in 1 .. Len(v) : IsItem(v[l])
      BY DEF IsItems
    <3> QED
      BY <3>1, <3>2
  <2> QED
    BY <2>1, <2>2, <2>3
<1> QED
  BY <1>2, <1>4 DEF IsItems, u

LEMMA ItemsParsed ==
  ASSUME NEW s, IsText(s), NEW k \in 1 .. Len(s) + 3, parse_items(s, k).ok
  PROVE  parse_items(s, k) = Ok(parse_items(s, k).value) /\ IsItems(parse_items(s, k).value)
<1> DEFINE n == Len(s)
           m == n + 3
           Good(o) == parse_items(s, o).ok =>
             parse_items(s, o) = Ok(parse_items(s, o).value) /\ IsItems(parse_items(s, o).value)
           bad == {d \in 1 .. m : ~Good(m + 1 - d)}
<1>1. n \in Nat /\ m \in Nat /\ m > n
  BY DEF IsText, IsSeq
<1>2. bad = {}
  <2> SUFFICES ASSUME bad # {} PROVE FALSE
    OBVIOUS
  <2>1. PICK d \in bad : \A l \in bad : d <= l
    <3>1. bad \in SUBSET (1 .. m)
      OBVIOUS
    <3> HIDE DEF bad, m
    <3> QED
      BY <1>1, <3>1, Least
  <2> DEFINE o == m + 1 - d
             all == parse_items(s, o)
             item == parse_item(s, o)
             p == item.value.offset
             rest == parse_items(s, p)
  <2>2. d \in 1 .. m /\ o \in 1 .. m /\ ~Good(o)
    <3>1. d \in 1 .. m /\ ~Good(m + 1 - d)
      OBVIOUS
    <3> HIDE DEF Good, m
    <3> QED
      BY <1>1, <3>1
  <2> HIDE DEF o
  <2>3. all.ok /\ ~(all = Ok(all.value) /\ IsItems(all.value))
    BY <2>2
  <2>4. all = IF o > n THEN Ok(<<>>) ELSE FollowedBy(item, rest)
    BY <2>2, ParseItemsIs
  <2>5. ~(o > n)
    <3> SUFFICES ASSUME o > n PROVE FALSE
      OBVIOUS
    <3>1. all = Ok(<<>>)
      BY <2>4
    <3> HIDE DEF all
    <3> QED
      BY <2>3, <3>1, NothingIsItems, Results
  <2>6. o \in 1 .. n /\ o \in Nat
    <3> HIDE DEF m, n
    <3> QED
      BY <1>1, <2>2, <2>5
  <2>7. all = FollowedBy(item, rest)
    BY <2>4, <2>5
  <2> HIDE DEF all, rest
  <2>8. item.ok /\ rest.ok /\ all = Ok(<<item.value.item>> \o rest.value)
    BY <2>3, <2>7 DEF FollowedBy
  <2>9. p \in o + 1 .. n + 2 /\ IsItem(item.value.item)
    BY <2>6, <2>8, ParsedItem
  <2> HIDE DEF item
  <2> DEFINE c == m + 1 - p
  <2>10. c \in 1 .. m /\ m + 1 - c = p /\ ~(d <= c)
    <3> HIDE DEF p, bad
    <3>1. m = n + 3 /\ o = m + 1 - d
      BY DEF o
    <3> HIDE DEF m, n
    <3> QED
      BY <1>1, <2>2, <2>6, <2>9, <3>1
  <2>11. Good(m + 1 - c)
    <3>1. c \notin bad
      <4> HIDE DEF bad, c, Good
      <4> QED
        BY <2>1, <2>10
    <3> HIDE DEF c, Good
    <3> QED
      BY <2>10, <3>1
  <2>12. Good(p)
    <3> HIDE DEF c, Good, p
    <3> QED
      BY <2>10, <2>11
  <2>13. IsItems(rest.value)
    BY <2>8, <2>12 DEF rest
  <2>14. IsItems(<<item.value.item>> \o rest.value)
    BY <2>9, <2>13, FirstItemAndRest
  <2> QED
    BY <2>3, <2>8, <2>14, Results
<1> DEFINE c == m + 1 - k
<1>3. c \in 1 .. m /\ m + 1 - c = k
  <2>1. k \in 1 .. m
    OBVIOUS
  <2> HIDE DEF m
  <2> QED
    BY <1>1, <2>1
<1>4. Good(m + 1 - c)
  <2> HIDE DEF c, Good
  <2> QED
    BY <1>2, <1>3
<1>5. Good(k)
  <2> HIDE DEF c, Good
  <2> QED
    BY <1>3, <1>4
<1> QED
  BY <1>5

-----------------------------------------------------------------------------
(* What is written is read as it was.                                      *)

Written(item) == <<item.headers, Newline>> \o item.payload \o <<Newline>>

LEMMA WrittenIs ==
  ASSUME NEW item, IsItem(item)
  PROVE  /\ IsSeq(Written(item)) /\ Len(Written(item)) = Len(item.payload) + 3 /\ Len(item.payload) \in Nat
         /\ Written(item)[1] = item.headers /\ Written(item)[2] = Newline
         /\ \A k \in 1 .. Len(item.payload) : Written(item)[2 + k] = item.payload[k]
         /\ Written(item)[Len(item.payload) + 3] = Newline
         /\ IsText(Written(item))
<1> DEFINE a == <<item.headers, Newline>>
           b == item.payload
           c == <<Newline>>
           l == Len(b)
           ab == a \o b
           w == ab \o c
<1>1. IsSeq(a) /\ Len(a) = 2 /\ a[1] = item.headers /\ a[2] = Newline
  BY DEF IsSeq
<1>2. IsSeq(c) /\ Len(c) = 1 /\ c[1] = Newline
  BY ShortSequences
<1>3. IsText(b) /\ IsSeq(b) /\ l \in Nat
  BY DEF IsItem, IsText, IsSeq
<1>4. IsObject(item.headers)
  BY DEF IsItem
<1>5. Written(item) = w
  BY DEF Written
<1> HIDE DEF a, b, c
<1>6. /\ IsSeq(ab) /\ Len(ab) = Len(a) + Len(b)
      /\ \A k \in 1 .. Len(a) : ab[k] = a[k]
      /\ \A k \in Len(a) + 1 .. Len(a) + Len(b) : k - Len(a) \in 1 .. Len(b) /\ ab[k] = b[k - Len(a)]
  BY <1>1, <1>3, Joined
<1> HIDE DEF ab
<1>7. /\ IsSeq(w) /\ Len(w) = Len(ab) + Len(c)
      /\ \A k \in 1 .. Len(ab) : w[k] = ab[k]
      /\ \A k \in Len(ab) + 1 .. Len(ab) + Len(c) : k - Len(ab) \in 1 .. Len(c) /\ w[k] = c[k - Len(ab)]
  BY <1>2, <1>6, Joined
<1> HIDE DEF w
<1> HIDE DEF l
<1>8. Len(ab) = l + 2 /\ Len(w) = l + 3
  BY <1>1, <1>2, <1>3, <1>6, <1>7 DEF l
<1>9. w[1] = item.headers /\ w[2] = Newline
  <2>1. 1 \in 1 .. Len(ab) /\ 2 \in 1 .. Len(ab) /\ 1 \in 1 .. Len(a) /\ 2 \in 1 .. Len(a)
    BY <1>1, <1>3, <1>8
  <2> QED
    BY <1>1, <1>6, <1>7, <2>1
<1>10. ASSUME NEW k \in 1 .. l PROVE w[2 + k] = b[k]
  <2>1. 2 + k \in 1 .. Len(ab) /\ 2 + k \in Len(a) + 1 .. Len(a) + Len(b) /\ (2 + k) - Len(a) = k
    BY <1>1, <1>3, <1>8 DEF l
  <2> QED
    BY <1>6, <1>7, <2>1
<1>11. w[l + 3] = Newline
  <2>1. l + 3 \in Len(ab) + 1 .. Len(ab) + Len(c) /\ (l + 3) - Len(ab) = 1
    BY <1>2, <1>3, <1>8
  <2> QED
    BY <1>2, <1>7, <2>1
<1>12. IsText(w)
  <2> SUFFICES ASSUME NEW k \in 1 .. Len(w) PROVE w[k] = Newline \/ w[k] = Byte \/ IsObject(w[k])
    BY <1>7 DEF IsText
  <2>1. k = 1 \/ k = 2 \/ k = l + 3 \/ (k - 2 \in 1 .. l /\ 2 + (k - 2) = k)
    BY <1>3, <1>8
  <2>2. CASE k - 2 \in 1 .. l /\ 2 + (k - 2) = k
    <3>1. w[k] = b[k - 2]
      BY <1>10, <2>2
    <3>2. \A j \in 1 .. l : b[j] = Newline \/ b[j] = Byte \/ IsObject(b[j])
      BY <1>3 DEF IsText, l
    <3> QED
      BY <2>2, <3>1, <3>2
  <2> QED
    BY <1>4, <1>9, <1>11, <2>1, <2>2
<1> QED
  BY <1>3, <1>5, <1>7, <1>8, <1>9, <1>10, <1>11, <1>12 DEF l, b

(* A sequence is part of a text, after a position.                         *)
Stands(t, q, w) == q + Len(w) <= Len(t) /\ \A k \in 1 .. Len(w) : t[q + k] = w[k]

LEMMA ItemRead ==
  ASSUME NEW t, IsText(t), NEW item, IsItem(item), NEW q \in Nat, NEW w, w = Written(item), Stands(t, q, w)
  PROVE  parse_item(t, q + 1) = Ok([item |-> item, offset |-> q + Len(w) + 1])
<1> DEFINE l == Len(item.payload)
           n == Len(t)
           i == q + 1
           start == q + 3
           end == q + 3 + l
           header == item.headers
           payload == SubSeq(t, start, end - 1)
<1>1. n \in Nat /\ l \in Nat /\ Len(w) = l + 3 /\ q + l + 3 <= n
  <2>1. n \in Nat /\ l \in Nat /\ Len(w) = l + 3 /\ q + Len(w) <= n
    BY WrittenIs DEF IsText, IsSeq, Stands
  <2> HIDE DEF n, l
  <2> QED
    BY <2>1
<1>2. /\ w[1] = header /\ w[2] = Newline /\ w[l + 3] = Newline
      /\ \A k \in 1 .. l : w[2 + k] = item.payload[k]
  BY WrittenIs
<1>3. IsObject(header) /\ header.is = "object" /\ header.ty # {} /\ header # Newline
  BY SymbolsDiffer DEF IsItem, IsObject
<1> HIDE DEF l, n
<1>4. /\ 1 \in 1 .. Len(w) /\ 2 \in 1 .. Len(w) /\ l + 3 \in 1 .. Len(w)
      /\ \A k \in 1 .. l : 2 + k \in 1 .. Len(w)
  BY <1>1
<1>5. t[q + 1] = header /\ t[q + 2] = Newline /\ t[q + (l + 3)] = Newline
  BY <1>2, <1>4 DEF Stands
<1>6. \A k \in 1 .. l : t[q + (2 + k)] = item.payload[k]
  BY <1>2, <1>4 DEF Stands
<1>7. /\ i \in Nat /\ i > 0 /\ i <= n /\ i # 0 /\ i + 2 = start /\ i + 1 = q + 2 /\ i + 2 <= n + 1
      /\ start \in Nat /\ start > 0 /\ end \in Nat /\ end = q + (l + 3) /\ start <= end /\ end <= n + 1
      /\ end # 0 /\ end - start = l /\ end + 1 = q + (l + 3) + 1
  BY <1>1
<1>8. NextValue(t, i) = i
  <2>1. i <= Len(t) /\ t[i] # Newline
    BY <1>3, <1>5, <1>7 DEF n
  <2> QED
    BY <1>7, <2>1, NextValueIs
<1>9. require_termination(t, i + 1) /\ require_termination(t, end)
  BY <1>5, <1>7 DEF require_termination
<1>10. \A k \in 1 .. l : start + k - 1 = q + (2 + k)
  BY <1>1
<1>11. PayloadEnd(t, start, header.length) = end
  <2>1. CASE header.length = {}
    <3> DEFINE f == NextNewline(t, start)
    <3>1. IF f = 0 THEN \A k \in start .. n : t[k] # Newline
          ELSE f \in start .. n /\ t[f] = Newline /\ \A k \in start .. f - 1 : t[k] # Newline
      BY <1>7, NextNewlineIs DEF n
    <3>2. ASSUME NEW k \in start .. end - 1 PROVE t[k] # Newline
      <4> DEFINE j == k - start + 1
      <4>1. j \in 1 .. l /\ q + (2 + j) = k
        BY <1>1
      <4>2. item.payload[j] # Newline
        BY <2>1, <4>1 DEF IsItem, l
      <4> HIDE DEF j
      <4> QED
        BY <1>6, <4>1, <4>2
    <3> HIDE DEF f
    <3>3. end \in start .. n /\ t[end] = Newline
      BY <1>1, <1>5, <1>7
    <3>4. f # 0 /\ f \in start .. n /\ t[f] = Newline /\ \A k \in start .. f - 1 : t[k] # Newline
      BY <3>1, <3>3
    <3> HIDE DEF start, end
    <3>5. f = end
      <4>1. ~(f \in start .. end - 1)
        BY <3>2, <3>4
      <4>2. ~(end \in start .. f - 1)
        BY <3>3, <3>4
      <4> QED
        BY <1>7, <3>3, <3>4, <4>1, <4>2
    <3> QED
      BY <2>1, <3>4, <3>5 DEF PayloadEnd, f
  <2>2. CASE header.length # {}
    <3>1. header.length = {l}
      BY <2>2 DEF IsItem, l
    <3>2. (CHOOSE m \in {l} : TRUE) = l
      OBVIOUS
    <3>3. start + l = end
      OBVIOUS
    <3> HIDE DEF start, end, header
    <3> QED
      BY <1>7, <1>9, <2>2, <3>1, <3>2, <3>3 DEF PayloadEnd, n
  <2> QED
    BY <2>1, <2>2
<1>12. payload = item.payload
  <2>1. /\ IsText(payload) /\ Len(payload) = end - start
        /\ \A k \in 1 .. end - start : payload[k] = t[start + k - 1]
    <3> HIDE DEF start, end
    <3>1. start \in Nat /\ start > 0 /\ end \in Nat /\ start <= end /\ end <= Len(t) + 1
      BY <1>7 DEF n
    <3> QED
      BY <3>1, PartOfText
  <2>2. \A k \in 1 .. l : payload[k] = item.payload[k]
    <3>1. \A k \in 1 .. l : payload[k] = t[start + k - 1]
      BY <1>7, <2>1
    <3> HIDE DEF payload, start
    <3> QED
      BY <1>6, <1>10, <3>1
  <2> HIDE DEF payload
  <2>3. payload = [k \in 1 .. l |-> payload[k]]
    BY <1>7, <2>1 DEF IsText, IsSeq
  <2>4. item.payload = [k \in 1 .. l |-> item.payload[k]]
    BY DEF IsItem, IsText, IsSeq, l
  <2> QED
    BY <2>2, <2>3, <2>4
<1>13. parse_item(t, i) = ItemAt(t, i, start)
  BY <1>7, <1>8 DEF parse_item, n
<1>14. ItemAt(t, i, start) = Payload(t, header, start, end)
  <2> HIDE DEF start, end
  <2> QED
    BY <1>3, <1>5, <1>7, <1>9, <1>11 DEF ItemAt
<1>15. Payload(t, header, start, end) = Ok([item |-> [headers |-> header, payload |-> payload], offset |-> end + 1])
  <2> HIDE DEF start, end
  <2> QED
    BY <1>7 DEF Payload
<1>16. item = [headers |-> header, payload |-> item.payload]
  BY DEF IsItem
<1>17. end + 1 = q + Len(w) + 1
  BY <1>1, <1>7
<1> HIDE DEF start, end, payload
<1> QED
  BY <1>12, <1>13, <1>14, <1>15, <1>16, <1>17

(* What is left of the items from one of them on.                          *)
From(v, i) == [k \in 1 .. Len(v) + 1 - i |-> v[i + k - 1]]

LEMMA FromOne ==
  ASSUME NEW v, IsItems(v), NEW i \in 1 .. Len(v)
  PROVE  <<v[i]>> \o From(v, i + 1) = From(v, i)
<1> DEFINE n == Len(v)
           u == <<v[i]>>
           w == From(v, i + 1)
           x == From(v, i)
<1>1. n \in Nat /\ i \in Nat /\ i > 0 /\ i <= n
  BY DEF IsItems, IsSeq
<1>2. IsSeq(u) /\ Len(u) = 1 /\ u[1] = v[i]
  BY ShortSequences
<1>3. /\ w = [k \in 1 .. n - i |-> v[(i + 1) + k - 1]]
      /\ x = [k \in 1 .. n + 1 - i |-> v[i + k - 1]]
      /\ n - i \in Nat /\ n + 1 - i \in Nat
  <2> HIDE DEF n
  <2>1. n + 1 - (i + 1) = n - i /\ n - i \in Nat /\ n + 1 - i \in Nat
    BY <1>1
  <2> QED
    BY <2>1 DEF From, n
<1> HIDE DEF u, w, x, n
<1>4. w = [k \in 1 .. n - i |-> w[k]]
  BY <1>3
<1>5. Len(w) = n - i /\ IsSeq(w)
  BY <1>3, <1>4, SequenceOfLength
<1> DEFINE y == u \o w
<1>6. /\ IsSeq(y) /\ Len(y) = Len(u) + Len(w)
      /\ \A k \in 1 .. Len(u) : y[k] = u[k]
      /\ \A k \in Len(u) + 1 .. Len(u) + Len(w) : k - Len(u) \in 1 .. Len(w) /\ y[k] = w[k - Len(u)]
  BY <1>2, <1>5, Joined
<1> HIDE DEF y
<1>7. Len(y) = n + 1 - i
  BY <1>1, <1>2, <1>5, <1>6
<1>8. ASSUME NEW k \in 1 .. n + 1 - i PROVE y[k] = v[i + k - 1]
  <2>1. CASE k = 1
    <3>1. i + k - 1 = i /\ k \in 1 .. Len(u)
      BY <1>1, <1>2, <2>1
    <3> QED
      BY <1>2, <1>6, <2>1, <3>1
  <2>2. CASE k # 1
    <3>1. /\ k \in Len(u) + 1 .. Len(u) + Len(w) /\ k - Len(u) = k - 1
          /\ k - 1 \in 1 .. n - i /\ (i + 1) + (k - 1) - 1 = i + k - 1
      BY <1>1, <1>2, <1>5, <2>2
    <3>2. y[k] = w[k - 1]
      BY <1>6, <3>1
    <3>3. w[k - 1] = v[(i + 1) + (k - 1) - 1]
      BY <1>3, <3>1
    <3> QED
      BY <3>1, <3>2, <3>3
  <2> QED
    BY <2>1, <2>2
<1>9. y = [k \in 1 .. n + 1 - i |-> y[k]]
  BY <1>6, <1>7 DEF IsSeq
<1>10. y = x
  BY <1>3, <1>8, <1>9
<1> QED
  BY <1>10 DEF y, u, w, x

(* Items are the rest of a text, after a position.                         *)
Placed(t, q, v, at, ws) ==
  /\ at \in [1 .. Len(v) + 1 -> Nat] /\ at[1] = 0 /\ q + at[Len(v) + 1] = Len(t)
  /\ \A i \in 1 .. Len(v) :
       /\ ws[i] = Written(v[i])
       /\ at[i + 1] = at[i] + Len(ws[i]) /\ Stands(t, q + at[i], ws[i])

LEMMA ItemsRead ==
  ASSUME NEW t, IsText(t), NEW v, IsItems(v), NEW q \in Nat, NEW at, NEW ws, Placed(t, q, v, at, ws)
  PROVE  parse_items(t, q + 1) = Ok(v)
<1> DEFINE n == Len(v)
           m == n + 1
           pos(i) == q + at[i] + 1
           Good(i) == parse_items(t, pos(i)) = Ok(From(v, i))
           bad == {d \in 1 .. m : ~Good(m + 1 - d)}
<1>1. n \in Nat /\ m \in Nat /\ Len(t) \in Nat
  BY DEF IsItems, IsText, IsSeq
<1>0. at \in [1 .. Len(v) + 1 -> Nat] /\ at[1] = 0 /\ q + at[Len(v) + 1] = Len(t)
  BY DEF Placed
<1>2. Good(m)
  <2>1. pos(m) = Len(t) + 1 /\ Len(t) + 1 \in 1 .. Len(t) + 3 /\ Len(t) + 1 > Len(t)
    BY <1>0, <1>1
  <2>2. parse_items(t, Len(t) + 1) = Ok(<<>>)
    BY <2>1, ParseItemsIs
  <2>3. From(v, m) = <<>>
    <3>1. Len(v) + 1 - m = 0
      BY <1>1
    <3> QED
      BY <3>1 DEF From
  <2> HIDE DEF pos
  <2> QED
    BY <2>1, <2>2, <2>3
<1>3. ASSUME NEW i \in 1 .. n, Good(i + 1) PROVE Good(i)
  <2> DEFINE p == q + at[i]
             w == ws[i]
             item == parse_item(t, pos(i))
             rest == parse_items(t, pos(i + 1))
  <2>1. at[i] \in Nat /\ w = Written(v[i]) /\ at[i + 1] = at[i] + Len(w) /\ Stands(t, p, w)
    <3>1. i \in 1 .. Len(v) + 1
      BY <1>1
    <3> QED
      BY <1>0, <3>1 DEF Placed
  <2>2. IsItem(v[i])
    BY DEF IsItems
  <2>3. p \in Nat /\ Len(w) \in Nat /\ Len(w) >= 3
    <3>1. Len(w) = Len(v[i].payload) + 3 /\ Len(v[i].payload) \in Nat
      BY <2>1, <2>2, WrittenIs
    <3> QED
      BY <2>1, <3>1
  <2> HIDE DEF w
  <2>4. item = Ok([item |-> v[i], offset |-> p + Len(w) + 1])
    <3>1. pos(i) = p + 1
      OBVIOUS
    <3> HIDE DEF p, pos
    <3> QED
      BY <2>1, <2>2, <2>3, <3>1, ItemRead
  <2>5. pos(i + 1) = p + Len(w) + 1
    BY <2>1, <2>3
  <2>6. pos(i) \in 1 .. Len(t) + 3 /\ ~(pos(i) > Len(t))
    <3> DEFINE l == Len(w)
               n1 == Len(t)
    <3>1. l \in Nat /\ l >= 3 /\ n1 \in Nat /\ p + l <= n1 /\ p \in Nat /\ pos(i) = p + 1
      BY <1>1, <2>1, <2>3 DEF Stands
    <3> HIDE DEF l, n1, p, pos
    <3>2. p + 1 \in 1 .. n1 + 3 /\ ~(p + 1 > n1)
      BY <3>1
    <3> QED
      BY <3>1, <3>2 DEF n1
  <2> HIDE DEF p, pos
  <2>7. item.ok = TRUE /\ item.value.item = v[i] /\ item.value.offset = pos(i + 1)
    BY <2>4, <2>5, Results
  <2>8. parse_items(t, pos(i)) = FollowedBy(item, rest)
    BY <2>6, <2>7, ParseItemsIs
  <2>9. rest = Ok(From(v, i + 1))
    BY <1>3
  <2>10. rest.ok = TRUE /\ rest.value = From(v, i + 1)
    BY <2>9, Results
  <2> HIDE DEF item, rest
  <2>11. FollowedBy(item, rest) = Ok(<<v[i]>> \o From(v, i + 1))
    BY <2>7, <2>10 DEF FollowedBy
  <2>12. <<v[i]>> \o From(v, i + 1) = From(v, i)
    BY FromOne
  <2> QED
    BY <2>8, <2>11, <2>12
<1> HIDE DEF Good
<1>4. bad = {}
  <2> SUFFICES ASSUME bad # {} PROVE FALSE
    OBVIOUS
  <2>1. PICK d \in bad : \A l \in bad : d <= l
    <3>1. bad \in SUBSET (1 .. m)
      OBVIOUS
    <3> HIDE DEF bad, m
    <3> QED
      BY <1>1, <3>1, Least
  <2>2. d \in 1 .. m /\ ~Good(m + 1 - d)
    OBVIOUS
  <2> DEFINE i == m + 1 - d
  <2>3. d # 1
    <3> SUFFICES ASSUME d = 1 PROVE FALSE
      OBVIOUS
    <3>1. m + 1 - d = m
      BY <1>1
    <3> HIDE DEF m
    <3> QED
      BY <1>2, <2>2, <3>1
  <2>4. d - 1 \in 1 .. m /\ ~(d <= d - 1) /\ m + 1 - (d - 1) = i + 1 /\ i \in 1 .. n
    <3>1. m = n + 1
      OBVIOUS
    <3> HIDE DEF m, n
    <3> QED
      BY <1>1, <2>2, <2>3, <3>1
  <2>5. Good(i + 1)
    <3>1. d - 1 \notin bad
      <4> HIDE DEF bad, i
      <4> QED
        BY <2>1, <2>4
    <3>2. Good(m + 1 - (d - 1))
      BY <2>4, <3>1
    <3> HIDE DEF i, m
    <3> QED
      BY <2>4, <3>2
  <2>6. Good(i)
    <3> HIDE DEF i
    <3> QED
      BY <1>3, <2>4, <2>5
  <2> QED
    BY <2>2, <2>6
<1>5. Good(1)
  <2>1. m \in 1 .. m /\ m + 1 - m = 1
    <3> HIDE DEF m
    <3>1. m > 0
      BY <1>1 DEF m
    <3> QED
      BY <1>1, <3>1
  <2>2. Good(m + 1 - m)
    <3> HIDE DEF m
    <3> QED
      BY <1>4, <2>1
  <2> HIDE DEF m
  <2> QED
    BY <2>1, <2>2
<1>6. pos(1) = q + 1
  BY <1>0
<1>7. From(v, 1) = v
  <2>1. Len(v) + 1 - 1 = Len(v) /\ \A k \in 1 .. Len(v) : 1 + k - 1 = k
    BY <1>1
  <2>2. From(v, 1) = [k \in 1 .. Len(v) |-> v[k]]
    BY <2>1 DEF From
  <2> QED
    BY <2>2 DEF IsItems, IsSeq
<1> HIDE DEF pos
<1> QED
  BY <1>5, <1>6, <1>7 DEF Good

IsJoined(t, s, u) ==
  /\ IsSeq(t) /\ Len(t) = Len(s) + Len(u)
  /\ \A k \in 1 .. Len(s) : t[k] = s[k]
  /\ \A k \in Len(s) + 1 .. Len(s) + Len(u) : k - Len(s) \in 1 .. Len(u) /\ t[k] = u[k - Len(s)]

LEMMA JoinedTo ==
  ASSUME NEW s, NEW u, IsSeq(s), IsSeq(u), NEW t, t = s \o u
  PROVE  IsJoined(t, s, u)
BY Joined DEF IsJoined

TextOf(h, ws) == <<h, Newline>> \o FlattenSeq(ws)

LEMMA ItemsWritten ==
  ASSUME NEW v, IsItems(v), NEW h, IsObject(h), NEW ws, ws = [i \in 1 .. Len(v) |-> Written(v[i])],
         NEW t, t = TextOf(h, ws)
  PROVE  /\ IsText(t) /\ Len(t) >= 2 /\ t[1] = h /\ t[2] = Newline
         /\ parse_items(t, 3) = Ok(v)
<1> DEFINE n == Len(v)
           a == <<h, Newline>>
           f == FlattenSeq(ws)
<1>1. n \in Nat /\ \A i \in 1 .. n : IsItem(v[i])
  BY DEF IsItems, IsSeq
<1>2. ws = [i \in 1 .. n |-> ws[i]] /\ \A i \in 1 .. n : ws[i] = Written(v[i])
  OBVIOUS
<1>3. \A i \in 1 .. n : IsSeq(ws[i]) /\ IsText(ws[i])
  BY <1>1, <1>2, WrittenIs
<1>4. IsSeq(f) /\ \E at : Flat(ws, n, f, at)
  BY <1>1, <1>2, <1>3, FlattenedAll
<1>5. PICK at : Flat(ws, n, f, at)
  BY <1>4
<1>6. IsSeq(a) /\ Len(a) = 2 /\ a[1] = h /\ a[2] = Newline
  BY DEF IsSeq
<1> HIDE DEF a, f
<1>7. t = a \o f
  BY DEF TextOf, a, f
<1>8. /\ IsSeq(t) /\ Len(t) = Len(a) + Len(f)
      /\ \A k \in 1 .. Len(a) : t[k] = a[k]
      /\ \A k \in Len(a) + 1 .. Len(a) + Len(f) : k - Len(a) \in 1 .. Len(f) /\ t[k] = f[k - Len(a)]
  <2>1. IsSeq(a) /\ IsSeq(f)
    BY <1>4, <1>6
  <2>2. IsJoined(t, a, f)
    BY <1>7, <2>1, JoinedTo, Zenon
  <2> QED
    BY <2>2 DEF IsJoined
<1>9. Len(f) \in Nat /\ Len(t) = 2 + Len(f)
  BY <1>4, <1>6, <1>8 DEF IsSeq
<1>10. t[1] = h /\ t[2] = Newline
  <2>1. 1 \in 1 .. Len(a) /\ 2 \in 1 .. Len(a)
    BY <1>6
  <2> QED
    BY <1>6, <1>8, <2>1
<1>11. \A k \in 1 .. Len(f) : t[2 + k] = f[k]
  <2> SUFFICES ASSUME NEW k \in 1 .. Len(f) PROVE t[2 + k] = f[k]
    OBVIOUS
  <2>1. 2 + k \in Len(a) + 1 .. Len(a) + Len(f) /\ (2 + k) - Len(a) = k
    BY <1>6, <1>9
  <2> QED
    BY <1>8, <2>1
<1>12. IsText(t)
  <2> SUFFICES ASSUME NEW k \in 1 .. Len(t) PROVE t[k] = Newline \/ t[k] = Byte \/ IsObject(t[k])
    BY <1>8 DEF IsText
  <2>1. k = 1 \/ k = 2 \/ (k - 2 \in 1 .. Len(f) /\ 2 + (k - 2) = k)
    BY <1>9
  <2>2. CASE k - 2 \in 1 .. Len(f) /\ 2 + (k - 2) = k
    <3> DEFINE j == k - 2
    <3>1. j \in 1 .. Len(f) /\ t[k] = f[j]
      BY <1>11, <2>2
    <3> HIDE DEF j
    <3>2. PICK i \in 1 .. n : j - at[i] \in 1 .. Len(ws[i])
      BY <1>5, <3>1 DEF Flat
    <3>3. at[i] \in Nat /\ \A l \in 1 .. Len(ws[i]) : f[at[i] + l] = ws[i][l]
      <4>1. i \in 1 .. n + 1
        BY <1>1
      <4> QED
        BY <1>5, <4>1 DEF Flat
    <3>4. at[i] + (j - at[i]) = j
      BY <1>9, <3>1, <3>3
    <3>5. t[k] = ws[i][j - at[i]]
      BY <3>1, <3>2, <3>3, <3>4
    <3> QED
      BY <1>3, <3>2, <3>5 DEF IsText
  <2> QED
    BY <1>10, <2>1, <2>2
<1>13. \A i \in 1 .. n : /\ ws[i] = Written(v[i])
                         /\ at[i + 1] = at[i] + Len(ws[i]) /\ Stands(t, 2 + at[i], ws[i])
  <2> SUFFICES ASSUME NEW i \in 1 .. n
               PROVE  at[i + 1] = at[i] + Len(ws[i]) /\ Stands(t, 2 + at[i], ws[i])
    BY <1>2
  <2>1. /\ at[i] \in Nat /\ at[i + 1] = at[i] + Len(ws[i]) /\ at[i] + Len(ws[i]) <= Len(f)
        /\ \A k \in 1 .. Len(ws[i]) : f[at[i] + k] = ws[i][k]
    <3>1. i \in 1 .. n + 1
      BY <1>1
    <3> QED
      BY <1>5, <3>1 DEF Flat
  <2> DEFINE b == at[i]
             l == Len(ws[i])
             c == Len(f)
  <2>2. l \in Nat /\ b \in Nat /\ c \in Nat /\ b + l <= c /\ Len(t) = 2 + c
    BY <1>3, <1>9, <2>1 DEF IsSeq
  <2> HIDE DEF b, l, c
  <2>3. 2 + b + l <= 2 + c /\ \A k \in 1 .. l : b + k \in 1 .. c /\ 2 + b + k = 2 + (b + k)
    BY <2>2
  <2>4. \A k \in 1 .. l : t[2 + b + k] = ws[i][k]
    <3>1. \A k \in 1 .. l : t[2 + (b + k)] = f[b + k] /\ f[b + k] = ws[i][k]
      BY <1>11, <2>1, <2>3 DEF b, c, l
    <3> QED
      BY <2>3, <3>1
  <2>5. Stands(t, 2 + at[i], ws[i])
    BY <2>2, <2>3, <2>4 DEF Stands, b, l
  <2> QED
    BY <2>1, <2>5
<1>14. at \in [1 .. n + 1 -> Nat] /\ at[1] = 0 /\ 2 + at[n + 1] = Len(t)
  BY <1>5, <1>9 DEF Flat
<1>15. parse_items(t, 2 + 1) = Ok(v)
  <2>1. Placed(t, 2, v, at, ws)
    BY <1>13, <1>14 DEF Placed
  <2>2. 2 \in Nat
    OBVIOUS
  <2> QED
    BY <1>12, <2>1, <2>2, ItemsRead
<1>16. Len(t) >= 2
  BY <1>9
<1> QED
  BY <1>10, <1>12, <1>15, <1>16

-----------------------------------------------------------------------------
(* The headers of an envelope.                                             *)

Addressed(h, x, y) == [h EXCEPT !.dsn = x, !.origin = y]
Identifying(h, z) == [h EXCEPT !.event_id = z]

LEMMA Changed ==
  ASSUME NEW h, IsObject(h), NEW x, NEW y, NEW z
  PROVE  /\ IsObject(Addressed(h, x, y)) /\ Addressed(h, x, y).dsn = x /\ Addressed(h, x, y).origin = y
         /\ x = h.dsn /\ y = h.origin => Addressed(h, x, y) = h
         /\ IsObject(Identifying(h, z)) /\ Identifying(h, z).dsn = h.dsn /\ Identifying(h, z).origin = h.origin
         /\ Identifying(h, z).event_id = z
         /\ z = h.event_id => Identifying(h, z) = h
<1> DEFINE g == Addressed(h, x, y)
           e == Identifying(h, z)
<1>1. DOMAIN h = Fields /\ h = [f \in Fields |-> h[f]]
  BY DEF IsObject
<1>2. /\ g = [f \in Fields |-> g[f]]
      /\ \A f \in Fields : g[f] = IF f = "origin" THEN y ELSE IF f = "dsn" THEN x ELSE h[f]
  BY <1>1 DEF Fields, Addressed
<1>3. /\ e = [f \in Fields |-> e[f]]
      /\ \A f \in Fields : e[f] = IF f = "event_id" THEN z ELSE h[f]
  BY <1>1 DEF Fields, Identifying
<1> HIDE DEF g, e
<1>4. g.is = h.is /\ g.length = h.length /\ g.dsn = x /\ g.origin = y /\ g.event_id = h.event_id
  BY <1>2 DEF Fields
<1>5. e.is = h.is /\ e.length = h.length /\ e.dsn = h.dsn /\ e.origin = h.origin /\ e.event_id = z
  BY <1>3 DEF Fields
<1>6. IsObject(g) /\ IsObject(e)
  BY <1>2, <1>3, <1>4, <1>5 DEF IsObject
<1>7. ASSUME x = h.dsn, y = h.origin PROVE g = h
  <2>1. \A f \in Fields : g[f] = h[f]
    BY <1>2, <1>7
  <2> QED
    BY <1>1, <1>2, <2>1
<1>8. ASSUME z = h.event_id PROVE e = h
  <2>1. \A f \in Fields : e[f] = h[f]
    BY <1>3, <1>8
  <2> QED
    BY <1>1, <1>3, <2>1
<1> QED
  BY <1>4, <1>5, <1>6, <1>7, <1>8 DEF g, e

LEMMA HeadersParsed ==
  ASSUME NEW s, IsText(s), parse_headers(s).ok
  PROVE  \E i \in 1 .. Len(s) :
           IsObject(s[i]) /\ parse_headers(s) = Ok([headers |-> s[i], offset |-> i + 2])
<1> DEFINE i == NextValue(s, 1)
           r == parse_headers(s)
<1>1. r = HeadersAt(s, i) /\ r.ok
  BY DEF parse_headers
<1>2. i = 0 \/ i \in 1 .. Len(s)
  BY NextValueIs
<1> HIDE DEF i, r
<1>3. i # 0 /\ s[i].is = "object" /\ r = Ok([headers |-> s[i], offset |-> i + 2])
  BY <1>1, Results DEF HeadersAt
<1>4. i \in 1 .. Len(s) /\ IsObject(s[i])
  BY <1>2, <1>3, SymbolsDiffer DEF IsText
<1> QED
  BY <1>3, <1>4 DEF r

LEMMA HeadersRead ==
  ASSUME NEW t, IsText(t), Len(t) >= 2, IsObject(t[1]), t[2] = Newline
  PROVE  parse_headers(t) = Ok([headers |-> t[1], offset |-> 3])
<1>1. Len(t) \in Nat /\ 1 <= Len(t) /\ t[1] # Newline /\ t[1].is = "object"
  <2>1. t[1].is = "object" /\ t[1] # Newline
    BY SymbolsDiffer DEF IsObject
  <2> QED
    BY <2>1 DEF IsText, IsSeq
<1>2. NextValue(t, 1) = 1
  BY <1>1, NextValueIs
<1>3. require_termination(t, 1 + 1) /\ 1 + 2 = 3 /\ 1 # 0
  BY DEF require_termination
<1> QED
  BY <1>1, <1>2, <1>3 DEF parse_headers, HeadersAt

LEMMA Completed ==
  ASSUME NEW h, IsObject(h), NEW request, complete(h, request).ok
  PROVE  LET c == complete(h, request).value
         IN  /\ complete(h, request) = Ok(c)
             /\ IsObject(c) /\ c.dsn = request.dsn /\ c.origin = request.origin
<1> DEFINE r == complete(h, request)
           origin == IF h.origin # {} THEN h.origin ELSE request.origin
           c == Addressed(h, request.dsn, origin)
<1>1. r.ok /\ r = IF h.origin # {} /\ h.origin # request.origin THEN Err("HeaderMismatch")
                  ELSE IF h.dsn # {} /\ h.dsn # request.dsn THEN Err("HeaderMismatch")
                  ELSE Ok(c)
  BY Zenon DEF complete, Addressed
<1>2. IsObject(c) /\ c.dsn = request.dsn /\ c.origin = origin
  BY Changed
<1> HIDE DEF r, c
<1>3. r = Ok(c) /\ ~(h.origin # {} /\ h.origin # request.origin)
  BY <1>1, Results
<1>4. origin = request.origin
  BY <1>3
<1>5. r.value = c
  BY <1>3, Results
<1> QED
  BY <1>2, <1>3, <1>4, <1>5 DEF r

LEMMA CompletedAgain ==
  ASSUME NEW w, IsObject(w), NEW request, w.dsn = request.dsn, w.origin = request.origin
  PROVE  complete(w, request) = Ok(w)
<1> DEFINE origin == IF w.origin # {} THEN w.origin ELSE request.origin
           c == Addressed(w, request.dsn, origin)
<1>1. complete(w, request) = IF w.origin # {} /\ w.origin # request.origin THEN Err("HeaderMismatch")
                             ELSE IF w.dsn # {} /\ w.dsn # request.dsn THEN Err("HeaderMismatch")
                             ELSE Ok(c)
  BY Zenon DEF complete, Addressed
<1>2. origin = w.origin
  OBVIOUS
<1>3. c = w
  BY <1>2, Changed
<1> HIDE DEF c
<1> QED
  BY <1>1, <1>3

LEMMA Identified ==
  ASSUME NEW c, IsObject(c), NEW v
  PROVE  LET w == WithId(c, v)
         IN  /\ IsObject(w) /\ w.dsn = c.dsn /\ w.origin = c.origin
             /\ WithId(w, v) = w
             /\ w.event_id = {} => \A i \in DOMAIN v : ~RequiresEvent(v[i])
<1> DEFINE needed == \E i \in DOMAIN v : RequiresEvent(v[i])
           id(h) == IF h.event_id = {} /\ needed THEN {"new"} ELSE h.event_id
           w == WithId(c, v)
<1>1. \A h : WithId(h, v) = Identifying(h, id(h))
  BY Zenon DEF WithId, Identifying
<1>2. IsObject(w) /\ w.dsn = c.dsn /\ w.origin = c.origin /\ w.event_id = id(c)
  BY <1>1, Changed
<1> HIDE DEF w
<1>3. id(w) = w.event_id
  BY <1>2
<1>4. WithId(w, v) = w
  <2>1. WithId(w, v) = Identifying(w, id(w))
    BY <1>1
  <2> HIDE DEF id
  <2>2. Identifying(w, id(w)) = w
    BY <1>2, <1>3, Changed
  <2> QED
    BY <2>1, <2>2
<1>5. w.event_id = {} => ~needed
  BY <1>2
<1> QED
  BY <1>2, <1>4, <1>5 DEF w

Envelope(w, v) == [headers |-> w, items |-> v]

LEMMA Serialized ==
  ASSUME NEW w, NEW v, IsItems(v)
  PROVE  serialize(Envelope(w, v)) = TextOf(w, [i \in 1 .. Len(v) |-> Written(v[i])])
<1>1. DOMAIN v = 1 .. Len(v)
  BY DEF IsItems, IsSeq
<1>2. Envelope(w, v).headers = w /\ Envelope(w, v).items = v
  BY DEF Envelope
<1> QED
  BY <1>1, <1>2, Zenon DEF serialize, TextOf, Written

LEMMA RequestParsed ==
  ASSUME NEW s, NEW h, NEW o, NEW request, parse_headers(s) = Ok([headers |-> h, offset |-> o])
  PROVE  parse_request(s, request) = Accepted(complete(h, request), parse_items(s, o))
<1> DEFINE r == parse_headers(s)
<1>1. r.ok /\ r.value.headers = h /\ r.value.offset = o
  BY DEF Ok
<1> QED
  BY <1>1, Zenon DEF parse_request

LEMMA RequestAccepted ==
  ASSUME NEW c, NEW v
  PROVE  Accepted(Ok(c), Ok(v)) = Ok(Envelope(WithId(c, v), v))
BY Results DEF Accepted, Envelope

(* What parse_request accepts, in terms of its parts.                      *)
LEMMA RequestIs ==
  ASSUME NEW s, IsText(s), NEW request, parse_request(s, request).ok
  PROVE  \E c, v : /\ IsObject(c) /\ c.dsn = request.dsn /\ c.origin = request.origin /\ IsItems(v)
                   /\ parse_request(s, request) = Ok(Envelope(WithId(c, v), v))
<1> DEFINE parsed == parse_request(s, request)
<1>1. parse_headers(s).ok
  <2> SUFFICES ASSUME ~parse_headers(s).ok PROVE FALSE
    OBVIOUS
  <2> QED
    BY Zenon DEF parse_request
<1>2. PICK i \in 1 .. Len(s) :
        IsObject(s[i]) /\ parse_headers(s) = Ok([headers |-> s[i], offset |-> i + 2])
  BY <1>1, HeadersParsed
<1> DEFINE completed == complete(s[i], request)
           read == parse_items(s, i + 2)
           c == completed.value
           v == read.value
<1>3. parsed = Accepted(completed, read) /\ parsed.ok
  BY <1>2, RequestParsed
<1> HIDE DEF parsed
<1>4. completed.ok /\ read.ok
  <2> HIDE DEF completed, read
  <2>1. completed.ok
    BY <1>3 DEF Accepted
  <2> QED
    BY <1>3, <2>1 DEF Accepted
<1>5. completed = Ok(c) /\ IsObject(c) /\ c.dsn = request.dsn /\ c.origin = request.origin
  BY <1>2, <1>4, Completed
<1>6. i + 2 \in 1 .. Len(s) + 3
  <2>1. Len(s) \in Nat
    BY DEF IsText, IsSeq
  <2> QED
    BY <2>1
<1>7. read = Ok(v) /\ IsItems(v)
  BY <1>4, <1>6, ItemsParsed
<1> HIDE DEF completed, read, c, v
<1>8. parsed = Ok(Envelope(WithId(c, v), v))
  BY <1>3, <1>5, <1>7, RequestAccepted
<1> QED
  BY <1>5, <1>7, <1>8 DEF parsed

(* EnvelopesComplete: for every text of newlines, objects and other bytes  *)
(* and every request, an envelope that parse_request accepts is of the     *)
(* project the request is for, and has an id if one of its items needs one *)
(* (EnvelopeHeaders::complete, Envelope::parse_request).                   *)
THEOREM EnvelopesComplete ==
  ASSUME NEW s, IsText(s), NEW request
  PROVE  Completes(s, request)
<1> DEFINE parsed == parse_request(s, request)
           e == parsed.value
<1> SUFFICES ASSUME parsed.ok
             PROVE  /\ e.headers.dsn = request.dsn
                    /\ e.headers.event_id = {} => \A n \in DOMAIN e.items : ~RequiresEvent(e.items[n])
  BY Zenon DEF Completes
<1>1. PICK c, v : IsObject(c) /\ c.dsn = request.dsn /\ parsed = Ok(Envelope(WithId(c, v), v))
  BY RequestIs
<1> HIDE DEF parsed
<1>2. e = Envelope(WithId(c, v), v)
  BY <1>1, Results
<1>3. e.headers = WithId(c, v) /\ e.items = v
  BY <1>2 DEF Envelope
<1> HIDE DEF e
<1> QED
  BY <1>1, <1>3, Identified

(* EnvelopesRoundTrip: for every text of newlines, objects and other bytes *)
(* and every request, an envelope that parse_request accepts is written by *)
(* serialize as a text that parse_request reads as the same envelope: no   *)
(* payload is cut, shifted or run into the next item, and completing the   *)
(* headers a second time changes nothing (Envelope::serialize,             *)
(* Envelope::parse_request). By induction on the items left to read.       *)
THEOREM EnvelopesRoundTrip ==
  ASSUME NEW s, IsText(s), NEW request
  PROVE  RoundTrips(s, request)
<1> DEFINE parsed == parse_request(s, request)
<1> SUFFICES ASSUME parsed.ok
             PROVE  parse_request(serialize(parsed.value), request) = parsed
  BY Zenon DEF RoundTrips
<1>1. PICK c, v : /\ IsObject(c) /\ c.dsn = request.dsn /\ c.origin = request.origin /\ IsItems(v)
                  /\ parsed = Ok(Envelope(WithId(c, v), v))
  BY RequestIs
<1> HIDE DEF parsed
<1> DEFINE w == WithId(c, v)
           ws == [j \in 1 .. Len(v) |-> Written(v[j])]
           t == TextOf(w, ws)
<1>2. parsed = Ok(Envelope(w, v))
  BY <1>1
<1>3. IsObject(w) /\ w.dsn = request.dsn /\ w.origin = request.origin /\ WithId(w, v) = w
  BY <1>1, Identified
<1> HIDE DEF w
<1>4. serialize(parsed.value) = t
  <2>1. parsed.value = Envelope(w, v)
    BY <1>2, Results
  <2> QED
    BY <1>1, <2>1, Serialized
<1>5. IsText(t) /\ Len(t) >= 2 /\ t[1] = w /\ t[2] = Newline /\ parse_items(t, 3) = Ok(v)
  BY <1>1, <1>3, ItemsWritten
<1> HIDE DEF t
<1>6. parse_headers(t) = Ok([headers |-> w, offset |-> 3])
  BY <1>3, <1>5, HeadersRead
<1>7. complete(w, request) = Ok(w)
  BY <1>3, CompletedAgain
<1>8. parse_request(t, request) = Accepted(Ok(w), Ok(v))
  BY <1>5, <1>6, <1>7, RequestParsed
<1>9. Accepted(Ok(w), Ok(v)) = Ok(Envelope(w, v))
  BY <1>3, RequestAccepted
<1> QED
  BY <1>2, <1>4, <1>8, <1>9

-----------------------------------------------------------------------------
(* Normalization of events.                                                *)

EventFields ==
  {"ty", "exceptions", "security", "release", "dist", "platform", "measurements", "timestamp", "start_timestamp",
   "spans", "trace", "environment", "tags", "server_name", "site", "user_ip", "http_ip"}

IsTime(option) == option = {} \/ \E t \in Int : option = {t}

SpanFields == {"start_timestamp", "timestamp", "ids"}

IsSpan(x) ==
  x = [f \in SpanFields |-> x[f]] /\ IsTime(x.timestamp) /\ IsTime(x.start_timestamp)

(* An event has these attributes, and timestamps are optional. Nothing is  *)
(* said of the others here.                                                *)
IsEvent(e) ==
  /\ e = [f \in EventFields |-> e[f]]
  /\ IsTime(e.timestamp) /\ IsTime(e.start_timestamp)
  /\ e.spans = [n \in DOMAIN e.spans |-> e.spans[n]]
  /\ \A n \in DOMAIN e.spans : IsSpan(e.spans[n])

Sorted(starts, ends) == starts # {} /\ ends # {} /\ \A start \in starts, end \in ends : start <= end

(* d is e but for some attributes.                                         *)
Alike(d, e, others) ==
  d = [f \in EventFields |-> d[f]] /\ \A f \in EventFields \ others : d[f] = e[f]

LEMMA MovedTime ==
  ASSUME NEW option, IsTime(option), NEW d \in Int
  PROVE  /\ IsTime(Shift(option, d))
         /\ \A t \in Int : option = {t} => Shift(option, d) = {t + d}
         /\ option = {} <=> Shift(option, d) = {}
<1>1. ASSUME NEW t \in Int, option = {t} PROVE Shift(option, d) = {t + d} /\ t + d \in Int
  BY <1>1 DEF Shift
<1>2. option = {} => Shift(option, d) = {}
  BY DEF Shift
<1> QED
  BY <1>1, <1>2 DEF IsTime

LEMMA MovedTimes ==
  ASSUME NEW starts, IsTime(starts), NEW ends, IsTime(ends), NEW d \in Int
  PROVE  /\ Lengths(Shift(starts, d), Shift(ends, d)) = Lengths(starts, ends)
         /\ Sorted(starts, ends) => Sorted(Shift(starts, d), Shift(ends, d))
<1>1. CASE starts = {} \/ ends = {}
  <2>1. Shift(starts, d) = {} \/ Shift(ends, d) = {}
    BY <1>1, MovedTime
  <2>2. \A A, B : A = {} \/ B = {} => Lengths(A, B) = {}
    BY DEF Lengths
  <2> QED
    BY <1>1, <2>1, <2>2 DEF Sorted
<1>2. CASE starts # {} /\ ends # {}
  <2>1. PICK x \in Int : starts = {x}
    BY <1>2 DEF IsTime
  <2>2. PICK y \in Int : ends = {y}
    BY <1>2 DEF IsTime
  <2>3. Shift(starts, d) = {x + d}
    BY <2>1, MovedTime
  <2>4. Shift(ends, d) = {y + d}
    BY <2>2, MovedTime
  <2>5. (y + d) - (x + d) = y - x /\ (x <= y => x + d <= y + d)
    BY <2>1, <2>2
  <2>6. Lengths({x}, {y}) = {y - x} /\ Lengths({x + d}, {y + d}) = {(y + d) - (x + d)}
    BY DEF Lengths
  <2>7. (Sorted({x}, {y}) <=> x <= y) /\ (Sorted({x + d}, {y + d}) <=> x + d <= y + d)
    BY DEF Sorted
  <2>8. Lengths({x + d}, {y + d}) = Lengths({x}, {y})
    BY <2>5, <2>6
  <2>9. Sorted({x}, {y}) => Sorted({x + d}, {y + d})
    BY <2>5, <2>7
  <2> QED
    BY <2>1, <2>2, <2>3, <2>4, <2>8, <2>9
<1> QED
  BY <1>1, <1>2

LEMMA MovedSpanIs ==
  ASSUME NEW x, IsSpan(x), NEW d \in Int
  PROVE  /\ IsSpan(MovedSpan(x, d))
         /\ MovedSpan(x, d).timestamp = Shift(x.timestamp, d)
         /\ MovedSpan(x, d).start_timestamp = Shift(x.start_timestamp, d)
         /\ InOrder(x) => InOrder(MovedSpan(x, d))
<1> DEFINE y == MovedSpan(x, d)
           end == Shift(x.timestamp, d)
           start == Shift(x.start_timestamp, d)
<1>1. DOMAIN x = SpanFields /\ IsTime(x.timestamp) /\ IsTime(x.start_timestamp)
  BY DEF IsSpan
<1>2. IsTime(end) /\ IsTime(start)
  BY <1>1, MovedTime
<1>3. y = [f \in SpanFields |-> IF f = "timestamp" THEN end ELSE IF f = "start_timestamp" THEN start ELSE x[f]]
  BY <1>1 DEF MovedSpan, SpanFields
<1> HIDE DEF y
<1>4. y = [f \in SpanFields |-> y[f]] /\ y.timestamp = end /\ y.start_timestamp = start
  BY <1>3 DEF SpanFields
<1>5. InOrder(x) => InOrder(y)
  <2>1. InOrder(x) = Sorted(x.start_timestamp, x.timestamp) /\ InOrder(y) = Sorted(start, end)
    BY <1>4 DEF InOrder, Sorted
  <2> QED
    BY <1>1, <2>1, MovedTimes
<1> QED
  BY <1>2, <1>4, <1>5 DEF IsSpan, y

(* What it means that an event was moved.                                  *)
IsMoved(m, e, d) ==
  /\ IsEvent(m) /\ Alike(m, e, {"timestamp", "start_timestamp", "spans"})
  /\ m.timestamp = Shift(e.timestamp, d) /\ m.start_timestamp = Shift(e.start_timestamp, d)
  /\ m.spans = [n \in DOMAIN e.spans |-> MovedSpan(e.spans[n], d)]

LEMMA MovedIs ==
  ASSUME NEW e, IsEvent(e), NEW d \in Int
  PROVE  IsMoved(Moved(e, d), e, d)
<1> DEFINE m == Moved(e, d)
           end == Shift(e.timestamp, d)
           start == Shift(e.start_timestamp, d)
           spans == [n \in DOMAIN e.spans |-> MovedSpan(e.spans[n], d)]
<1>1. DOMAIN e = EventFields /\ IsTime(e.timestamp) /\ IsTime(e.start_timestamp)
  BY DEF IsEvent
<1>2. m = [[[e EXCEPT !.timestamp = end] EXCEPT !.start_timestamp = start] EXCEPT !.spans = spans]
  BY <1>1, Zenon DEF Moved, EventFields
<1>3. IsTime(end) /\ IsTime(start)
  BY <1>1, MovedTime
<1>4. spans = [n \in DOMAIN spans |-> spans[n]] /\ \A n \in DOMAIN spans : IsSpan(spans[n])
  BY MovedSpanIs DEF IsEvent
<1> HIDE DEF m, end, start, spans
<1>5. m = [f \in EventFields |-> IF f = "timestamp" THEN end ELSE IF f = "start_timestamp" THEN start
                                 ELSE IF f = "spans" THEN spans ELSE e[f]]
  BY <1>1, <1>2 DEF EventFields
<1>6. /\ m = [f \in EventFields |-> m[f]] /\ m.timestamp = end /\ m.start_timestamp = start /\ m.spans = spans
      /\ \A f \in EventFields \ {"timestamp", "start_timestamp", "spans"} : m[f] = e[f]
  BY <1>5 DEF EventFields
<1>7. IsEvent(m)
  BY <1>3, <1>4, <1>6 DEF IsEvent
<1> QED
  BY <1>6, <1>7 DEF IsMoved, Alike, m, end, start, spans

LEMMA MovedKeeps ==
  ASSUME NEW e, IsEvent(e), NEW d \in Int, NEW m, IsMoved(m, e, d)
  PROVE  /\ Durations(m) = Durations(e)
         /\ InOrder(e) => InOrder(m)
         /\ (\A n \in DOMAIN e.spans : InOrder(e.spans[n])) => \A n \in DOMAIN m.spans : InOrder(m.spans[n])
<1>1. /\ DOMAIN m.spans = DOMAIN e.spans
      /\ m.timestamp = Shift(e.timestamp, d) /\ m.start_timestamp = Shift(e.start_timestamp, d)
      /\ \A n \in DOMAIN e.spans : m.spans[n] = MovedSpan(e.spans[n], d)
  BY DEF IsMoved
<1>2. IsTime(e.timestamp) /\ IsTime(e.start_timestamp) /\ \A n \in DOMAIN e.spans : IsSpan(e.spans[n])
  BY DEF IsEvent
<1> DEFINE within(x, n) == Lengths(x.spans[n].start_timestamp, x.spans[n].timestamp)
           after(x, n) == Lengths(x.spans[n].start_timestamp, x.timestamp)
<1>3. ASSUME NEW n \in DOMAIN e.spans
      PROVE  within(m, n) = within(e, n) /\ after(m, n) = after(e, n) /\ (InOrder(e.spans[n]) => InOrder(m.spans[n]))
  <2>1. IsSpan(e.spans[n]) /\ m.spans[n] = MovedSpan(e.spans[n], d)
    BY <1>1, <1>2
  <2>2. /\ m.spans[n].timestamp = Shift(e.spans[n].timestamp, d)
        /\ m.spans[n].start_timestamp = Shift(e.spans[n].start_timestamp, d)
        /\ InOrder(e.spans[n]) => InOrder(m.spans[n])
    BY <2>1, MovedSpanIs
  <2>3. IsTime(e.spans[n].timestamp) /\ IsTime(e.spans[n].start_timestamp)
    BY <2>1 DEF IsSpan
  <2>4. within(m, n) = within(e, n)
    BY <2>2, <2>3, MovedTimes
  <2>5. after(m, n) = after(e, n)
    BY <1>1, <1>2, <2>2, <2>3, MovedTimes
  <2> QED
    BY <2>2, <2>4, <2>5
<1>4. /\ Durations(m) = [n \in DOMAIN m.spans |-> within(m, n) \cup after(m, n)]
      /\ Durations(e) = [n \in DOMAIN e.spans |-> within(e, n) \cup after(e, n)]
  BY DEF Durations
<1>5. InOrder(e) => InOrder(m)
  <2>1. /\ InOrder(e) = Sorted(e.start_timestamp, e.timestamp)
        /\ InOrder(m) = Sorted(m.start_timestamp, m.timestamp)
    BY DEF InOrder, Sorted
  <2> QED
    BY <1>1, <1>2, <2>1, MovedTimes
<1> HIDE DEF within, after
<1>6. Durations(m) = Durations(e)
  BY <1>1, <1>3, <1>4
<1> QED
  BY <1>1, <1>3, <1>5, <1>6

(* The correction of clock drift moves an event, or leaves it alone.       *)
LEMMA CorrectedIs ==
  ASSUME NEW e, IsEvent(e), NEW at \in Int, NEW sent, IsTime(sent), NEW at_least \in Nat
  PROVE  \/ Corrected(e, sent, at, at_least) = e /\ (at_least = 0 => sent = {})
         \/ \E s \in sent : sent = {s} /\ at - s \in Int /\ IsMoved(Corrected(e, sent, at, at_least), e, at - s)
<1> DEFINE drift == {at - s : s \in sent}
           r == Corrected(e, sent, at, at_least)
           small == \A d \in drift : Abs(d) < at_least
<1>1. r = IF small THEN e ELSE Moved(e, CHOOSE x \in drift : TRUE)
  BY Zenon DEF Corrected
<1>2. CASE sent = {}
  <2>1. small
    BY <1>2
  <2> QED
    BY <1>1, <1>2, <2>1
<1>3. ASSUME NEW s \in Int, sent = {s}
      PROVE  \/ r = e /\ (at_least = 0 => sent = {})
             \/ at - s \in Int /\ IsMoved(r, e, at - s)
  <2>1. drift = {at - s} /\ at - s \in Int
    BY <1>3
  <2>2. (CHOOSE x \in drift : TRUE) = at - s
    BY <2>1
  <2>3. CASE small
    <3>1. Abs(at - s) < at_least /\ Abs(at - s) >= 0
      BY <2>1, <2>3 DEF Abs
    <3>2. at_least # 0
      BY <2>1, <3>1 DEF Abs
    <3> QED
      BY <1>1, <2>3, <3>2
  <2>4. CASE ~small
    <3>1. r = Moved(e, at - s)
      BY <1>1, <2>2, <2>4
    <3>2. IsMoved(r, e, at - s)
      BY <2>1, <3>1, MovedIs
    <3> QED
      BY <2>1, <3>2
  <2> QED
    BY <2>3, <2>4
<1> QED
  BY <1>2, <1>3 DEF IsTime

-----------------------------------------------------------------------------
(* What the steps of NormalizeProcessor change.                            *)

LEMMA AlikeThrough ==
  ASSUME NEW c, NEW d, NEW e, NEW A, NEW B, Alike(d, e, A), Alike(c, d, B)
  PROVE  Alike(c, e, A \cup B)
BY DEF Alike

LEMMA AlikeIsEvent ==
  ASSUME NEW d, NEW e, IsEvent(e), NEW A, Alike(d, e, A),
         A \cap {"timestamp", "start_timestamp", "spans"} = {}
  PROVE  /\ IsEvent(d) /\ Durations(d) = Durations(e) /\ d.timestamp = e.timestamp
         /\ InOrder(d) <=> InOrder(e)
         /\ d.spans = e.spans
<1>1. d.timestamp = e.timestamp /\ d.start_timestamp = e.start_timestamp /\ d.spans = e.spans
  BY DEF Alike, EventFields
<1>2. IsEvent(d)
  BY <1>1 DEF IsEvent, Alike
<1>3. Durations(d) = Durations(e)
  BY <1>1 DEF Durations
<1> QED
  BY <1>1, <1>2, <1>3 DEF InOrder

LEMMA ReportNormalized ==
  ASSUME NEW e, e = [f \in EventFields |-> e[f]], NEW client_ip
  PROVE  LET d == normalize_security_report(e, client_ip)
         IN  /\ Alike(d, e, {"user_ip"})
             /\ d.user_ip = IF e.security = "none" \/ client_ip = {} THEN e.user_ip ELSE client_ip
<1> DEFINE d == normalize_security_report(e, client_ip)
<1>1. d = [f \in EventFields |-> IF f = "user_ip" /\ ~(e.security = "none" \/ client_ip = {}) THEN client_ip ELSE e[f]]
  BY DEF normalize_security_report, EventFields
<1> HIDE DEF d
<1>2. d = [f \in EventFields |-> d[f]] /\ \A f \in EventFields \ {"user_ip"} : d[f] = e[f]
  BY <1>1
<1>3. d.user_ip = IF e.security = "none" \/ client_ip = {} THEN e.user_ip ELSE client_ip
  BY <1>1 DEF EventFields
<1> QED
  BY <1>2, <1>3 DEF Alike, d

UserAddress(user_ip, http_ip, backfill) ==
  IF user_ip # {} THEN user_ip ELSE IF http_ip # {} THEN http_ip ELSE backfill

LEMMA AddressesNormalized ==
  ASSUME NEW e, e = [f \in EventFields |-> e[f]], NEW client_ip
  PROVE  LET d == normalize_ip_addresses(e, client_ip)
         IN  /\ Alike(d, e, {"user_ip", "http_ip"})
             /\ d.http_ip = Resolved(e.http_ip, client_ip)
             /\ d.user_ip = UserAddress(Resolved(e.user_ip, client_ip), Resolved(e.http_ip, client_ip),
                                        IF e.platform = {"javascript"} THEN client_ip ELSE {})
<1> DEFINE d == normalize_ip_addresses(e, client_ip)
           http == Resolved(e.http_ip, client_ip)
           user == UserAddress(Resolved(e.user_ip, client_ip), http, IF e.platform = {"javascript"} THEN client_ip ELSE {})
<1>1. d = [e EXCEPT !.http_ip = http, !.user_ip = user]
  BY Zenon DEF normalize_ip_addresses, UserAddress
<1> HIDE DEF d, http, user
<1>2. d = [f \in EventFields |-> IF f = "http_ip" THEN http ELSE IF f = "user_ip" THEN user ELSE e[f]]
  BY <1>1 DEF EventFields
<1>3. d = [f \in EventFields |-> d[f]] /\ \A f \in EventFields \ {"user_ip", "http_ip"} : d[f] = e[f]
  BY <1>2
<1>4. d.http_ip = http /\ d.user_ip = user
  BY <1>2 DEF EventFields
<1> QED
  BY <1>3, <1>4 DEF Alike, d, http, user

LEMMA AttributesValidated ==
  ASSUME NEW e, e = [f \in EventFields |-> e[f]]
  PROVE  LET d == ValidateAttributes(e)
         IN  /\ Alike(d, e, {"ty", "release", "environment", "platform"})
             /\ d.ty = {infer_event_type(e)} /\ d.release = e.release \ {"bad"}
<1> DEFINE d == ValidateAttributes(e)
           ty == {infer_event_type(e)}
           release == e.release \ {"bad"}
           environment == e.environment \ {"bad"}
           platform == IF e.platform \subseteq {"bad"} THEN {"other"} ELSE e.platform
<1>1. d = [e EXCEPT !.ty = ty, !.release = release, !.environment = environment, !.platform = platform]
  BY Zenon DEF ValidateAttributes, EventFields
<1> HIDE DEF d, ty, release, environment, platform
<1>2. d = [f \in EventFields |-> IF f = "ty" THEN ty ELSE IF f = "release" THEN release
                                 ELSE IF f = "environment" THEN environment ELSE IF f = "platform" THEN platform
                                 ELSE e[f]]
  BY <1>1 DEF EventFields
<1>3. d = [f \in EventFields |-> d[f]] /\ \A f \in EventFields \ {"ty", "release", "environment", "platform"} : d[f] = e[f]
  BY <1>2
<1>4. d.ty = ty /\ d.release = release
  BY <1>2 DEF EventFields
<1> QED
  BY <1>3, <1>4 DEF Alike, d, ty, release

LEMMA DistNormalized ==
  ASSUME NEW e, e = [f \in EventFields |-> e[f]]
  PROVE  LET d == normalize_release_dist(e)
         IN  Alike(d, e, {"dist"}) /\ d.dist = IF e.release \subseteq {""} THEN {} ELSE e.dist
<1> DEFINE d == normalize_release_dist(e)
           dist == IF e.release \subseteq {""} THEN {} ELSE e.dist
<1>1. d = [e EXCEPT !.dist = dist]
  BY Zenon DEF normalize_release_dist, EventFields
<1> HIDE DEF d, dist
<1>2. d = [f \in EventFields |-> IF f = "dist" THEN dist ELSE e[f]]
  BY <1>1 DEF EventFields
<1>3. d = [f \in EventFields |-> d[f]] /\ (\A f \in EventFields \ {"dist"} : d[f] = e[f]) /\ d.dist = dist
  BY <1>2 DEF EventFields
<1> QED
  BY <1>3 DEF Alike, d, dist

(* Tags, as a list of entries that are null or pairs of options.           *)

IsTags(tags) ==
  Len(tags) \in Nat /\ tags = [n \in 1 .. Len(tags) |-> tags[n]]

IsTag(tag) ==
  /\ tag.null \in BOOLEAN
  /\ tag.key = {} \/ \E k : tag.key = {k}
  /\ tag.null => tag.key = {} /\ tag.value = {}

NoNull(tags) == \A n \in 1 .. Len(tags) : tags[n].null = FALSE

KeysApart(s) == \A i, j \in 1 .. Len(s) : s[i].key = s[j].key /\ s[j].key # {} => i = j

Repeats(tags, n) == \E m \in 1 .. n - 1 : ~tags[m].null /\ tags[m].key = tags[n].key

Skipped(tags, n) == ~tags[n].null /\ (tags[n].key \cap InternalTags # {} \/ Repeats(tags, n))

(* A list of tags with one more.                                           *)
LEMMA AppendedLast ==
  ASSUME NEW S, NEW s \in Seq(S), NEW x \in S
  PROVE  /\ Len(s) \in Nat /\ Len(Append(s, x)) = Len(s) + 1
         /\ \A i \in 1 .. Len(s) : Append(s, x)[i] = s[i]
         /\ Append(s, x)[Len(s) + 1] = x
         /\ Append(s, x) = [i \in 1 .. Len(s) + 1 |-> Append(s, x)[i]]
<1> DEFINE t == Append(s, x)
<1>1. Len(s) \in Nat /\ Len(t) = Len(s) + 1 /\ t \in Seq(S)
  OBVIOUS
<1>2. (\A i \in 1 .. Len(s) : t[i] = s[i]) /\ t[Len(s) + 1] = x
  OBVIOUS
<1> HIDE DEF t
<1>3. t = [i \in 1 .. Len(s) + 1 |-> t[i]]
  BY <1>1
<1> QED
  BY <1>1, <1>2, <1>3 DEF t

LEMMA TagAppended ==
  ASSUME NEW s, IsTags(s), NEW x
  PROVE  /\ Len(s) \in Nat /\ Len(Append(s, x)) = Len(s) + 1
         /\ IsTags(Append(s, x))
         /\ \A i \in 1 .. Len(s) : i \in 1 .. Len(s) + 1 /\ Append(s, x)[i] = s[i]
         /\ Append(s, x)[Len(s) + 1] = x
         /\ \A i \in 1 .. Len(s) + 1 : i \in 1 .. Len(s) \/ i = Len(s) + 1
         /\ Len(s) + 1 \in 1 .. Len(s) + 1
<1> DEFINE t == Append(s, x)
           l == Len(s)
           S == {s[i] : i \in 1 .. l} \cup {x}
<1>1. l \in Nat /\ s = [i \in 1 .. l |-> s[i]]
  BY DEF IsTags
<1>2. s \in Seq(S) /\ x \in S
  BY <1>1
<1> HIDE DEF S
<1>3. Len(t) = l + 1 /\ (\A i \in 1 .. l : t[i] = s[i]) /\ t[l + 1] = x /\ t = [i \in 1 .. l + 1 |-> t[i]]
  BY <1>2, AppendedLast
<1> HIDE DEF t, l
<1>4. (\A i \in 1 .. l : i \in 1 .. l + 1) /\ (\A i \in 1 .. l + 1 : i \in 1 .. l \/ i = l + 1)
      /\ l + 1 \in 1 .. l + 1 /\ l + 1 \in Nat
  BY <1>1
<1>5. IsTags(t)
  BY <1>3, <1>4 DEF IsTags
<1> QED
  BY <1>1, <1>3, <1>4, <1>5 DEF t, l

LEMMA TagPosition ==
  ASSUME NEW tags, IsTags(tags), NEW key
  PROVE  /\ Keyed(tags, key) \subseteq 1 .. Len(tags)
         /\ \A n \in 1 .. Len(tags) : tags[n].key = {key} => Keyed(tags, key) # {}
         /\ PositionOf(tags, key) = {} <=> Keyed(tags, key) = {}
         /\ NoNull(tags) => PositionOf(tags, key) = Keyed(tags, key)
<1>1. DOMAIN tags = 1 .. Len(tags) /\ Len(tags) \in Nat
  BY DEF IsTags
<1>2. Keyed(tags, key) \subseteq 1 .. Len(tags)
  BY <1>1 DEF Keyed
<1>3. ASSUME NEW n \in 1 .. Len(tags), tags[n].key = {key} PROVE Keyed(tags, key) # {}
  <2> DEFINE at == {i \in 1 .. Len(tags) : tags[i].key = {key}}
  <2>1. PICK i \in at : \A j \in at : i <= j
    BY <1>1, <1>3, Least
  <2>2. i \in 1 .. Len(tags) /\ tags[i].key = {key}
    OBVIOUS
  <2>3. \A m \in 1 .. i - 1 : tags[m].key # {key}
    BY <1>1, <2>1, <2>2
  <2> QED
    BY <1>1, <2>2, <2>3 DEF Keyed
<1>4. PositionOf(tags, key) = {} <=> Keyed(tags, key) = {}
  BY Zenon DEF PositionOf
<1>5. ASSUME NoNull(tags) PROVE PositionOf(tags, key) = Keyed(tags, key)
  <2>1. ASSUME NEW n \in Keyed(tags, key) PROVE Cardinality({m \in 1 .. n : ~tags[m].null}) = n
    <3>1. n \in 1 .. Len(tags) /\ n \in Int /\ n >= 1
      BY <1>1, <1>2
    <3>2. \A m \in 1 .. n : tags[m].null = FALSE
      BY <1>1, <1>5, <3>1 DEF NoNull
    <3>3. {m \in 1 .. n : ~tags[m].null} = 1 .. n
      BY <3>2, Zenon
    <3>4. Cardinality(1 .. n) = n
      BY <3>1, FS_Interval
    <3> QED
      BY <3>3, <3>4
  <2> QED
    BY <2>1, Zenon DEF PositionOf
<1> QED
  BY <1>2, <1>3, <1>4, <1>5

(* What is left after a tag was removed, and what was first with its key.  *)
LEMMA TagsRemoved ==
  ASSUME NEW tags, IsTags(tags), NEW key
  PROVE  LET rest == TagRemoved(tags, key)
         IN  /\ IsTags(rest)
             /\ \A m \in 1 .. Len(rest) : \E n \in 1 .. Len(tags) : rest[m] = tags[n]
             /\ NoNull(tags) =>
                  \A n \in 1 .. Len(tags) :
                    (\A m \in 1 .. n - 1 : tags[m].key # tags[n].key) /\ tags[n].key # {key} =>
                      \E m \in 1 .. Len(rest) : rest[m] = tags[n] /\ ~Repeats(rest, m)
<1> DEFINE rest == TagRemoved(tags, key)
           at == CHOOSE n \in PositionOf(tags, key) : TRUE
           len == Len(tags)
           first(n) == \A m \in 1 .. n - 1 : tags[m].key # tags[n].key
<1>1. len \in Nat /\ DOMAIN tags = 1 .. len
  BY DEF IsTags
<1>2. CASE PositionOf(tags, key) = {}
  <2>1. rest = tags
    BY <1>2 DEF TagRemoved
  <2>2. ASSUME NEW n \in 1 .. len, first(n) PROVE ~Repeats(tags, n)
    BY <2>2 DEF Repeats
  <2> QED
    BY <2>1, <2>2
<1>3. CASE PositionOf(tags, key) # {}
  <2>1. Keyed(tags, key) # {} /\ Keyed(tags, key) \subseteq 1 .. len /\ at \in PositionOf(tags, key)
    BY <1>3, TagPosition
  <2>2. rest = [n \in 1 .. len - 1 |-> IF n < at THEN tags[n] ELSE tags[n + 1]]
    BY <1>3, Zenon DEF TagRemoved
  <2> HIDE DEF at, rest
  <2>3. len - 1 \in Nat
    BY <1>1, <2>1
  <2>4. Len(rest) = len - 1
    BY <2>2, <2>3
  <2>5. IsTags(rest)
    BY <2>2, <2>3, <2>4 DEF IsTags
  <2>6. \A m \in 1 .. len - 1 : \E n \in 1 .. len : rest[m] = tags[n]
    <3>1. \A m \in 1 .. len - 1 : m \in 1 .. len /\ m + 1 \in 1 .. len
      BY <1>1
    <3> QED
      BY <2>2, <3>1, Zenon
  <2>7. ASSUME NoNull(tags), NEW n \in 1 .. len, first(n), tags[n].key # {key}
        PROVE  \E m \in 1 .. Len(rest) : rest[m] = tags[n] /\ ~Repeats(rest, m)
    <3> DEFINE m == IF n < at THEN n ELSE n - 1
    <3>0. at \in 1 .. len /\ tags[at].key = {key}
      <4>1. at \in Keyed(tags, key)
        BY <2>1, <2>7, TagPosition
      <4> QED
        BY <1>1, <2>1, <4>1 DEF Keyed
    <3>1. n # at
      BY <2>7, <3>0
    <3>2. m \in 1 .. len - 1 /\ rest[m] = tags[n]
      BY <1>1, <2>2, <3>0, <3>1
    <3>3. ASSUME NEW k \in 1 .. m - 1 PROVE rest[k].key # tags[n].key
      <4>1. k \in 1 .. len - 1 /\ (k < at => k \in 1 .. n - 1) /\ (~(k < at) => k + 1 \in 1 .. n - 1)
        BY <1>1, <3>0, <3>1, <3>2
      <4> QED
        BY <2>2, <2>7, <4>1
    <3> HIDE DEF m
    <3> QED
      BY <2>4, <3>2, <3>3 DEF Repeats
  <2> QED
    BY <2>4, <2>5, <2>6, <2>7 DEF rest
<1> QED
  BY <1>2, <1>3

(* The tags that were kept of the first n.                                 *)
Keeping(tags, n, g) ==
  g = [i \in 0 .. n |-> IF i = 0 THEN <<>> ELSE IF Skipped(tags, i) THEN g[i - 1] ELSE Append(g[i - 1], tags[i])]

LEMMA KeepingExists ==
  ASSUME NEW tags, NEW n \in Nat
  PROVE  \E g : Keeping(tags, n, g)
<1> DEFINE bad == {m \in 1 .. n : ~\E g : Keeping(tags, m, g)}
<1>0. Keeping(tags, 0, [i \in 0 .. 0 |-> <<>>])
  BY DEF Keeping
<1>1. bad = {}
  <2> SUFFICES ASSUME bad # {} PROVE FALSE
    OBVIOUS
  <2>1. PICK m \in bad : \A l \in bad : m <= l
    BY Least
  <2>2. m \in 1 .. n /\ ~\E g : Keeping(tags, m, g)
    OBVIOUS
  <2>3. m - 1 = 0 \/ (m - 1 \in 1 .. n /\ ~(m - 1 \in bad))
    BY <2>1, <2>2
  <2>4. PICK g : Keeping(tags, m - 1, g)
    BY <1>0, <2>3
  <2> DEFINE h == [i \in 0 .. m |-> IF i = m THEN (IF Skipped(tags, m) THEN g[m - 1] ELSE Append(g[m - 1], tags[m])) ELSE g[i]]
             next(i) == IF i = 0 THEN <<>> ELSE IF Skipped(tags, i) THEN h[i - 1] ELSE Append(h[i - 1], tags[i])
  <2>5. ASSUME NEW i \in 0 .. m PROVE h[i] = next(i)
    <3>1. CASE i = m
      <4>1. i - 1 \in 0 .. m /\ i - 1 # m /\ i # 0
        BY <2>2, <3>1
      <4>2. h[i - 1] = g[m - 1]
        BY <3>1, <4>1
      <4> QED
        BY <3>1, <4>1, <4>2
    <3>2. CASE i # m
      <4>1. i \in 0 .. m - 1
        BY <2>2, <3>2
      <4>2. h[i] = g[i] /\ g[i] = IF i = 0 THEN <<>> ELSE IF Skipped(tags, i) THEN g[i - 1] ELSE Append(g[i - 1], tags[i])
        BY <2>4, <3>2, <4>1 DEF Keeping
      <4>3. i # 0 => h[i - 1] = g[i - 1]
        BY <2>2, <4>1
      <4> QED
        BY <4>2, <4>3
    <3> QED
      BY <3>1, <3>2
  <2>6. h = [i \in 0 .. m |-> h[i]]
    OBVIOUS
  <2> HIDE DEF h
  <2>7. Keeping(tags, m, h)
    BY <2>5, <2>6 DEF Keeping
  <2> QED
    BY <2>2, <2>7
<1> QED
  BY <1>0, <1>1

(* s has, of the first n tags, the null ones and those that are first with *)
(* their key and not internal, and no others.                              *)
KeepsFirst(tags, n, s) ==
  /\ IsTags(s) /\ KeysApart(s)
  /\ \A i \in 1 .. Len(s) : \E m \in 1 .. n : s[i] = tags[m] /\ tags[m].key \cap InternalTags = {}
  /\ \A m \in 1 .. n : Skipped(tags, m) \/ \E i \in 1 .. Len(s) : s[i] = tags[m]

LEMMA KeepsNext ==
  ASSUME NEW tags, NEW n \in Nat, n # 0, \A m \in 1 .. n : IsTag(tags[m]),
         NEW s, KeepsFirst(tags, n - 1, s)
  PROVE  KeepsFirst(tags, n, IF Skipped(tags, n) THEN s ELSE Append(s, tags[n]))
<1>1. IsTags(s)
  BY DEF KeepsFirst
<1>2. \A m \in 1 .. n : m \in 1 .. n - 1 \/ m = n
  OBVIOUS
<1>3. (\A m \in 1 .. n - 1 : m \in 1 .. n) /\ n \in 1 .. n
  OBVIOUS
<1>4. CASE Skipped(tags, n)
  BY <1>2, <1>3, <1>4 DEF KeepsFirst
<1>5. CASE ~Skipped(tags, n)
  <2> DEFINE t == Append(s, tags[n])
             l == Len(s)
  <2>1. Len(t) = l + 1 /\ IsTags(t)
    BY <1>1, TagAppended
  <2>3. (\A i \in 1 .. l : i \in 1 .. l + 1 /\ t[i] = s[i]) /\ t[l + 1] = tags[n]
        /\ (\A i \in 1 .. l + 1 : i \in 1 .. l \/ i = l + 1) /\ l + 1 \in 1 .. l + 1
    BY <1>1, TagAppended
  <2> HIDE DEF t, l
  <2>4. \A m \in 1 .. n : tags[m].key # {} => ~tags[m].null
    BY Zenon DEF IsTag
  <2>5. \A i \in 1 .. l : \E m \in 1 .. n - 1 : s[i] = tags[m] /\ tags[m].key \cap InternalTags = {}
    BY DEF KeepsFirst, l
  <2>6. tags[n].null \/ (tags[n].key \cap InternalTags = {}
                         /\ \A m \in 1 .. n - 1 : ~tags[m].null => tags[m].key # tags[n].key)
    BY <1>5, Zenon DEF Skipped, Repeats
  <2>7. tags[n].key \cap InternalTags = {}
    <3>1. CASE tags[n].key = {}
      BY <3>1
    <3>2. CASE tags[n].key # {}
      BY <1>3, <2>4, <2>6, <3>2, Zenon
    <3> QED
      BY <3>1, <3>2
  <2>8. \A i \in 1 .. l + 1 : \E m \in 1 .. n : t[i] = tags[m] /\ tags[m].key \cap InternalTags = {}
    BY <1>3, <2>3, <2>5, <2>7, Zenon
  <2>9. \A i \in 1 .. l : tags[n].key # {} => s[i].key # tags[n].key
    BY <1>3, <2>4, <2>5, <2>6, Zenon
  <2>10. \A i, j \in 1 .. l + 1 : t[i].key = t[j].key /\ t[j].key # {} => i = j
    <3>1. \A i, j \in 1 .. l : s[i].key = s[j].key /\ s[j].key # {} => i = j
      BY DEF KeepsFirst, KeysApart, l
    <3> QED
      BY <2>3, <2>9, <3>1, Zenon
  <2>11. \A m \in 1 .. n : Skipped(tags, m) \/ \E i \in 1 .. l + 1 : t[i] = tags[m]
    <3>1. \A m \in 1 .. n - 1 : Skipped(tags, m) \/ \E i \in 1 .. l : s[i] = tags[m]
      BY DEF KeepsFirst, l
    <3> QED
      BY <1>2, <2>3, <3>1, Zenon
  <2>12. KeepsFirst(tags, n, t)
    BY <2>1, <2>8, <2>10, <2>11 DEF KeepsFirst, KeysApart
  <2> QED
    BY <1>5, <2>12 DEF t
<1> QED
  BY <1>4, <1>5

LEMMA TagsAreDeduplicated ==
  ASSUME NEW tags, IsTags(tags), \A m \in 1 .. Len(tags) : IsTag(tags[m])
  PROVE  KeepsFirst(tags, Len(tags), TagsDeduplicated(tags))
<1> DEFINE len == Len(tags)
           g == CHOOSE g : Keeping(tags, len, g)
<1>1. len \in Nat
  BY DEF IsTags
<1>2. TagsDeduplicated(tags) = g[len]
  BY Zenon DEF TagsDeduplicated, Keeping, Skipped, Repeats
<1>3. Keeping(tags, len, g)
  BY <1>1, KeepingExists
<1> HIDE DEF g, len
<1>4. g[0] = <<>> /\ \A i \in 1 .. len : g[i] = IF Skipped(tags, i) THEN g[i - 1] ELSE Append(g[i - 1], tags[i])
  <2>1. g[0] = <<>>
    <3>1. 0 \in 0 .. len
      BY <1>1
    <3> QED
      BY <1>3, <3>1, Zenon DEF Keeping
  <2>2. ASSUME NEW i \in 1 .. len
        PROVE  g[i] = IF Skipped(tags, i) THEN g[i - 1] ELSE Append(g[i - 1], tags[i])
    <3>1. i \in 0 .. len /\ i # 0
      BY <1>1
    <3> QED
      BY <1>3, <3>1, Zenon DEF Keeping
  <2> QED
    BY <2>1, <2>2, Zenon
<1>5. KeepsFirst(tags, 0, g[0])
  BY <1>4 DEF KeepsFirst, KeysApart, IsTags
<1> DEFINE bad == {n \in 1 .. len : ~KeepsFirst(tags, n, g[n])}
<1>6. bad = {}
  <2> SUFFICES ASSUME bad # {} PROVE FALSE
    OBVIOUS
  <2>1. PICK n \in bad : \A l \in bad : n <= l
    BY <1>1, Least
  <2>2. n \in 1 .. len /\ ~KeepsFirst(tags, n, g[n])
    OBVIOUS
  <2>3. n - 1 = 0 \/ (n - 1 \in 1 .. len /\ ~(n - 1 \in bad))
    BY <1>1, <2>1, <2>2
  <2>4. KeepsFirst(tags, n - 1, g[n - 1])
    BY <1>5, <2>3
  <2>5. \A m \in 1 .. n : IsTag(tags[m])
    BY <1>1, <2>2 DEF len
  <2> QED
    BY <1>1, <1>4, <2>2, <2>4, <2>5, KeepsNext
<1>7. len = 0 \/ len \in 1 .. len
  BY <1>1
<1>8. KeepsFirst(tags, len, g[len])
  BY <1>5, <1>6, <1>7
<1> QED
  BY <1>2, <1>8 DEF len

(* The check of keys and values keeps keys apart and what fits.            *)
LEMMA TagsAreChecked ==
  ASSUME NEW s, IsTags(s), KeysApart(s), \A i \in 1 .. Len(s) : IsTag(s[i]) /\ s[i].key \cap InternalTags = {}
  PROVE  LET c == TagsChecked(s)
         IN  /\ IsTags(c) /\ KeysApart(c) /\ Len(c) = Len(s)
             /\ \A i \in 1 .. Len(s) :
                  c[i].key \cap (InternalTags \cup UnfitKeys) = {} /\ c[i].value \cap UnfitValues = {}
             /\ NoNull(s) =>
                  NoNull(c) /\ \A i \in 1 .. Len(s) : c[i] = TagPair(s[i].key \ UnfitKeys, s[i].value \ UnfitValues)
<1> DEFINE c == TagsChecked(s)
           l == Len(s)
           pair(i) == TagPair(s[i].key \ UnfitKeys, s[i].value \ UnfitValues)
<1>1. l \in Nat /\ DOMAIN s = 1 .. l
  BY DEF IsTags
<1>2. c = [i \in 1 .. l |-> IF s[i].null THEN s[i] ELSE pair(i)]
  BY <1>1, Zenon DEF TagsChecked
<1>3. \A i \in 1 .. l : pair(i).null = FALSE /\ pair(i).key = s[i].key \ UnfitKeys /\ pair(i).value = s[i].value \ UnfitValues
  BY DEF TagPair
<1> HIDE DEF c, pair
<1>4. Len(c) = l /\ IsTags(c)
  BY <1>1, <1>2 DEF IsTags
<1>5. \A i \in 1 .. l : (s[i].null => c[i] = s[i]) /\ (~s[i].null => c[i] = pair(i))
  BY <1>2, Zenon
<1>6. ASSUME NEW i \in 1 .. l
      PROVE  /\ c[i].key \cap (InternalTags \cup UnfitKeys) = {} /\ c[i].value \cap UnfitValues = {}
             /\ c[i].key # {} => c[i].key = s[i].key
  <2>1. IsTag(s[i]) /\ s[i].key \cap InternalTags = {}
    BY DEF l
  <2>2. CASE s[i].null
    <3>1. c[i] = s[i] /\ s[i].key = {} /\ s[i].value = {}
      BY <1>5, <2>1, <2>2, Zenon DEF IsTag
    <3> QED
      BY <3>1
  <2>3. CASE ~s[i].null
    <3>1. c[i].key = s[i].key \ UnfitKeys /\ c[i].value = s[i].value \ UnfitValues
      BY <1>3, <1>5, <2>3, Zenon
    <3>2. s[i].key = {} \/ \E k : s[i].key = {k}
      BY <2>1, Zenon DEF IsTag
    <3> QED
      BY <2>1, <3>1, <3>2
  <2> QED
    BY <2>2, <2>3, Zenon
<1>7. KeysApart(c)
  <2>1. \A i, j \in 1 .. l : s[i].key = s[j].key /\ s[j].key # {} => i = j
    BY DEF KeysApart, l
  <2>2. ASSUME NEW i \in 1 .. l, NEW j \in 1 .. l, c[i].key = c[j].key, c[j].key # {} PROVE i = j
    BY <1>6, <2>1, <2>2, Zenon
  <2> QED
    BY <1>4, <2>2, Zenon DEF KeysApart
<1>8. ASSUME NoNull(s) PROVE NoNull(c) /\ \A i \in 1 .. l : c[i] = pair(i)
  <2>1. \A i \in 1 .. l : c[i] = pair(i)
    BY <1>5, <1>8, Zenon DEF NoNull, l
  <2>2. NoNull(c)
    BY <1>3, <1>4, <2>1, Zenon DEF NoNull
  <2> QED
    BY <2>1, <2>2
<1> QED
  BY <1>4, <1>6, <1>7, <1>8, Zenon DEF c, l, pair

(* Insertion keeps keys apart, adds the tag and leaves others alone.       *)
HasInserted(t, s, key, option) ==
  /\ IsTags(t) /\ KeysApart(t)
  /\ \A i \in 1 .. Len(t) :
       \/ \E j \in 1 .. Len(s) : t[i] = s[j]
       \/ t[i].value = option /\ (t[i].key = {key} \/ \E j \in 1 .. Len(s) : t[i].key = s[j].key)
  /\ NoNull(s) =>
       /\ NoNull(t)
       /\ option # {} => \E i \in 1 .. Len(t) : t[i] = TagPair({key}, option)
       /\ \A i \in 1 .. Len(s) : option = {} \/ s[i].key # {key} => \E j \in 1 .. Len(t) : t[j] = s[i]

LEMMA TagsInserted ==
  ASSUME NEW s, IsTags(s), KeysApart(s), NEW key, NEW option
  PROVE  HasInserted(TagInserted(s, key, option), s, key, option)
<1> DEFINE t == TagInserted(s, key, option)
           at == PositionOf(s, key)
           tag == TagPair({key}, option)
           l == Len(s)
<1>1. l \in Nat /\ DOMAIN s = 1 .. l
  BY DEF IsTags
<1>2. \A k : TagPair(k, option).null = FALSE /\ TagPair(k, option).key = k /\ TagPair(k, option).value = option
  BY DEF TagPair
<1>3. CASE option = {}
  <2>1. t = s
    BY <1>3 DEF TagInserted
  <2> QED
    BY <1>3, <2>1, Zenon DEF HasInserted
<1>4. CASE option # {} /\ at = {}
  <2>1. t = Append(s, tag)
    BY <1>4, Zenon DEF TagInserted
  <2>2. \A i \in 1 .. l : s[i].key # {key}
    BY <1>4, TagPosition
  <2>0. tag.null = FALSE /\ tag.key = {key} /\ tag.value = option
    BY <1>2
  <2> HIDE DEF tag
  <2>3. Len(t) = l + 1 /\ IsTags(t)
    BY <2>1, TagAppended
  <2>4. (\A i \in 1 .. l : i \in 1 .. l + 1 /\ t[i] = s[i]) /\ t[l + 1] = tag
        /\ (\A i \in 1 .. l + 1 : i \in 1 .. l \/ i = l + 1) /\ l + 1 \in 1 .. l + 1
    BY <2>1, TagAppended
  <2> HIDE DEF t, l
  <2>5. \A i, j \in 1 .. l : s[i].key = s[j].key /\ s[j].key # {} => i = j
    BY DEF KeysApart, l
  <2>6. \A i, j \in 1 .. l + 1 : t[i].key = t[j].key /\ t[j].key # {} => i = j
    BY <2>0, <2>2, <2>4, <2>5
  <2>7. KeysApart(t)
    BY <2>3, <2>6, Zenon DEF KeysApart
  <2>8. NoNull(s) => NoNull(t)
    BY <2>0, <2>3, <2>4, Zenon DEF NoNull, l
  <2>9. \A i \in 1 .. l + 1 : (\E j \in 1 .. l : t[i] = s[j]) \/ (t[i].value = option /\ t[i].key = {key})
    BY <2>0, <2>4, Zenon
  <2> QED
    BY <2>3, <2>4, <2>7, <2>8, <2>9, Zenon DEF HasInserted, t, l, tag
<1>5. CASE option # {} /\ at # {}
  <2> DEFINE pair(i) == TagPair(s[i].key, option)
  <2>1. t = [i \in 1 .. l |-> IF i \in at /\ ~s[i].null THEN pair(i) ELSE s[i]]
    BY <1>1, <1>5, Zenon DEF TagInserted
  <2>2. \A i \in 1 .. l : pair(i).null = FALSE /\ pair(i).key = s[i].key /\ pair(i).value = option
    BY <1>2, Zenon
  <2> HIDE DEF pair, l, t, at
  <2>3. Len(t) = l /\ IsTags(t)
    BY <1>1, <2>1 DEF IsTags
  <2>4. \A i \in 1 .. l : t[i] = IF i \in at /\ ~s[i].null THEN pair(i) ELSE s[i]
    BY <2>1, Zenon
  <2>5. \A i \in 1 .. l : t[i].key = s[i].key /\ (t[i] = s[i] \/ t[i].value = option)
    BY <2>2, <2>4, Zenon
  <2>6. KeysApart(t)
    <3>1. \A i, j \in 1 .. l : s[i].key = s[j].key /\ s[j].key # {} => i = j
      BY DEF KeysApart, l
    <3> QED
      BY <2>3, <2>5, <3>1, Zenon DEF KeysApart
  <2>7. ASSUME NoNull(s)
        PROVE  /\ NoNull(t) /\ \E i \in 1 .. l : t[i] = tag
               /\ \A i \in 1 .. l : s[i].key # {key} => t[i] = s[i]
    <3>1. \A i \in 1 .. l : ~s[i].null /\ s[i].null = FALSE
      BY <2>7, Zenon DEF NoNull, l
    <3>2. at = Keyed(s, key) /\ at \subseteq 1 .. l
      BY <2>7, TagPosition DEF at, l
    <3>3. \A i \in at : s[i].key = {key}
      BY <3>2 DEF Keyed
    <3>4. PICK n \in at : TRUE
      BY <1>5, Zenon DEF at
    <3>5. n \in 1 .. l /\ t[n] = pair(n) /\ s[n].key = {key}
      BY <2>4, <3>1, <3>2, <3>3, <3>4, Zenon
    <3>6. pair(n) = tag
      BY <3>5, Zenon DEF pair
    <3>7. NoNull(t)
      BY <2>2, <2>3, <2>4, <3>1, Zenon DEF NoNull
    <3> QED
      BY <2>4, <3>3, <3>5, <3>6, <3>7, Zenon
  <2> QED
    BY <1>5, <2>3, <2>5, <2>6, <2>7, Zenon DEF HasInserted, t, l, tag
<1> QED
  BY <1>3, <1>4, <1>5

LEMMA TagsNormalized ==
  ASSUME NEW e, e = [f \in EventFields |-> e[f]]
  PROVE  LET d == normalize_event_tags(e)
             checked == TagsChecked(TagsDeduplicated(TagRemoved(e.tags, "environment")))
         IN  /\ Alike(d, e, {"environment", "tags", "server_name", "site"})
             /\ d.tags = TagInserted(TagInserted(checked, "server_name", e.server_name), "site", e.site)
             /\ TagTaken(e.tags, "environment") # {} => d.environment # {}
<1> DEFINE d == normalize_event_tags(e)
           taken == TagTaken(e.tags, "environment")
           environment == e.environment \ {""}
           other == IF environment = {} THEN taken ELSE environment
           checked == TagsChecked(TagsDeduplicated(TagRemoved(e.tags, "environment")))
           tags == TagInserted(TagInserted(checked, "server_name", e.server_name), "site", e.site)
<1>1. d = [e EXCEPT !.environment = other, !.tags = tags, !.server_name = {}, !.site = {}]
  BY Zenon DEF normalize_event_tags
<1>2. taken # {} => other # {}
  BY Zenon
<1> HIDE DEF d, other, tags, taken
<1>3. d = [f \in EventFields |-> IF f = "environment" THEN other ELSE IF f = "tags" THEN tags
                                 ELSE IF f \in {"server_name", "site"} THEN {} ELSE e[f]]
  BY <1>1 DEF EventFields
<1>4. d.environment = other /\ d.tags = tags
  BY <1>3 DEF EventFields
<1>5. Alike(d, e, {"environment", "tags", "server_name", "site"})
  BY <1>3 DEF Alike
<1> QED
  BY <1>2, <1>4, <1>5, Zenon DEF d, tags, taken

(* Only the tags and the environment are looked at, and what becomes tags. *)
UniqueTags(tags, environment, sent, server_name, site) ==
  HasUniqueTags([tags |-> tags, environment |-> environment],
                [tags |-> sent, server_name |-> server_name, site |-> site])

LEMMA TagsOfFields ==
  ASSUME NEW stored, NEW event
  PROVE  HasUniqueTags(stored, event) =
           UniqueTags(stored.tags, stored.environment, event.tags, event.server_name, event.site)
BY DEF HasUniqueTags, MovedTags, UniqueTags

LEMMA TagsAreUnique ==
  ASSUME NEW e, e = [f \in EventFields |-> e[f]], IsTags(e.tags), \A n \in 1 .. Len(e.tags) : IsTag(e.tags[n])
  PROVE  HasUniqueTags(normalize_event_tags(e), e)
<1> DEFINE d == normalize_event_tags(e)
           rest == TagRemoved(e.tags, "environment")
           kept == TagsDeduplicated(rest)
           checked == TagsChecked(kept)
           named == TagInserted(checked, "server_name", e.server_name)
           t == TagInserted(named, "site", e.site)
           has(tag) == \E n \in DOMAIN d.tags : d.tags[n] = tag
           first(n) == \A m \in 1 .. n - 1 : e.tags[m].key # e.tags[n].key
           sent == InternalTags \cup MovedTags(e)
<1>1. d.tags = t /\ (TagTaken(e.tags, "environment") # {} => d.environment # {})
  BY TagsNormalized
<1>2. /\ IsTags(rest)
      /\ \A m \in 1 .. Len(rest) : \E n \in 1 .. Len(e.tags) : rest[m] = e.tags[n]
      /\ NoNull(e.tags) =>
           \A n \in 1 .. Len(e.tags) : first(n) /\ e.tags[n].key # {"environment"} =>
             \E m \in 1 .. Len(rest) : rest[m] = e.tags[n] /\ ~Repeats(rest, m)
  BY TagsRemoved
<1> HIDE DEF rest
<1>3. (\A m \in 1 .. Len(rest) : IsTag(rest[m])) /\ (NoNull(e.tags) => NoNull(rest))
  BY <1>2, Zenon DEF NoNull
<1>4. KeepsFirst(rest, Len(rest), kept)
  BY <1>2, <1>3, TagsAreDeduplicated
<1> HIDE DEF kept
<1>5. /\ IsTags(kept) /\ KeysApart(kept)
      /\ \A i \in 1 .. Len(kept) : \E m \in 1 .. Len(rest) : kept[i] = rest[m] /\ rest[m].key \cap InternalTags = {}
      /\ \A m \in 1 .. Len(rest) : Skipped(rest, m) \/ \E i \in 1 .. Len(kept) : kept[i] = rest[m]
  BY <1>4, Zenon DEF KeepsFirst
<1>6. /\ \A i \in 1 .. Len(kept) : IsTag(kept[i]) /\ kept[i].key \cap InternalTags = {}
      /\ NoNull(rest) => NoNull(kept)
  BY <1>3, <1>5, Zenon DEF NoNull
<1>7. /\ IsTags(checked) /\ KeysApart(checked) /\ Len(checked) = Len(kept)
      /\ \A i \in 1 .. Len(kept) : checked[i].key \cap (InternalTags \cup UnfitKeys) = {} /\ checked[i].value \cap UnfitValues = {}
      /\ NoNull(kept) =>
           NoNull(checked) /\ \A i \in 1 .. Len(kept) :
             checked[i] = TagPair(kept[i].key \ UnfitKeys, kept[i].value \ UnfitValues)
  BY <1>5, <1>6, TagsAreChecked
<1> HIDE DEF checked
<1>8. HasInserted(named, checked, "server_name", e.server_name)
  BY <1>7, TagsInserted
<1> HIDE DEF named
<1>9. HasInserted(t, named, "site", e.site)
  <2>1. IsTags(named) /\ KeysApart(named)
    BY <1>8, Zenon DEF HasInserted
  <2> QED
    BY <2>1, TagsInserted
<1> HIDE DEF t
<1>10. DOMAIN d.tags = 1 .. Len(t) /\ DOMAIN e.tags = 1 .. Len(e.tags)
  BY <1>1, <1>9 DEF HasInserted, IsTags
<1> HIDE DEF d
<1>11. \A m, n \in DOMAIN d.tags : d.tags[m].key = d.tags[n].key /\ d.tags[n].key # {} => m = n
  BY <1>1, <1>9, <1>10, Zenon DEF HasInserted, KeysApart
<1>12. ASSUME NEW n \in DOMAIN d.tags
       PROVE  /\ d.tags[n].key \cap (InternalTags \cup UnfitKeys) = {}
              /\ d.tags[n].value \cap UnfitValues # {} => d.tags[n].value \in {e.server_name, e.site}
  <2> DEFINE Fits(x) == /\ x.key \cap (InternalTags \cup UnfitKeys) = {}
                        /\ x.value \cap UnfitValues = {} \/ x.value \in {e.server_name, e.site}
  <2>1. {"server_name"} \cap (InternalTags \cup UnfitKeys) = {} /\ {"site"} \cap (InternalTags \cup UnfitKeys) = {}
    BY DEF InternalTags, UnfitKeys
  <2>2. \A i \in 1 .. Len(checked) : checked[i].key \cap (InternalTags \cup UnfitKeys) = {} /\ Fits(checked[i])
    BY <1>7, Zenon
  <2>3. \A i \in 1 .. Len(named) : named[i].key \cap (InternalTags \cup UnfitKeys) = {} /\ Fits(named[i])
    BY <1>8, <2>1, <2>2, Zenon DEF HasInserted
  <2>4. \A i \in 1 .. Len(t) : Fits(t[i])
    BY <1>9, <2>1, <2>3, Zenon DEF HasInserted
  <2> QED
    BY <1>1, <1>10, <2>4, Zenon
<1>13. ASSUME \A n \in DOMAIN e.tags : ~e.tags[n].null
       PROVE  /\ e.server_name # {} => has(TagPair({"server_name"}, e.server_name))
              /\ e.site # {} => has(TagPair({"site"}, e.site))
              /\ \A n \in DOMAIN e.tags :
                   /\ first(n) /\ e.tags[n].key = {"environment"} /\ e.tags[n].value # {} => d.environment # {}
                   /\ first(n) /\ e.tags[n].key \cap sent = {} =>
                        has(TagPair(e.tags[n].key \ UnfitKeys, e.tags[n].value \ UnfitValues))
  <2>1. NoNull(e.tags) /\ NoNull(rest) /\ NoNull(kept) /\ NoNull(checked) /\ NoNull(named)
    <3>1. NoNull(e.tags)
      BY <1>10, <1>13, Zenon DEF NoNull, IsTag
    <3> QED
      BY <1>3, <1>6, <1>7, <1>8, <3>1, Zenon DEF HasInserted
  <2>2. ASSUME NEW tag, e.site = {} \/ tag.key # {"site"}, \E j \in 1 .. Len(named) : named[j] = tag PROVE has(tag)
    <3>1. PICK i \in 1 .. Len(named) : named[i] = tag
      BY <2>2
    <3>2. PICK j \in 1 .. Len(t) : t[j] = named[i]
      BY <1>9, <2>1, <2>2, <3>1, Zenon DEF HasInserted
    <3> QED
      BY <1>1, <1>10, <3>1, <3>2, Zenon
  <2>3. e.server_name # {} => has(TagPair({"server_name"}, e.server_name))
    <3>1. TagPair({"server_name"}, e.server_name).key # {"site"}
      BY DEF TagPair
    <3> QED
      BY <1>8, <2>1, <2>2, <3>1, Zenon DEF HasInserted
  <2>4. e.site # {} => has(TagPair({"site"}, e.site))
    BY <1>1, <1>9, <1>10, <2>1, Zenon DEF HasInserted
  <2>5. ASSUME NEW n \in DOMAIN e.tags, first(n), e.tags[n].key = {"environment"}, e.tags[n].value # {}
        PROVE  d.environment # {}
    <3>1. n \in Keyed(e.tags, "environment")
      BY <2>5, Zenon DEF Keyed
    <3>2. n \in PositionOf(e.tags, "environment")
      BY <2>1, <3>1, TagPosition
    <3>3. TagTaken(e.tags, "environment") # {}
      <4>1. PICK v : v \in e.tags[n].value
        BY <2>5
      <4>2. v \in TagTaken(e.tags, "environment")
        BY <3>2, <4>1, Zenon DEF TagTaken
      <4> QED
        BY <4>2
    <3> QED
      BY <1>1, <3>3
  <2>6. ASSUME NEW n \in DOMAIN e.tags, first(n), e.tags[n].key \cap sent = {}
        PROVE  has(TagPair(e.tags[n].key \ UnfitKeys, e.tags[n].value \ UnfitValues))
    <3> DEFINE pair == TagPair(e.tags[n].key \ UnfitKeys, e.tags[n].value \ UnfitValues)
    <3>1. /\ e.tags[n].key # {"environment"} /\ e.tags[n].key \cap InternalTags = {}
          /\ e.server_name # {} => "server_name" \notin e.tags[n].key
          /\ e.site # {} => "site" \notin e.tags[n].key
      BY <2>6 DEF MovedTags
    <3>2. PICK m \in 1 .. Len(rest) : rest[m] = e.tags[n] /\ ~Repeats(rest, m)
      BY <1>2, <1>10, <2>1, <2>6, <3>1
    <3>3. ~Skipped(rest, m)
      BY <3>1, <3>2, Zenon DEF Skipped
    <3>4. PICK i \in 1 .. Len(kept) : kept[i] = e.tags[n]
      BY <1>5, <3>2, <3>3, Zenon
    <3>5. i \in 1 .. Len(checked) /\ checked[i] = pair
      BY <1>7, <2>1, <3>4, Zenon
    <3>6. pair.key = e.tags[n].key \ UnfitKeys
      BY DEF TagPair
    <3>7. (e.server_name = {} \/ pair.key # {"server_name"}) /\ (e.site = {} \/ pair.key # {"site"})
      BY <3>1, <3>6
    <3> HIDE DEF pair
    <3>8. \E j \in 1 .. Len(named) : named[j] = pair
      BY <1>8, <2>1, <3>5, <3>7, Zenon DEF HasInserted
    <3>9. has(pair)
      BY <2>2, <3>7, <3>8
    <3> QED
      BY <3>9 DEF pair
  <2> QED
    BY <2>3, <2>4, <2>5, <2>6, Zenon
<1> QED
  BY <1>11, <1>12, <1>13, Zenon DEF HasUniqueTags, d

LEMMA MeasurementsNormalized ==
  ASSUME NEW e, e = [f \in EventFields |-> e[f]]
  PROVE  LET d == normalize_measurements(e)
         IN  Alike(d, e, {"measurements"}) /\ d.measurements = (e.measurements /\ e.ty = {"Transaction"})
<1> DEFINE d == normalize_measurements(e)
           some == e.measurements /\ e.ty = {"Transaction"}
<1>1. d = [e EXCEPT !.measurements = some]
  BY Zenon DEF normalize_measurements, EventFields
<1> HIDE DEF d, some
<1>2. d = [f \in EventFields |-> IF f = "measurements" THEN some ELSE e[f]]
  BY <1>1 DEF EventFields
<1>3. d = [f \in EventFields |-> d[f]] /\ (\A f \in EventFields \ {"measurements"} : d[f] = e[f]) /\ d.measurements = some
  BY <1>2 DEF EventFields
<1> QED
  BY <1>3 DEF Alike, d, some

(* What a stored event has of the times it had before.                     *)
KeepsTimes(d, e) ==
  /\ InOrder(e) => InOrder(d)
  /\ (\A n \in DOMAIN e.spans : InOrder(e.spans[n])) => \A n \in DOMAIN d.spans : InOrder(d.spans[n])
  /\ e.timestamp # {} => d.timestamp # {} /\ Durations(d) = Durations(e)

LEMMA TimesNormalized ==
  ASSUME NEW e, IsEvent(e), NEW at \in Int
  PROVE  LET d == normalize_timestamps(e, at)
         IN  /\ IsEvent(d) /\ Alike(d, e, {"timestamp", "start_timestamp", "spans"}) /\ KeepsTimes(d, e)
             /\ \E t \in d.timestamp : at - MaxSecsInPast <= t /\ t <= at + MaxSecsInFuture
<1> DEFINE d == normalize_timestamps(e, at)
           out == OutOfRange(e, at)
           m == Corrected(e, out, at, 0)
           end == IF m.timestamp = {} THEN {at} ELSE m.timestamp
<1>1. IsTime(e.timestamp) /\ IsTime(out)
  <2>1. IsTime(e.timestamp) /\ out \in SUBSET e.timestamp
    BY DEF IsEvent, OutOfRange
  <2>2. \A t \in Int : e.timestamp = {t} => out = {} \/ out = {t}
    BY <2>1
  <2>3. e.timestamp = {} => out = {}
    BY <2>1
  <2> HIDE DEF out
  <2> QED
    BY <2>1, <2>2, <2>3 DEF IsTime
<1>2. \/ m = e /\ out = {}
      \/ \E s \in out : out = {s} /\ at - s \in Int /\ IsMoved(m, e, at - s)
  BY <1>1, CorrectedIs
<1>3. d = [m EXCEPT !.timestamp = end]
  BY Zenon DEF normalize_timestamps
<1> HIDE DEF m, d
<1>4. IsEvent(m) /\ Alike(m, e, {"timestamp", "start_timestamp", "spans"}) /\ KeepsTimes(m, e)
  <2>1. CASE m = e
    BY <2>1 DEF Alike, KeepsTimes, IsEvent
  <2>2. ASSUME NEW s \in out, at - s \in Int, IsMoved(m, e, at - s)
        PROVE  IsEvent(m) /\ Alike(m, e, {"timestamp", "start_timestamp", "spans"}) /\ KeepsTimes(m, e)
    <3>1. IsEvent(m) /\ Alike(m, e, {"timestamp", "start_timestamp", "spans"})
          /\ m.timestamp = Shift(e.timestamp, at - s)
      BY <2>2 DEF IsMoved
    <3>2. e.timestamp # {} => m.timestamp # {}
      BY <1>1, <2>2, <3>1, MovedTime
    <3> QED
      BY <2>2, <3>1, <3>2, MovedKeeps DEF KeepsTimes
  <2> QED
    BY <1>2, <2>1, <2>2
<1>5. \E t \in end : at - MaxSecsInPast <= t /\ t <= at + MaxSecsInFuture
  <2>0. at - MaxSecsInPast <= at /\ at <= at + MaxSecsInFuture
    BY DriftAssumption
  <2>1. CASE m.timestamp = {}
    BY <2>0, <2>1
  <2>2. CASE m.timestamp # {} /\ m = e /\ out = {}
    <3>1. PICK t \in Int : e.timestamp = {t}
      BY <1>1, <2>2 DEF IsTime
    <3>2. ~(t > at + MaxSecsInFuture \/ t < at - MaxSecsInPast)
      BY <2>2, <3>1 DEF OutOfRange
    <3>3. at - MaxSecsInPast <= t /\ t <= at + MaxSecsInFuture
      BY <3>1, <3>2, DriftAssumption
    <3> QED
      BY <2>2, <3>1, <3>3
  <2>3. ASSUME NEW s \in out, at - s \in Int, IsMoved(m, e, at - s)
        PROVE  at \in m.timestamp
    <3>1. e.timestamp = {s} /\ s \in Int
      BY <1>1 DEF OutOfRange, IsTime
    <3>2. m.timestamp = Shift(e.timestamp, at - s)
      BY <2>3 DEF IsMoved
    <3>3. m.timestamp = {s + (at - s)}
      BY <1>1, <2>3, <3>1, <3>2, MovedTime
    <3> QED
      BY <3>1, <3>3
  <2> QED
    BY <1>2, <2>0, <2>1, <2>2, <2>3
<1> HIDE DEF end, out
<1>6. /\ d = [f \in EventFields |-> IF f = "timestamp" THEN end ELSE m[f]]
  BY <1>3, <1>4 DEF EventFields, IsEvent
<1>7. d.timestamp = end /\ d.start_timestamp = m.start_timestamp /\ d.spans = m.spans
  BY <1>6 DEF EventFields
<1>8. IsTime(end) /\ (m.timestamp # {} => end = m.timestamp)
  BY <1>4 DEF end, IsEvent, IsTime
<1>9. IsEvent(d) /\ Alike(d, e, {"timestamp", "start_timestamp", "spans"})
  BY <1>4, <1>6, <1>7, <1>8 DEF IsEvent, Alike
<1>10. KeepsTimes(d, e)
  <2>1. InOrder(m) => InOrder(d)
    BY <1>7, <1>8 DEF InOrder
  <2>2. m.timestamp # {} => Durations(d) = Durations(m)
    BY <1>7, <1>8 DEF Durations
  <2> QED
    BY <1>4, <1>7, <1>8, <2>1, <2>2 DEF KeepsTimes
<1> QED
  BY <1>5, <1>7, <1>9, <1>10 DEF d

LEMMA EventFinalized ==
  ASSUME NEW e, IsEvent(e), NEW at \in Int, NEW sent_at, IsTime(sent_at)
  PROVE  LET d == Finalized(e, sent_at, at)
         IN  /\ IsEvent(d) /\ Alike(d, e, {"timestamp", "start_timestamp", "spans"})
             /\ e.timestamp # {} => d.timestamp # {} /\ Durations(d) = Durations(e)
<1> DEFINE sent == SentAt(e, sent_at)
           d == Finalized(e, sent_at, at)
<1>1. IsTime(sent) /\ IsTime(e.timestamp)
  BY DEF SentAt, IsEvent, IsTime
<1>2. d = Corrected(e, sent, at, MinimumClockDrift)
  BY DEF Finalized
<1> HIDE DEF d, sent
<1>3. d = e \/ \E s \in sent : at - s \in Int /\ IsMoved(d, e, at - s)
  BY <1>1, <1>2, CorrectedIs, DriftAssumption
<1>4. CASE d = e
  BY <1>4 DEF IsEvent, Alike, d
<1>5. ASSUME NEW s, at - s \in Int, IsMoved(d, e, at - s)
      PROVE  /\ IsEvent(d) /\ Alike(d, e, {"timestamp", "start_timestamp", "spans"})
             /\ e.timestamp # {} => d.timestamp # {} /\ Durations(d) = Durations(e)
  <2>1. IsEvent(d) /\ Alike(d, e, {"timestamp", "start_timestamp", "spans"})
        /\ d.timestamp = Shift(e.timestamp, at - s)
    BY <1>5 DEF IsMoved
  <2> QED
    BY <1>1, <1>5, <2>1, MovedKeeps, MovedTime
<1> QED
  BY <1>3, <1>4, <1>5 DEF d

-----------------------------------------------------------------------------
(* What is stored of an event.                                             *)

(* An event whose attributes have some value, or none. Its type is its own *)
(* business: none of its interfaces makes it a transaction.                *)
IsReceived(e) ==
  /\ IsEvent(e)
  /\ e.release \in {{}, {""}, {"ok"}, {"bad"}}
  /\ e.security # "Transaction" /\ e.exceptions \in BOOLEAN /\ e.measurements \in BOOLEAN
  /\ e.user_ip = {} \/ \E ip : e.user_ip = {ip}
  /\ e.http_ip = {} \/ \E ip : e.http_ip = {ip}
  /\ IsTags(e.tags) /\ \A n \in 1 .. Len(e.tags) : IsTag(e.tags[n])

(* EventsAreNormalized: what is stored of any event has a timestamp in the *)
(* accepted range and, if it is a transaction, starts that do not come     *)
(* after their ends, with the durations that were sent; its attributes fit *)
(* together, its addresses are resolved and its tags have different keys   *)
(* that are neither internal nor unfit, with what fits of the first value  *)
(* that was sent for each unless an entry of the list is null: for all     *)
(* timestamps, limits and lists of tags, whether and whenever it says that *)
(* it was sent (ClockDriftProcessor, TransactionsProcessor,                *)
(* NormalizeProcessor::process_event). The drift of a clock may be         *)
(* corrected twice.                                                        *)
THEOREM EventsAreNormalized ==
  ASSUME NEW event, IsReceived(event), NEW sent_at, IsTime(sent_at), NEW received_at \in Int,
         NEW client_ip, client_ip = {} \/ \E ip : client_ip = {ip} /\ ip # "auto",
         NEW stored \in Stored(event, client_ip, sent_at, received_at)
  PROVE  /\ HasSaneTimes(stored, event, received_at)
         /\ HasFittingAttributes(stored)
         /\ HasResolvedAddresses(stored, event, client_ip)
         /\ HasUniqueTags(stored, event)
<1> DEFINE Times == {"timestamp", "start_timestamp", "spans"}
           final == Finalized(event, sent_at, received_at)
           reported == normalize_security_report(final, client_ip)
           addressed == normalize_ip_addresses(reported, client_ip)
           valid == ValidateAttributes(addressed)
           released == normalize_release_dist(valid)
           timed == normalize_timestamps(released, received_at)
           tagged == normalize_event_tags(timed)
<1>1. ValidTransaction(final) /\ stored = normalize_measurements(tagged)
  BY Zenon DEF Stored, NormalizeProcessor
<1>2. /\ IsEvent(final) /\ Alike(final, event, Times)
      /\ event.timestamp # {} => final.timestamp # {} /\ Durations(final) = Durations(event)
  BY EventFinalized DEF IsReceived
<1> HIDE DEF final
<1>3. /\ Alike(reported, final, {"user_ip"})
      /\ reported.user_ip = IF final.security = "none" \/ client_ip = {} THEN final.user_ip ELSE client_ip
  BY <1>2, ReportNormalized DEF IsEvent
<1> HIDE DEF reported
<1>4. /\ Alike(addressed, reported, {"user_ip", "http_ip"})
      /\ addressed.http_ip = Resolved(reported.http_ip, client_ip)
      /\ addressed.user_ip = UserAddress(Resolved(reported.user_ip, client_ip), Resolved(reported.http_ip, client_ip),
                                         IF reported.platform = {"javascript"} THEN client_ip ELSE {})
  BY <1>3, AddressesNormalized DEF Alike
<1> HIDE DEF addressed
<1>5. /\ Alike(valid, addressed, {"ty", "release", "environment", "platform"})
      /\ valid.ty = {infer_event_type(addressed)} /\ valid.release = addressed.release \ {"bad"}
  BY <1>4, AttributesValidated DEF Alike
<1> HIDE DEF valid
<1>6. Alike(released, valid, {"dist"}) /\ released.dist = IF valid.release \subseteq {""} THEN {} ELSE valid.dist
  BY <1>5, DistNormalized DEF Alike
<1> HIDE DEF released
<1> DEFINE A == {"user_ip"} \cup {"user_ip", "http_ip"} \cup {"ty", "release", "environment", "platform"} \cup {"dist"}
<1>7. Alike(released, final, A) /\ A \cap Times = {}
  <2>1. Alike(addressed, final, {"user_ip"} \cup {"user_ip", "http_ip"})
    BY <1>3, <1>4, AlikeThrough
  <2>2. Alike(valid, final, {"user_ip"} \cup {"user_ip", "http_ip"} \cup {"ty", "release", "environment", "platform"})
    BY <1>5, <2>1, AlikeThrough
  <2>3. Alike(released, final, A)
    BY <1>6, <2>2, AlikeThrough
  <2> QED
    BY <2>3
<1>8. /\ IsEvent(released) /\ Durations(released) = Durations(final) /\ released.timestamp = final.timestamp
      /\ InOrder(released) <=> InOrder(final)
      /\ released.spans = final.spans
  BY <1>2, <1>7, AlikeIsEvent
<1>9. /\ IsEvent(timed) /\ Alike(timed, released, Times) /\ KeepsTimes(timed, released)
      /\ \E t \in timed.timestamp : received_at - MaxSecsInPast <= t /\ t <= received_at + MaxSecsInFuture
  BY <1>8, TimesNormalized
<1> HIDE DEF timed
<1>10. Alike(tagged, timed, {"environment", "tags", "server_name", "site"})
  BY <1>9, TagsNormalized DEF IsEvent
<1> HIDE DEF tagged
<1>11. /\ Alike(stored, tagged, {"measurements"})
       /\ stored.measurements = (tagged.measurements /\ tagged.ty = {"Transaction"})
  BY <1>1, <1>10, MeasurementsNormalized DEF Alike
<1> DEFINE B == {"environment", "tags", "server_name", "site"} \cup {"measurements"}
<1>12. Alike(stored, timed, B) /\ B \cap Times = {}
  <2>1. Alike(stored, timed, B)
    BY <1>10, <1>11, AlikeThrough
  <2> QED
    BY <2>1
<1>13. /\ Durations(stored) = Durations(timed) /\ stored.timestamp = timed.timestamp
       /\ InOrder(stored) <=> InOrder(timed)
       /\ stored.spans = timed.spans
  BY <1>9, <1>12, AlikeIsEvent
(* The attributes that are still those of the event that was received.     *)
<1>14. final.security = event.security /\ final.exceptions = event.exceptions /\ final.ty = event.ty
       /\ final.release = event.release /\ final.user_ip = event.user_ip /\ final.http_ip = event.http_ip
  BY <1>2 DEF Alike, EventFields
<1>15. /\ addressed.security = event.security /\ addressed.exceptions = event.exceptions /\ addressed.ty = event.ty
       /\ addressed.release = event.release /\ reported.http_ip = event.http_ip
       /\ reported.user_ip = IF event.security = "none" \/ client_ip = {} THEN event.user_ip ELSE client_ip
  BY <1>3, <1>4, <1>14 DEF Alike, EventFields
<1>16. /\ stored.ty = valid.ty /\ stored.release = valid.release /\ stored.dist = released.dist
       /\ stored.security = event.security /\ stored.exceptions = event.exceptions
       /\ stored.user_ip = addressed.user_ip /\ stored.http_ip = addressed.http_ip
       /\ tagged.ty = stored.ty
  <2> DEFINE F == {"ty", "release", "dist", "security", "exceptions", "user_ip", "http_ip"}
  <2>1. \A f \in F : stored[f] = tagged[f]
    BY <1>11 DEF Alike, EventFields
  <2>2. \A f \in F : tagged[f] = timed[f]
    BY <1>10 DEF Alike, EventFields
  <2>3. \A f \in F : timed[f] = released[f]
    BY <1>9 DEF Alike, EventFields
  <2>4. \A f \in F \ {"dist"} : released[f] = valid[f]
    BY <1>6 DEF Alike, EventFields
  <2>5. \A f \in F \ {"ty", "release", "dist"} : valid[f] = addressed[f]
    BY <1>5 DEF Alike, EventFields
  <2> QED
    BY <1>15, <2>1, <2>2, <2>3, <2>4, <2>5
<1>17. HasFittingAttributes(stored)
  <2>1. stored.dist # {} => stored.release = {"ok"}
    <3>1. event.release \in {{}, {""}, {"ok"}, {"bad"}}
      BY DEF IsReceived
    <3>2. stored.release = event.release \ {"bad"} /\ (stored.release \subseteq {""} => stored.dist = {})
      BY <1>5, <1>6, <1>15, <1>16
    <3> QED
      BY <3>1, <3>2
  <2>2. stored.measurements => stored.ty = {"Transaction"}
    BY <1>11, <1>16
  <2>3. stored.ty = {"Csp"} => stored.security = "Csp" /\ ~stored.exceptions
    BY <1>5, <1>15, <1>16 DEF infer_event_type
  <2> QED
    BY <2>1, <2>2, <2>3 DEF HasFittingAttributes
<1>18. HasSaneTimes(stored, event, received_at)
  <2>1. stored.ty = {"Transaction"} => InOrder(stored) /\ \A n \in DOMAIN stored.spans : InOrder(stored.spans[n])
    <3> SUFFICES ASSUME stored.ty = {"Transaction"}
                 PROVE  InOrder(stored) /\ \A n \in DOMAIN stored.spans : InOrder(stored.spans[n])
      OBVIOUS
    <3>1. final.ty = {"Transaction"}
      <4>1. infer_event_type(addressed) = "Transaction"
        BY <1>5, <1>16
      <4> QED
        BY <1>14, <1>15, <4>1 DEF infer_event_type, IsReceived
    <3>2. InOrder(final) /\ \A n \in DOMAIN final.spans : InOrder(final.spans[n])
      BY <1>1, <3>1 DEF ValidTransaction, ValidSpan
    <3>3. InOrder(timed) /\ \A n \in DOMAIN timed.spans : InOrder(timed.spans[n])
      BY <1>8, <1>9, <3>2 DEF KeepsTimes
    <3> QED
      BY <1>13, <3>3
  <2>2. event.timestamp # {} => Durations(stored) = Durations(event)
    BY <1>2, <1>8, <1>9, <1>13 DEF KeepsTimes
  <2> QED
    BY <1>9, <1>13, <2>1, <2>2 DEF HasSaneTimes
<1>19. HasResolvedAddresses(stored, event, client_ip)
  <2> SUFFICES ASSUME client_ip # {} PROVE HasResolvedAddresses(stored, event, client_ip)
    BY DEF HasResolvedAddresses
  <2>1. PICK ip : client_ip = {ip} /\ ip # "auto"
    OBVIOUS
  <2>2. \A option : (option = {} \/ \E x : option = {x}) =>
          "auto" \notin Resolved(option, client_ip) /\ (option \notin {{}, {"auto"}} => Resolved(option, client_ip) = option)
          /\ (option = {} => Resolved(option, client_ip) = {})
    BY <2>1 DEF Resolved
  <2>3. (event.user_ip = {} \/ \E x : event.user_ip = {x}) /\ (event.http_ip = {} \/ \E x : event.http_ip = {x})
    BY DEF IsReceived
  <2>4. reported.user_ip = {} \/ \E x : reported.user_ip = {x}
    BY <1>15, <2>1, <2>3
  <2> DEFINE user == Resolved(reported.user_ip, client_ip)
             http == Resolved(event.http_ip, client_ip)
             backfill == IF reported.platform = {"javascript"} THEN client_ip ELSE {}
  <2>5. /\ "auto" \notin user /\ "auto" \notin http /\ "auto" \notin backfill
        /\ event.http_ip \notin {{}, {"auto"}} => http = event.http_ip
        /\ reported.user_ip \notin {{}, {"auto"}} => user = reported.user_ip
        /\ reported.user_ip = {} => user = {}
    BY <2>1, <2>2, <2>3, <2>4
  <2>6. stored.http_ip = http /\ stored.user_ip = UserAddress(user, http, backfill)
    BY <1>4, <1>15, <1>16
  <2> HIDE DEF user, http, backfill
  <2>7. "auto" \notin stored.user_ip \cup stored.http_ip
    BY <2>5, <2>6 DEF UserAddress
  <2>8. ASSUME stored.security = "none", event.user_ip \notin {{}, {"auto"}} PROVE stored.user_ip = event.user_ip
    <3>1. reported.user_ip = event.user_ip
      BY <1>15, <1>16, <2>8
    <3> QED
      BY <2>5, <2>6, <2>8, <3>1 DEF UserAddress
  <2>9. ASSUME stored.security = "none", event.user_ip = {}, event.http_ip \notin {{}, {"auto"}}
        PROVE  stored.user_ip = event.http_ip
    <3>1. reported.user_ip = event.user_ip
      BY <1>15, <1>16, <2>9
    <3> QED
      BY <2>5, <2>6, <2>9, <3>1 DEF UserAddress
  <2> QED
    BY <2>7, <2>8, <2>9 DEF HasResolvedAddresses
<1>20. HasUniqueTags(stored, event)
  <2> DEFINE F == {"tags", "server_name", "site"}
  <2>1. \A f \in F : final[f] = event[f]
    BY <1>2 DEF Alike, EventFields
  <2>2. \A f \in F : released[f] = final[f]
    BY <1>7 DEF Alike, EventFields
  <2>3. \A f \in F : timed[f] = released[f]
    BY <1>9 DEF Alike, EventFields
  <2>4. timed.tags = event.tags /\ timed.server_name = event.server_name /\ timed.site = event.site
    BY <2>1, <2>2, <2>3
  <2>5. IsTags(timed.tags) /\ \A n \in 1 .. Len(timed.tags) : IsTag(timed.tags[n])
    BY <2>4 DEF IsReceived
  <2>6. HasUniqueTags(tagged, timed)
    BY <1>9, <2>5, TagsAreUnique DEF IsEvent, tagged
  <2>7. stored.tags = tagged.tags /\ stored.environment = tagged.environment
    BY <1>11 DEF Alike, EventFields
  <2> QED
    BY <2>4, <2>6, <2>7, TagsOfFields
<1> QED
  BY <1>17, <1>18, <1>19, <1>20

=============================================================================
