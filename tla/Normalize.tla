----------------------------- MODULE Normalize ------------------------------
(***************************************************************************)
(* What happens to an event before it is stored: the correction of clock   *)
(* drift, the checks on transactions and the normalization of attributes   *)
(* that depend on each other, in relay-general/src/store and in            *)
(* EnvelopeProcessor::finalize_event.                                      *)
(*                                                                         *)
(* Timestamps are integers. A value of type Option is a set with at most   *)
(* one element. A release, an environment or a platform is "ok", "bad" (it *)
(* does not pass validation) or, but for a platform, "" (empty).           *)
(***************************************************************************)
EXTENDS Integers, Sequences, SequencesExt, FiniteSetsExt

CONSTANTS
  MinimumClockDrift,      \* MINIMUM_CLOCK_DRIFT
  MaxSecsInFuture,        \* config.max_secs_in_future()
  MaxSecsInPast           \* config.max_secs_in_past()

ASSUME DriftAssumption == MinimumClockDrift \in Nat /\ MaxSecsInFuture \in Nat /\ MaxSecsInPast \in Nat

Abs(n) == IF n < 0 THEN -n ELSE n
Shift(option, by) == {t + by : t \in option}

-----------------------------------------------------------------------------
(* ClockDriftProcessor: the drift is added to all timestamps of the event. *)

MovedSpan(span, by) == [span EXCEPT !.start_timestamp = Shift(@, by), !.timestamp = Shift(@, by)]

Moved_Outer(event, by) == [event EXCEPT !.timestamp = Shift(@, by), !.start_timestamp = Shift(@, by)]

Moved(event, by) ==
  [event EXCEPT !.timestamp = Shift(@, by), !.start_timestamp = Shift(@, by),
                !.spans = [n \in DOMAIN @ |-> MovedSpan(@[n], by)]]

Corrected(event, sent_at, received_at, at_least) ==
  LET drift == {received_at - s : s \in sent_at}
  IN  IF \A d \in drift : Abs(d) < at_least THEN event ELSE Moved(event, CHOOSE d \in drift : TRUE)

(* finalize_event: a transaction without a time of sending was sent when   *)
(* it ended.                                                               *)
SentAt(event, sent_at) ==
  IF sent_at # {} THEN sent_at
  ELSE IF event.ty = {"Transaction"} THEN event.timestamp ELSE {}

Finalized(event, sent_at, received_at) ==
  Corrected(event, SentAt(event, sent_at), received_at, MinimumClockDrift)

-----------------------------------------------------------------------------
(* TransactionsProcessor: whether the event is valid, which all events but *)
(* transactions are.                                                       *)

InOrder(x) ==
  /\ x.start_timestamp # {} /\ x.timestamp # {}
  /\ \A start \in x.start_timestamp, end \in x.timestamp : start <= end

ValidSpan(span) == InOrder(span) /\ span.ids

ValidTransaction(event) ==
  event.ty = {"Transaction"} =>
    /\ InOrder(event)
    /\ event.trace = "ok"                 \* with trace_id and span_id
    /\ \A n \in DOMAIN event.spans : ValidSpan(event.spans[n])

-----------------------------------------------------------------------------
(* NormalizeProcessor                                                      *)

normalize_security_report(event, client_ip) ==
  IF event.security = "none" \/ client_ip = {} THEN event
  ELSE [event EXCEPT !.user_ip = client_ip]

(* normalize_ip_addresses: first {{auto}} is resolved, then the address of *)
(* the request or of the client becomes the user's.                        *)
Resolved(ip, client_ip) == IF client_ip # {} /\ ip = {"auto"} THEN client_ip ELSE ip

normalize_ip_addresses_Late(event, client_ip) ==
  LET http_ip == event.http_ip
      user_ip == event.user_ip
      backfill == IF event.platform = {"javascript"} THEN client_ip ELSE {}
  IN  [event EXCEPT !.http_ip = Resolved(http_ip, client_ip),
                    !.user_ip = IF user_ip # {} THEN user_ip
                                ELSE IF http_ip # {} THEN http_ip ELSE backfill]

normalize_ip_addresses(event, client_ip) ==
  LET http_ip == Resolved(event.http_ip, client_ip)
      user_ip == Resolved(event.user_ip, client_ip)
      backfill == IF event.platform = {"javascript"} THEN client_ip ELSE {}
  IN  [event EXCEPT !.http_ip = http_ip,
                    !.user_ip = IF user_ip # {} THEN user_ip
                                ELSE IF http_ip # {} THEN http_ip ELSE backfill]

infer_event_type(event) ==
  IF event.ty = {"Transaction"} THEN "Transaction"
  ELSE IF event.exceptions THEN "Error"
  ELSE IF event.security # "none" THEN event.security
  ELSE "Default"

(* The type is set and attributes that are not valid are removed.          *)
ValidateAttributes(event) ==
  [event EXCEPT !.ty = {infer_event_type(event)},
                !.release = @ \ {"bad"},
                !.environment = @ \ {"bad"},
                !.platform = IF @ \subseteq {"bad"} THEN {"other"} ELSE @]

normalize_release_dist_Missing(event) ==
  [event EXCEPT !.dist = IF event.release = {} THEN {} ELSE @]

normalize_release_dist(event) ==
  [event EXCEPT !.dist = IF event.release \subseteq {""} THEN {} ELSE @]

(* An event too far in the future or in the past is moved to the time at   *)
(* which it was received, as if its clock had drifted by the difference.   *)
OutOfRange(event, received_at) ==
  {t \in event.timestamp : t > received_at + MaxSecsInFuture \/ t < received_at - MaxSecsInPast}

normalize_timestamps(event, received_at) ==
  LET moved == Corrected(event, OutOfRange(event, received_at), received_at, 0)
  IN  [moved EXCEPT !.timestamp = IF @ = {} THEN {received_at} ELSE @]

(* normalize_event_tags: an entry of the list is null or a pair of an      *)
(* optional key and an optional value. A text is empty, "long" (more than  *)
(* TagKey allows), "longer" (more than TagValue allows) or fits.           *)
TagPair(key, value) == [null |-> FALSE, key |-> key, value |-> value]
NullTag == [null |-> TRUE, key |-> {}, value |-> {}]

InternalTags == {"release", "dist", "user", "filename", "function"}
UnfitKeys == {"", "long", "longer"}
UnfitValues == {"", "longer"}

Keyed(tags, key) == {n \in DOMAIN tags : tags[n].key = {key} /\ \A m \in 1 .. n - 1 : tags[m].key # {key}}

(* PairList::position counts the entries that are not null; remove and     *)
(* insert take what it returns as an index among all entries.              *)
PositionOf(tags, key) == {Cardinality({m \in 1 .. n : ~tags[m].null}) : n \in Keyed(tags, key)}

TagTaken(tags, key) == UNION {tags[n].value : n \in PositionOf(tags, key)}

TagRemoved(tags, key) ==
  LET at == CHOOSE n \in PositionOf(tags, key) : TRUE
  IN  IF PositionOf(tags, key) = {} THEN tags
      ELSE [n \in 1 .. Len(tags) - 1 |-> IF n < at THEN tags[n] ELSE tags[n + 1]]

TagsDeduplicated(tags) ==
  LET repeats(n) == \E m \in 1 .. n - 1 : ~tags[m].null /\ tags[m].key = tags[n].key
      dropped(n) == ~tags[n].null /\ (tags[n].key \cap InternalTags # {} \/ repeats(n))
      kept[n \in 0 .. Len(tags)] ==
        IF n = 0 THEN <<>> ELSE IF dropped(n) THEN kept[n - 1] ELSE Append(kept[n - 1], tags[n])
  IN  kept[Len(tags)]

(* An error takes the place of a key or a value that does not fit.         *)
TagsChecked(tags) ==
  [n \in DOMAIN tags |->
     IF tags[n].null THEN tags[n] ELSE TagPair(tags[n].key \ UnfitKeys, tags[n].value \ UnfitValues)]

TagInserted_Pushed(tags, key, option) ==
  IF option = {} THEN tags ELSE Append(tags, TagPair({key}, option))

TagInserted(tags, key, option) ==
  LET at == PositionOf(tags, key)
  IN  IF option = {} THEN tags
      ELSE IF at = {} THEN Append(tags, TagPair({key}, option))
      ELSE [n \in DOMAIN tags |->
              IF n \in at /\ ~tags[n].null THEN TagPair(tags[n].key, option) ELSE tags[n]]

normalize_event_tags(event) ==
  LET environment == event.environment \ {""}
      tags == TagsChecked(TagsDeduplicated(TagRemoved(event.tags, "environment")))
  IN  [event EXCEPT
         !.environment = IF environment = {} THEN TagTaken(event.tags, "environment") ELSE environment,
         !.tags = TagInserted(TagInserted(tags, "server_name", event.server_name), "site", event.site),
         !.server_name = {},
         !.site = {}]

normalize_measurements(event) ==
  [event EXCEPT !.measurements = @ /\ event.ty = {"Transaction"}]

(* NormalizeProcessor::process_event                                       *)
NormalizeProcessor(event, client_ip, received_at) ==
  LET attributes == ValidateAttributes(
                      normalize_ip_addresses(normalize_security_report(event, client_ip), client_ip))
  IN  normalize_measurements(normalize_event_tags(
        normalize_timestamps(normalize_release_dist(attributes), received_at)))

(* What is stored of an event: nothing, or the event.                      *)
Stored(event, client_ip, sent_at, received_at) ==
  LET final == Finalized(event, sent_at, received_at)
  IN  IF ValidTransaction(final) THEN {NormalizeProcessor(final, client_ip, received_at)} ELSE {}

-----------------------------------------------------------------------------
(* Breakdowns of the time that a transaction spent in operations, in       *)
(* store/normalize/breakdowns.rs. An operation of the configuration is the *)
(* set of the names that start with it.                                    *)

(* TimeWindowSpan::new                                                     *)
TimeWindowSpan(start, end) ==
  IF end < start THEN [start |-> end, end |-> start] ELSE [start |-> start, end |-> end]

(* The loop of get_op_time_spent over intervals in the order of their      *)
(* start, with the time that was spent before the interval that they were  *)
(* merged to last.                                                         *)
MergedEnd_Last(last, current) == current.end

MergedEnd(last, current) == Max({last.end, current.end})

Merged(sofar, current) ==
  IF sofar.last.end < current.start
  THEN [spent |-> sofar.spent + (sofar.last.end - sofar.last.start), last |-> current]
  ELSE [sofar EXCEPT !.last.end = MergedEnd(sofar.last, current)]

get_op_time_spent(intervals) ==
  LET sorted == SortSeq(intervals, LAMBDA a, b : a.start < b.start)
      end == FoldLeft(Merged, [spent |-> 0, last |-> Head(sorted)], Tail(sorted))
  IN  end.spent + (end.last.end - end.last.start)

(* SpanOperationsConfig::emit_breakdowns. The operation of a span is that  *)
(* of the first entry that it starts with, or its own, which is counted    *)
(* but not emitted. Spans without a name or a timestamp are left out.      *)
Complete(span) == span.op # {} /\ span.start # {} /\ span.end # {}

OperationOf(span, config) ==
  LET entries == {n \in DOMAIN config : span.op \subseteq config[n]}
  IN  IF entries = {} THEN [emit |-> FALSE, op |-> span.op] ELSE [emit |-> TRUE, op |-> config[Min(entries)]]

IntervalsOf(spans, config, operation) ==
  LET selected == SelectSeq(spans, LAMBDA s : Complete(s) /\ OperationOf(s, config) = operation)
      some(option) == CHOOSE t \in option : TRUE
  IN  [n \in DOMAIN selected |-> TimeWindowSpan(some(selected[n].start), some(selected[n].end))]

(* The time of every operation that is emitted, and the total.             *)
emit_breakdowns(spans, config) ==
  LET operations == {OperationOf(spans[n], config) : n \in {m \in DOMAIN spans : Complete(spans[m])}}
      time(o) == get_op_time_spent(IntervalsOf(spans, config, o))
  IN  IF config = <<>> \/ operations = {} THEN {}
      ELSE {[ops |-> [o \in {x \in operations : x.emit} |-> time(o)],
             total |-> MapThenSumSet(time, operations)]}

-----------------------------------------------------------------------------
(* What is said of the event that is stored for one that was received.     *)

Lengths(starts, ends) == {end - start : start \in starts, end \in ends}

(* The durations of spans, and how long before the end they began.         *)
Durations(e) ==
  [n \in DOMAIN e.spans |->
     Lengths(e.spans[n].start_timestamp, e.spans[n].timestamp) \cup Lengths(e.spans[n].start_timestamp, e.timestamp)]

(* Its timestamp is in the range that is accepted, a transaction ends      *)
(* after its start and so do its spans, and the correction of clock drift  *)
(* leaves all durations as they were sent.                                 *)
HasSaneTimes(stored, event, received_at) ==
  /\ \E t \in stored.timestamp : received_at - MaxSecsInPast <= t /\ t <= received_at + MaxSecsInFuture
  /\ stored.ty = {"Transaction"} => InOrder(stored) /\ \A n \in DOMAIN stored.spans : InOrder(stored.spans[n])
  /\ event.timestamp # {} => Durations(stored) = Durations(event)

(* A dist needs a valid release, only transactions have measurements, and  *)
(* the type is that of the interfaces.                                     *)
HasFittingAttributes(stored) ==
  /\ stored.dist # {} => stored.release = {"ok"}
  /\ stored.measurements => stored.ty = {"Transaction"}
  /\ stored.ty = {"Csp"} => stored.security = "Csp" /\ ~stored.exceptions

(* With the address of the client no {{auto}} is left, and an address that *)
(* the user or the request has is kept, except in a security report.       *)
HasResolvedAddresses(stored, event, client_ip) ==
  client_ip # {} =>
    /\ "auto" \notin stored.user_ip \cup stored.http_ip
    /\ stored.security = "none" /\ event.user_ip \notin {{}, {"auto"}} => stored.user_ip = event.user_ip
    /\ stored.security = "none" /\ event.user_ip = {} /\ event.http_ip \notin {{}, {"auto"}} =>
         stored.user_ip = event.http_ip

(* What is moved out of the tags, or replaced by an attribute.             *)
MovedTags(event) ==
  {"environment"} \cup (IF event.server_name = {} THEN {} ELSE {"server_name"})
                  \cup (IF event.site = {} THEN {} ELSE {"site"})

(* Tags have different keys, if they have one, none of them internal or    *)
(* unfit, and a value does not fit only if an attribute has it. If no      *)
(* entry was null, server_name, site and environment are not lost, and of  *)
(* all other entries that were first with their key nothing that fits.     *)
HasUniqueTags(stored, event) ==
  LET has(tag) == \E n \in DOMAIN stored.tags : stored.tags[n] = tag
      first(n) == \A m \in 1 .. n - 1 : event.tags[m].key # event.tags[n].key
  IN  /\ \A m, n \in DOMAIN stored.tags :
           stored.tags[m].key = stored.tags[n].key /\ stored.tags[n].key # {} => m = n
      /\ \A n \in DOMAIN stored.tags :
           LET tag == stored.tags[n]
           IN  /\ tag.key \cap (InternalTags \cup UnfitKeys) = {}
               /\ tag.value \cap UnfitValues # {} => tag.value \in {event.server_name, event.site}
      /\ (\A n \in DOMAIN event.tags : ~event.tags[n].null) =>
           /\ event.server_name # {} => has(TagPair({"server_name"}, event.server_name))
           /\ event.site # {} => has(TagPair({"site"}, event.site))
           /\ \A n \in DOMAIN event.tags :
                LET tag == event.tags[n]
                IN  /\ first(n) /\ tag.key = {"environment"} /\ tag.value # {} => stored.environment # {}
                    /\ first(n) /\ tag.key \cap (InternalTags \cup MovedTags(event)) = {} =>
                         has(TagPair(tag.key \ UnfitKeys, tag.value \ UnfitValues))

=============================================================================
