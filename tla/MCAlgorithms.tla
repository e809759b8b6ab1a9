---------------------------- MODULE MCAlgorithms ----------------------------
(***************************************************************************)
(* The pure algorithms of Relay on small inputs. A state is one input; the *)
(* first step chooses the algorithm, the next ones make texts longer.      *)
(***************************************************************************)
EXTENDS EnvelopeFormat, StoreForwarder, Sampling, Redaction, Trimming, Normalize,
        Selectors

CONSTANTS
  MaxText,        \* the longest text of an envelope, in symbols
  MaxItems,       \* items of an envelope for the store
  MaxMajor,       \* the largest major version of a browser
  MaxString,      \* the longest string that is redacted and trimmed
  MaxBag,         \* the largest limit of the size of a databag
  MaxFrames,      \* frames of a stacktrace
  MaxPath,        \* states of a path, the root among them
  Bits, Micros, Nanos,    \* of integers, of a second, of a microsecond
  MaxOriginal,    \* original values in meta data are smaller than this
  MaxSize,        \* bytes of a request with several parts
  TicksPerSecond, \* ticks of a second
  Kilo, Kibi,     \* factors of units of sizes
  MaxU8,          \* the largest part of a version
  MaxAge,         \* ticks after which a signature has expired
  MaxTime         \* timestamps are this far from the time of receipt

VARIABLE input

Start == [of |-> "nothing"]

-----------------------------------------------------------------------------
(* Texts of envelopes.                                                     *)

Header == Object({}, {}, {}, {}, {})
OtherDsn == Object({"other"}, {}, {}, {}, {})
EventHeader == Object({}, {}, {}, {"event"}, {})
SessionHeader == Object({}, {}, {"id"}, {"session"}, {1})

Symbols == {Newline, Byte, Header, OtherDsn, EventHeader, SessionHeader}

Request == [dsn |-> {"dsn"}, origin |-> {}]

EnvelopeText ==
  /\ input = Start
  /\ input' = [of |-> "envelope", text |-> <<>>]

EnvelopeByte ==
  /\ input.of = "envelope"
  /\ Len(input.text) < MaxText
  /\ \E b \in Symbols : input' = [input EXCEPT !.text = Append(@, b)]

(* An envelope that was accepted reads the same after it was written, which *)
(* is what the next Relay does with it: no payload is cut, shifted or run   *)
(* into the next item (Envelope::serialize, parse_request).                 *)
EnvelopeRoundTrip ==
  input.of = "envelope" => RoundTrips(input.text, Request)

(* An accepted envelope is of the project of its request, its items account *)
(* for all text but newlines and headers, and it has an id if one of its    *)
(* items needs one (EnvelopeHeaders::complete, Envelope::parse_request).    *)
EnvelopeComplete ==
  input.of = "envelope" =>
    LET parsed == parse_request(input.text, Request)
        bytes == Len(SelectSeq(input.text, LAMBDA b : b = Byte))
        read == FlattenSeq([n \in DOMAIN parsed.value.items |-> parsed.value.items[n].payload])
    IN  /\ Completes(input.text, Request)
        /\ parsed.ok => Len(SelectSeq(read, LAMBDA b : b = Byte)) = bytes

-----------------------------------------------------------------------------
(* Envelopes for the store.                                                *)

StoreItems ==
  {[ty |-> t] : t \in {"Event", "Transaction", "UserReport"}}
    \cup {[ty |-> "Attachment", size |-> s, rate_limited |-> FALSE] : s \in 0 .. 2 * AttachmentChunkSize}
    \cup {[ty |-> "Session", session |-> s] : s \in {{}, {[id |-> "sid", status |-> "Crashed", errors |-> 0]}}}
    \cup {[ty |-> "Sessions", aggregates |-> {[n \in 1 .. k |->
             [Exited |-> n, Errored |-> 0, Abnormal |-> 1, Crashed |-> 2]]}] : k \in 1 .. MaxExplodedSessions + 1}
    \cup {[ty |-> "MetricBuckets", buckets |-> 2]}

EnvelopeItems ==
  /\ input = Start
  /\ \E id \in {{}, {"id"}, {"nil"}}, n \in 0 .. 8 :
       input' = [of |-> "store", items |-> <<>>, event_id |-> id, fails |-> n]

EnvelopeItem ==
  /\ input.of = "store"
  /\ Len(input.items) < MaxItems
  /\ \E i \in StoreItems : input' = [input EXCEPT !.items = Append(@, i)]

(* All chunks that an event or an attachment tells of are produced before   *)
(* it, in their order and with all bytes, wherever the producer failed. A   *)
(* consumer that reads the message has read them, too, unless the event has *)
(* a nil id, with which they have other keys (Handler<StoreEnvelope>,       *)
(* KafkaMessage::key).                                                      *)
AttachmentsReassemble ==
  input.of = "store" => Reassembles(Produced(input.items, input.event_id, input.fails))

-----------------------------------------------------------------------------
(* Browsers.                                                               *)

Families == DOMAIN MIN_VERSIONS \cup {"IEMobile", "Unknown"}

Browser ==
  /\ input = Start
  /\ \E f \in Families, v \in 0 .. MaxMajor :
       \E major \in {{}, {v}} :
         input' = [of |-> "browser", user_agent |-> {[family |-> f, major |-> major]}]

(* The kinds of legacy browsers of the configuration filter together what   *)
(* "default" filters, but for those that default leaves out: versions 10    *)
(* and 11 of IE (legacy_browsers::matches, MIN_VERSIONS).                   *)
LegacyDefault ==
  input.of = "browser" =>
    (legacy_browsers_matches(input, {"default"})
       <=> legacy_browsers_matches(input, {"ie_pre_9", "ie9", "opera_pre_15", "opera_mini_pre_8",
                                           "android_pre_4", "safari_pre_6"}))

-----------------------------------------------------------------------------
(* Events and sampling rules.                                              *)

Newer(holds) == [op |-> "newer", holds |-> holds]
Leaves ==
  {Newer(TRUE), Newer(FALSE),
   [op |-> "eq", name |-> "event.release", ignore_case |-> TRUE, value |-> Array({"a"})],
   [op |-> "glob", name |-> "trace.release", value |-> {"A"}],
   [op |-> "custom", name |-> "event.legacy_browser", value |-> {"default"}]}

Conditions ==
  LET inner == Leaves \cup {[op |-> "not", inner |-> <<l>>] : l \in Leaves}
  IN  inner \cup {[op |-> o, inner |-> <<a, b>>] : o \in {"and", "or"}, a \in inner, b \in inner}

Providers ==
  {[is |-> "trace", release |-> {r}, environment |-> {}, user_id |-> {}, user_segment |-> {}, random |-> 1] :
     r \in {"a", "A"}}
    \cup {[is |-> "event", ty |-> t, release |-> r, environment |-> {}, user_id |-> {}, user_segment |-> {},
           user_agent |-> {[family |-> "IE", major |-> {m}]}, random |-> {1}] :
            t \in {"Transaction", "Error"}, r \in {{}, {"A"}}, m \in {9, 10}}

RuleTypes == {"trace", "transaction", "error"}

RuleFor(p) ==
  /\ input = Start
  /\ \E c \in Conditions, rate \in {0, 1, Scale}, ty \in RuleTypes :
       input' = [of |-> "rules", provider |-> p,
                 rules |-> <<[id |-> 1, ty |-> ty, sample_rate |-> rate, condition |-> c],
                             [id |-> 2, ty |-> ty, sample_rate |-> 0, condition |-> [op |-> "and", inner |-> <<>>]]>>]

SamplingRules == \E p \in Providers : RuleFor(p)

DecisionOf(rules, processing) ==
  IF input.provider.is = "trace" THEN should_keep_transaction(input.provider, {}, rules, processing)
  ELSE should_keep_event(input.provider, {}, rules, processing)

(* A Relay that cannot read all conditions drops only what every Relay      *)
(* behind it would drop, and by the same rule: it never loses an event that *)
(* an up-to-date Relay would have kept (has_unsupported_rules).             *)
OldRelayAgrees ==
  input.of = "rules" =>
    LET old == [n \in DOMAIN input.rules |->
                  [input.rules[n] EXCEPT !.condition = Deserialized(@)]]
        decision == DecisionOf(old, FALSE)
    IN  decision.is = "Drop" => DecisionOf(input.rules, TRUE) = decision

-----------------------------------------------------------------------------
(* Strings, with two rules for personal data and a limit.                  *)

PiiRules(id, classes, behaviors) ==
  {[id |-> id, class |-> c, replace |-> b, redaction |-> r] :
     c \in classes, b \in behaviors, r \in {"Remove", "Mask", "Hash", "Replace"}}

StringRules ==
  /\ input = Start
  /\ \E first \in PiiRules("r1", {{"a"}}, {"Groups"}),
        second \in PiiRules("r2", {{"b"}, {"a", "b"}}, {"Groups", "Value"}) :
       input' = [of |-> "string", text |-> <<>>, first |-> first, second |-> second]

StringByte ==
  /\ input.of = "string"
  /\ Len(input.text) < MaxString
  /\ \E c \in {"a", "b", "c", Nul} : input' = [input EXCEPT !.text = Append(@, c)]

Once == apply_rule_to_value(input.first, [text |-> input.text, remarks |-> <<>>])
Twice == apply_rule_to_value(input.second, Once)

Has(text, class) == \E n \in DOMAIN text : text[n] \in class

(* The remarks of a string that two rules redacted say exactly what was     *)
(* redacted: they are in their order, the text that they do not cover is    *)
(* the original one without what either rule matched, and the second rule   *)
(* leaves the redactions of the first one as they were, unless it replaced  *)
(* the whole value (apply_regex_to_chunks, join_chunks).                    *)
RemarksExact ==
  input.of = "string" =>
    LET whole == input.second.replace = "Value" /\ Has(Plain(Once), input.second.class)
        hidden == input.first.class \cup input.second.class
        touched == Has(input.text, hidden)
    IN  /\ Ordered(Twice)
        /\ Plain(Twice) =
             IF whole THEN <<>>
             ELSE SelectSeq(input.text, LAMBDA c : c \notin hidden /\ (touched => c # Nul))
        /\ ~whole => SelectSeq(Redactions(Twice), LAMBDA r : r.rule = "r1") = Redactions(Once)

(* A string that is trimmed after a redaction exceeds its limit at most by  *)
(* two characters of the ellipsis, keeps a prefix of the text, and its      *)
(* remarks are still exact (trim_string).                                   *)
TrimBound ==
  input.of = "string" =>
    \A soft \in 0 .. 4, allowance \in {0, 2} :
      LET trimmed == trim_string(Once, soft, allowance)
      IN  /\ Len(trimmed.text) <= Max({soft + allowance, soft + 2, 3})
          /\ Ordered(trimmed)
          /\ IsPrefix(Plain(trimmed), Plain(Once))

-----------------------------------------------------------------------------
(* Databags.                                                               *)

Scalars == {StringOf(5), Number(1)}
SeqsUpTo(S, n) == UNION {[1 .. k -> S] : k \in 0 .. n}
Arrays == {ArrayOf(items) : items \in SeqsUpTo(Scalars, 2)}
Nested == {[ArrayOf(items) EXCEPT !.bag = b] :
             items \in SeqsUpTo(Scalars \cup Arrays, 2),
             b \in {{}} \cup {{[max_depth |-> 2, max_size |-> s]} : s \in {3, 9}}}

(* The limit of the nested databags, which comes on top.                   *)
NestedLimits(items) ==
  MapThenSumSet(LAMBDA n : MapThenSumSet(LAMBDA b : b.max_size, items[n].bag), DOMAIN items)

Databag ==
  /\ input = Start
  /\ \E size \in 0 .. MaxBag, depth \in 1 .. 3 :
       input' = [of |-> "bag", items |-> <<>>, limit |-> [max_depth |-> depth, max_size |-> size]]

DatabagItem ==
  /\ input.of = "bag"
  /\ Len(input.items) < 2
  /\ \E v \in Scalars \cup (IF input.items = <<>> THEN Nested ELSE {}) : input' = [input EXCEPT !.items = Append(@, v)]

(* A databag is no deeper than its limit after it was trimmed. It exceeds   *)
(* the limit of its size at most by the limits of the databags in it, the   *)
(* quotes and ellipsis of the last string and the brackets of the arrays    *)
(* that are still open (TrimmingProcessor).                                 *)
BagBound ==
  input.of = "bag" =>
    LET bag == [ArrayOf(input.items) EXCEPT !.bag = {input.limit}]
        trimmed == process_value(bag, 1, <<>>).value
    IN  /\ DepthOf(trimmed) <= input.limit.max_depth
        /\ JsonSize(trimmed) <= input.limit.max_size + NestedLimits(input.items) + 2 + 2 * input.limit.max_depth

-----------------------------------------------------------------------------
(* Stacktraces.                                                            *)

Frames ==
  /\ input = Start
  /\ input' = [of |-> "frames", frames |-> <<>>]

FrameAdded ==
  /\ input.of = "frames"
  /\ Len(input.frames) < MaxFrames
  /\ \E f \in {"app", "system", "none"} : input' = [input EXCEPT !.frames = Append(@, f)]

(* After a stacktrace was trimmed it has no more frames than its limit, the *)
(* last one is still there, and no more frames than allowed keep their      *)
(* variables and context (enforce_frame_hard_limit, slim_frame_data).       *)
FrameBound ==
  input.of = "frames" =>
    \A limit \in 1 .. MaxFrames, allowance \in 0 .. MaxFrames :
      LET frames == enforce_frame_hard_limit(input.frames, limit)
          full == {n \in DOMAIN frames : frames[n] # "none"} \ Slimmed(frames, allowance)
      IN  /\ Len(frames) <= limit
          /\ frames # <<>> => Last(frames) = Last(input.frames)
          /\ Cardinality(full) <= allowance

-----------------------------------------------------------------------------
(* Events that are normalized, received at time 0.                         *)

Times == {{}} \cup {{t} : t \in -MaxTime .. MaxTime}

Blank ==
  [ty |-> {}, exceptions |-> FALSE, security |-> "none", release |-> {}, dist |-> {}, platform |-> {},
   measurements |-> FALSE, timestamp |-> {}, start_timestamp |-> {}, spans |-> <<>>, trace |-> "none",
   environment |-> {}, tags |-> <<>>, server_name |-> {}, site |-> {},
   user_ip |-> {}, http_ip |-> {}]

TimedEvent ==
  /\ input = Start
  /\ \E ty \in {{}, {"Transaction"}}, trace \in {"ok", "bad"}, sent_at \in Times,
        start \in {{}, {-1}, {1}}, end \in Times, span \in {{}, {-1}, {1}} :
       input' = [of |-> "event", sent_at |-> sent_at, client_ip |-> {},
                 event |-> [Blank EXCEPT !.ty = ty, !.trace = trace, !.start_timestamp = start, !.timestamp = end,
                              !.spans = <<[start_timestamp |-> start, timestamp |-> span, ids |-> TRUE]>>]]

AttributedEvent ==
  /\ input = Start
  /\ \E ty \in {{}, {"Csp"}, {"Error"}}, security \in {"none", "Csp"}, exceptions \in BOOLEAN,
        release \in {{}, {""}, {"ok"}, {"bad"}}, dist \in {{}, {"d"}}, ip \in {{}, {"client"}},
        user_ip \in {{}, {"auto"}, {"user"}}, http_ip \in {{}, {"auto"}, {"http"}},
        platform \in {{}, {"bad"}, {"javascript"}} :
       input' = [of |-> "event", sent_at |-> {}, client_ip |-> ip,
                 event |-> [Blank EXCEPT !.ty = ty, !.security = security, !.exceptions = exceptions,
                              !.release = release, !.dist = dist, !.platform = platform, !.measurements = TRUE,
                              !.user_ip = user_ip, !.http_ip = http_ip]]

TagsSent ==
  {NullTag, TagPair({"environment"}, {}), TagPair({"a"}, {"y"}), TagPair({"a"}, {""}), TagPair({""}, {"x"}),
   TagPair({"long"}, {"longer"}), TagPair({}, {"long"})}
    \cup {TagPair({key}, {"x"}) : key \in {"environment", "release", "server_name", "site", "a"}}

TaggedEvent ==
  /\ input = Start
  /\ \E server \in {{}, {"longer"}}, site \in {{}, {"s"}}, environment \in {{}, {""}, {"prod"}},
        tags \in SeqsUpTo(TagsSent, 3) :
       input' = [of |-> "event", sent_at |-> {}, client_ip |-> {},
                 event |-> [Blank EXCEPT !.server_name = server, !.site = site, !.environment = environment,
                              !.tags = tags]]

StoredEvent == Stored(input.event, input.client_ip, input.sent_at, 0)

(* The timestamp of a stored event is in the range that is accepted, a      *)
(* transaction ends after its start and so do its spans, and correction of  *)
(* clock drift, once or twice, leaves all durations as they were sent       *)
(* (ClockDriftProcessor, TransactionsProcessor, normalize_timestamps).      *)
TimestampsSane ==
  input.of = "event" => \A e \in StoredEvent : HasSaneTimes(e, input.event, 0)

(* Attributes of a stored event fit together: a dist needs a valid release, *)
(* only transactions have measurements, the type is that of its interfaces  *)
(* whatever the payload says (NormalizeProcessor::process_event).           *)
AttributesFit ==
  input.of = "event" => \A e \in StoredEvent : HasFittingAttributes(e)

(* With the address of the client, no {{auto}} is left, and an address that *)
(* the user or the request has is kept, except in a security report         *)
(* (normalize_ip_addresses).                                                *)
AddressResolved ==
  input.of = "event" => \A e \in StoredEvent : HasResolvedAddresses(e, input.event, input.client_ip)

(* The tags of a stored event have different keys, none of them internal;   *)
(* a key or a value that is empty or too long is gone, but for the values   *)
(* of server_name and site. Unless an entry of the list is null, nothing    *)
(* else is lost but later tags with a key that was there, and server_name,  *)
(* site and environment are kept (normalize_event_tags). With a null entry, *)
(* what PairList::position returns is the index of another entry.           *)
TagsUnique ==
  input.of = "event" => \A e \in StoredEvent : HasUniqueTags(e, input.event)

-----------------------------------------------------------------------------
(* Selectors and paths.                                                    *)

States == {[name |-> {n}, types |-> {t}] : n \in {"a", "b"}, t \in {"user"}} \cup {[name |-> {"b"}, types |-> {"string"}]}
Items == {Wildcard, DeepWildcard, Name("a"), Name("b"), Type("user"), Type("string")}

Selector ==
  /\ input = Start
  /\ \E selector \in SeqsUpTo(Items, 3), pii \in {"True", "Maybe", "False"} :
       /\ Valid(selector)
       /\ input' = [of |-> "selector", selector |-> selector, pii |-> pii, path |-> <<Root>>]

PathState ==
  /\ input.of = "selector"
  /\ Len(input.path) < MaxPath
  /\ \E s \in States : input' = [input EXCEPT !.path = Append(@, s)]

(* A selector chooses a value if and only if it stands for it, also if it   *)
(* starts with a wildcard; with items before a deep wildcard only the first *)
(* state counts at which these can start: the search does not go back       *)
(* (Path::matches_selector).                                                *)
SelectorExact ==
  input.of = "selector" => Exact(input.path, input.selector, input.pii)

-----------------------------------------------------------------------------
(* Spans of a transaction.                                                 *)

Spans ==
  /\ input = Start
  /\ input' = [of |-> "spans", spans |-> <<>>]

SpanAdded ==
  /\ input.of = "spans"
  /\ Len(input.spans) < 3
  /\ \E op \in {{"db"}, {"db.query"}, {"ui"}}, start \in 0 .. MaxTime, end \in 0 .. MaxTime :
       input' = [input EXCEPT !.spans = Append(@, [op |-> op, start |-> {start}, end |-> {end}])]

Operations == <<{"db", "db.query"}, {"db.query"}>>

(* The time of an operation is that in which one of its spans was open,     *)
(* however the spans overlap, and in whichever order they and their         *)
(* timestamps come (get_op_time_spent, emit_breakdowns).                    *)
TimeOnce ==
  input.of = "spans" =>
    \A breakdown \in emit_breakdowns(input.spans, Operations) :
      \A o \in DOMAIN breakdown.ops :
        breakdown.ops[o] = Cardinality(
          {t \in 0 .. MaxTime - 1 :
             \E n \in DOMAIN input.spans :
               LET s == input.spans[n]
               IN  /\ s.op \subseteq o.op
                   /\ Min(s.start \cup s.end) <= t /\ t < Max(s.start \cup s.end)})

-----------------------------------------------------------------------------
(* The walk of a processor through the schema of events.                   *)

Protocol == INSTANCE Schema

Event ==
  /\ input = Start
  /\ input' = [of |-> "schema", state |-> Protocol!Root, personal |-> FALSE]

EventChild ==
  /\ input.of = "schema"
  /\ \E child \in Protocol!Children(input.state) :
       input' = [input EXCEPT !.state = child, !.personal = @ \/ child.pii = "True"]

Unlimited ==
  {<<"Event", "grouping_config">>, <<"EventProcessingError", "value">>, <<"ExpectStaple", "ocsp_response">>,
   <<"Span", "data">>, <<"Span", "other">>, <<"User", "data">>, <<"DebugMeta", "images">>}

(* Data of any form and depth that is left of an event after it was         *)
(* normalized is in a databag, and so cut to a size, except at the places   *)
(* that are listed (RemoveOtherProcessor, FieldAttrs::bag_size).            *)
FreeFormBounded ==
  input.of = "schema" /\ Head(input.state.ty) = "Value" /\ ~input.state.bagged => input.state.at \in Unlimited

(* A limit for characters is declared only where the trimmer finds text to  *)
(* cut, however many newtypes are around it; paths and the ids of threads   *)
(* are not looked into (FieldAttrs::max_chars, TrimmingProcessor).          *)
LimitsApply ==
  input.of = "schema" /\ input.state.max_chars # {} /\ Protocol!Children(input.state) = {} =>
    \/ Protocol!IsTrimmed(input.state)
    \/ input.state.at \in {<<"Frame", "filename">>, <<"Frame", "abs_path">>,
                           <<"Exception", "thread_id">>, <<"Thread", "id">>}

(* All text below a field that is personal data is found by the generic     *)
(* selectors, at any depth, except in the security reports about            *)
(* certificates: their fields do not inherit (ProcessingState::inner_attrs).*)
PersonalBelow ==
  input.of = "schema" /\ input.personal /\ Protocol!IsRedacted(input.state) =>
    \/ input.state.pii = "True"
    \/ input.state.at[1] \in {"Hpkp", "ExpectCt", "ExpectStaple", "SingleCertificateTimestamp"}

-----------------------------------------------------------------------------
(* Events in JSON, of a small schema.                                      *)

Structure == INSTANCE Metastructure

ItemType ==
  [is |-> "struct", other |-> "clear", legacy |-> {},
   fields |-> [name |-> Structure!Field([is |-> "string"], Structure!Behavior("null", FALSE),
                                        Structure!DefaultAttrs, <<>>)]]

Mandatory == [Structure!DefaultAttrs EXCEPT !.required = TRUE, !.nonempty = TRUE,
                                           !.trim_whitespace = TRUE, !.characters = {"a"}]
NotBlank == [Structure!DefaultAttrs EXCEPT !.nonempty = TRUE]

EventType ==
  [is |-> "struct", other |-> "error", legacy |-> {"device"},
   fields |->
     [id |-> Structure!Field([is |-> "string"], Structure!Behavior("null", FALSE), Mandatory, <<"legacy_id">>),
      values |-> Structure!Field([is |-> "array", item |-> ItemType], Structure!Behavior("empty", TRUE), NotBlank, <<>>),
      extra |-> Structure!Field([is |-> "object", item |-> [is |-> "number"]], Structure!Behavior("empty", FALSE), NotBlank, <<>>),
      pair |-> Structure!Field([is |-> "tuple", elements |-> <<[is |-> "string"], [is |-> "number"]>>],
                               Structure!Behavior("null", FALSE), Structure!DefaultAttrs, <<>>)]]

JsonText(chars) == Structure!New(Structure!Text(chars))
JsonNum == Structure!New(Structure!Num(1))
JsonList(items) == Structure!New(Structure!List(items))
JsonMap(entries) == Structure!New(Structure!Map(entries))

Texts == {Structure!Null, JsonNum} \cup {JsonText(t) : t \in {<<>>, <<" ">>, <<" ", "a">>, <<"a", "b">>, <<"b", "b", "b", "b">>}}
EntryNames == {"name", "unknown"}
ItemValues == {Structure!Null, JsonNum} \cup {JsonMap(e) : e \in UNION {[names -> {Structure!Null, JsonNum, JsonText(<<"a">>)}] : names \in SUBSET EntryNames}}
Pieces == {Structure!Null, JsonNum, JsonText(<<"a">>)}

JsonEvent ==
  /\ input = Start
  /\ \E keys \in {{"id"}, {"legacy_id"}, {"id", "legacy_id"}} :
       \E entries \in [keys -> Texts], other \in {"device", "unknown"} :
         input' = [of |-> "json", entries |-> entries @@ (other :> JsonNum)]

JsonItems ==
  /\ input = Start
  /\ \E items \in SeqsUpTo(ItemValues, 2) :
       input' = [of |-> "json", entries |-> [values |-> JsonList(items)]]

JsonCollections ==
  /\ input = Start
  /\ \E pair \in SeqsUpTo(Pieces, 3), names \in SUBSET EntryNames :
       \E extra \in [names -> Pieces] :
         input' = [of |-> "json", entries |-> [pair |-> JsonList(pair), extra |-> JsonMap(extra)]]

ParsedEvent == Structure!from_value(EventType, JsonMap(input.entries))
VerifiedEvent == Structure!verify_schema(EventType, Structure!DefaultAttrs, ParsedEvent)
CleanEvent == Structure!remove_other(EventType, VerifiedEvent)
Forwarded(event) == Structure!from_json(EventType, Structure!to_json(EventType, event))
ErrorsOf(event) == Structure!emit_event_errors(<<>>, event)

(* The items that are written although one before them is left out.       *)
Shifted(event) ==
  \E values \in event.value : \E list \in values.entries["values"].value :
    \E i, j \in DOMAIN list.items :
      /\ i < j
      /\ Structure!skip_serialization(ItemType, list.items[i], Structure!Behavior("empty", TRUE))
      /\ ~Structure!skip_serialization(ItemType, list.items[j], Structure!Behavior("empty", TRUE))

(* The errors of an event, and the original values, are after it was sent   *)
(* to the next Relay where they were before, although empty values are left *)
(* out, except in lists in which an item was left out before others         *)
(* (skip_serialization, extract_meta_tree, attach_meta_tree).               *)
ErrorsTravel ==
  input.of = "json" =>
    \A event \in {ParsedEvent, VerifiedEvent, CleanEvent} :
      ~Shifted(event) =>
        /\ ErrorsOf(Forwarded(event)) = ErrorsOf(event)
        /\ Forwarded(Forwarded(event)) = Forwarded(event)

(* What was sent and is not in the event any more has left an error, at its *)
(* place or further up; a required attribute is there or has an error; and  *)
(* who verifies an event again finds nothing more (SchemaProcessor,         *)
(* RemoveOtherProcessor, FromValue).                                        *)
LossReported ==
  input.of = "json" =>
    LET event == CHOOSE v \in CleanEvent.value : TRUE
        reported(k) == \E e \in ErrorsOf(CleanEvent) : e.name = <<k>>
    IN  /\ \A k \in DOMAIN input.entries \ {"legacy_id", "device"} :
             input.entries[k].value # {} => event.entries[k].value # {} \/ reported(k)
        /\ event.entries["id"].value # {} \/ reported("id")
        /\ Structure!verify_schema(EventType, Structure!DefaultAttrs, VerifiedEvent) = VerifiedEvent

-----------------------------------------------------------------------------
(* Values that are sent in more than one form. Relays read them, write     *)
(* them and read them again.                                               *)

Protocols == INSTANCE Conversions

Annot(v) == Protocols!New(v)
Word(chars) == Annot(Protocols!Text(chars))
Words == {Word(<<>>), Word(<<" ", "a">>), Word(<<"-", "a">>), Word(<<"b">>)}
Odd == {Protocols!Null, Annot(Protocols!Num(-1)), Annot(Protocols!Bool(FALSE)), Annot(Protocols!Fraction(-3)),
        Annot(Protocols!List(<<Word(<<"a", "b">>), Annot(Protocols!Map(<<>>)), Word(<<"a">>)>>))}

Keys == <<<<>>, <<" ", "a">>, <<"-">>, <<"-", "A">>, <<"-", "a">>, <<"A">>, <<"B">>, <<"a">>, <<"b">>>>
KeyOrder == [k \in Range(Keys) |-> CHOOSE n \in DOMAIN Keys : Keys[n] = k]

PairsSent == {Protocols!Null, Word(<<"a">>), Annot(Protocols!List(<<Word(<<"a">>)>>))}
               \cup {Protocols!Pair(k, v) : k \in Words \cup {Protocols!Null, Annot(Protocols!Num(1))}, v \in Words \cup Odd}
ListsSent == {Annot(Protocols!List(items)) : items \in SeqsUpTo(PairsSent, 1)}
               \cup {Annot(Protocols!List(<<p, q>>)) : p \in PairsSent, q \in {Protocols!Null, Protocols!Pair(Word(<<"b">>), Word(<<"a">>))}}
MapsOf(keys, values) == {Annot(Protocols!Map(entries)) : entries \in UNION {[some -> values] : some \in SUBSET keys}}
TextsSent(chars, length) == {Word(text) : text \in SeqsUpTo(chars, length)}
Times8 == {Annot(Protocols!Time(t)) : t \in -16 .. 24} \cup {Annot(Protocols!Fraction(t)) : t \in -16 .. 24}

Sent ==
  [register |-> TextsSent({"0", "1", "x", "a"}, 4) \cup {Annot(Protocols!Num(n)) : n \in -8 .. 15} \cup Odd,
   level |-> {Word(<<n>>) : n \in {"debug", "log", "critical", "other"}} \cup {Annot(Protocols!Num(n)) : n \in -1 .. 6} \cup Odd,
   address |-> Words \cup Odd,
   thread |-> Words \cup Odd,
   lenient |-> Words \cup Odd,
   timestamp |-> Times8 \cup Odd,
   values |-> Odd \cup ListsSent \cup MapsOf({"values", "other"}, Odd \cup {Annot(Protocols!List(<<>>))}),
   tags |-> Odd \cup ListsSent \cup MapsOf({<<" ", "a">>, <<"b">>}, Odd),
   headers |-> Odd \cup ListsSent \cup MapsOf({<<"-", "a">>, <<"b">>, <<"A">>}, Odd),
   cookies |-> Odd \cup ListsSent \cup TextsSent({"a", "=", ";", " "}, 5) \cup MapsOf({<<"a">>, <<"b">>}, Odd),
   query |-> Odd \cup ListsSent \cup TextsSent({"a", "=", "&", "+", "?"}, 4) \cup MapsOf({<<"a">>, <<"b">>}, Odd),
   fingerprint |-> Odd \cup {Annot(Protocols!List(items)) : items \in SeqsUpTo(Words \cup Odd, 2)},
   measurements |-> Odd \cup MapsOf({<<>>, <<" ", "a">>, <<"A">>, <<"a">>, <<"-">>}, {Annot(Protocols!Num(1)), Word(<<"a">>)}),
   logentry |-> Odd \cup Words \cup MapsOf({"message", "params", "unknown"}, Odd \cup {Word(<<"a">>)}),
   contexts |-> Odd \cup MapsOf({"os", "device"}, Odd \cup MapsOf({"type", "name"}, {Word(<<"other">>), Protocols!Null}))]

YearLimit == 24

ReadAs(ty, a, drift) ==
  CASE ty = "register" -> Protocols!register_from_value(a)
    [] ty = "level" -> Protocols!level_from_value(a)
    [] ty = "address" -> Protocols!ip_from_value({<<"b">>}, a)
    [] ty = "thread" -> Protocols!thread_id_from_value(a)
    [] ty = "lenient" -> Protocols!lenient_from_value(a)
    [] ty = "timestamp" -> Protocols!timestamp_from_value(YearLimit, drift, a)
    [] ty = "values" -> Protocols!values_from_value(a)
    [] ty \in {"tags", "headers"} -> Protocols!pairlist_from_value(ty, KeyOrder, a)
    [] ty = "cookies" -> Protocols!cookies_from_value(KeyOrder, a)
    [] ty = "query" -> Protocols!query_string_from_value(KeyOrder, a)
    [] ty = "fingerprint" -> Protocols!fingerprint_from_value(a)
    [] ty = "measurements" -> Protocols!measurements_from_value(KeyOrder, a)
    [] ty = "logentry" -> Protocols!logentry_from_value(a)
    [] ty = "contexts" -> Protocols!contexts_from_value(a)

WrittenAs(ty, a) ==
  IF ty = "values" THEN Protocols!attach_meta_tree(Protocols!serialize_payload(Protocols!ValuesType, a, Protocols!Never),
                                                   Protocols!extract_meta_tree(a))
  ELSE [a EXCEPT !.value = {Protocols!into_value(v) : v \in @}]

Convert ==
  /\ input = Start
  /\ \E ty \in DOMAIN Sent : \E a \in Sent[ty], drift \in {-1, 0, 1} :
       /\ ty # "timestamp" => drift = 0
       /\ \E once \in {ReadAs(ty, a, drift)} : \E written \in {WrittenAs(ty, once)} :
          \E twice \in {ReadAs(ty, written, drift)} :
            input' = [of |-> "convert", ty |-> ty, sent |-> a, once |-> once, written |-> written, twice |-> twice]

(* What is written when the list of values is empty does not say so.      *)
ListLost ==
  /\ input.ty = "values"
  /\ \A v \in input.written.value : "values" \notin DOMAIN v.entries

(* What one Relay has read means the same to the next one, in whichever     *)
(* form it was sent: it is decoded, renamed, sorted and rounded only once,  *)
(* however inexact fractions are (FromValue, IntoValue). Exceptions are     *)
(* lists that are left out, fractions of seconds before 1970, and the last  *)
(* microsecond of the last year.                                            *)
ReadTheSame ==
  input.of = "convert" =>
    \/ WrittenAs(input.ty, input.twice) = input.written
    \/ ListLost
    \/ input.ty = "timestamp" /\ \E v \in input.once.value : v.nanos < 0 \/ v.nanos + Nanos > YearLimit

(* A value that cannot be read is replaced by an error, except for an empty *)
(* object of values and the message false; and of a list no element is lost *)
(* without an error, unless it was null or too large for the error          *)
(* (FromValue, Meta::set_original_value).                                   *)
UnreadReported ==
  input.of = "convert" /\ input.sent.value # {} =>
    LET sent == CHOOSE v \in input.sent.value : TRUE
        nothing == \/ input.ty = "values" /\ sent.is = "object" /\ DOMAIN sent.entries = {}
                   \/ input.ty = "logentry" /\ sent.is = "bool"
        expected(a) == a.value # {} /\ \A v \in a.value : Protocols!estimate_size({v}) < MaxOriginal
    IN  /\ input.once.value # {} \/ input.once.meta.errors # <<>> \/ nothing
        /\ \A read \in input.once.value :
             input.ty = "fingerprint" =>
               \/ input.once.meta.errors # <<>>
               \/ Len(read.items) >= Len(SelectSeq(sent.items, expected))

(* A pair that is inserted is found, others stay as they are, and a pair    *)
(* that is removed is the one that was asked for, as long as no entry of    *)
(* the list is null (PairList::position).                                   *)
PairsKept ==
  input.of = "convert" /\ input.ty \in {"tags", "headers"} =>
    \A read \in input.once.value :
      LET list == read.items
          key == <<"b">>
          value == Word(<<"new">>)
          inserted == Protocols!pairlist_insert(list, key, value)
          removed == Protocols!pairlist_remove(list, key)
          first == Protocols!position(list, key)
      IN  Protocols!Present(list) = list =>
            /\ \A n \in Protocols!position(inserted, key) : Protocols!ValueOf(inserted[n]) = value
            /\ \A n \in DOMAIN list \ first : inserted[n] = list[n]
            /\ first = {} => removed.list = list
            /\ \A n \in first : Protocols!KeyOf(list[n]) = Word(key) /\ removed.taken = Protocols!ValueOf(list[n])

-----------------------------------------------------------------------------
(* Security reports. The same violation is reported in several spellings.  *)

Reports == INSTANCE SecurityReports

Origins == {<<s, ":", "//", "host">> : s \in {"http", "https", "app"}}
             \cup {<<s, ":", "//", "host", ":", "8080">> : s \in {"http", "https"}}
Elsewhere == {<<"data", ":">>, <<"other">>, <<"https", ":", "//", "other">>, <<"http", ":", "//", "host", ":", "81">>}
BlockedUris == {<<"data">>, <<"https", ":", "//", "other", "/", "?", "secret">>,
                Reports!Stripe \o <<"a", "#", "?", "secret">>, Reports!Stripe \o <<"a">>}

Csp(directive, effective, blocked, origin, words) ==
  [effective_directive |-> IF effective THEN {directive} ELSE {}, blocked_uri |-> blocked,
   document_uri |-> {origin \o <<"/", "path">>}, referrer |-> {<<>>},
   violated_directive |-> <<Reports!Word(directive)>> \o words]

CspReport ==
  /\ input = Start
  /\ \E directive \in Reports!Directives, origin \in Origins, blocked \in {{}} \cup {{u} : u \in BlockedUris} :
       \E words \in SeqsUpTo(Reports!Keywords \cup Elsewhere, 1) :
         input' = [of |-> "csp", directive |-> directive, origin |-> origin, blocked |-> blocked, words |-> words]

CertificateReport ==
  /\ input = Start
  /\ \E types \in SUBSET {"Hpkp", "ExpectStaple", "ExpectCt"}, hostname \in {{}, {"host"}}, port \in {{}, {"8080"}},
        status \in {{}, {"s"}}, times \in BOOLEAN :
       input' = [of |-> "certificate", payload |-> [t \in types |->
                   [hostname |-> hostname, port |-> port, status |-> status, times |-> times]]]

(* How browsers write the origin of the document, and what is local.       *)
SpelledSelf(origin) ==
  {Reports!SelfWord, origin} \cup (IF origin[1] = "app" THEN {} ELSE {SubSeq(origin, 4, Len(origin))})
SpelledLocal(blocked) ==
  IF blocked = {} THEN {{}, {<<>>}, {<<"self">>}, {Reports!SelfWord}} ELSE {blocked}

SpelledEvents ==
  {Reports!csp_event(Csp(input.directive, effective, blocked, input.origin, Append(input.words, own))) :
     effective \in BOOLEAN, blocked \in SpelledLocal(input.blocked), own \in SpelledSelf(input.origin)}

(* Whichever browser reports a violation, and however it writes the origin  *)
(* of the document, the directive or what was blocked, the event has the    *)
(* same message and culprit, which is what groups are made of; the culprit  *)
(* never takes another origin for that of the document (normalize_value,    *)
(* get_culprit, get_message).                                               *)
SameViolation ==
  input.of = "csp" =>
    /\ \A one, other \in SpelledEvents :
         \A e \in one : \E o \in other : e.logentry = o.logentry /\ e.culprit = o.culprit /\ e.tags[1] = o.tags[1]
    /\ \A event \in UNION SpelledEvents, n \in DOMAIN input.words :
         event.culprit[n + 1] = Reports!SelfWord <=> input.words[n] = Reports!SelfWord

(* The tags and the message of an event do not have the query of the URIs   *)
(* of Stripe (sanitized_blocked_uri); a report is read as the first kind    *)
(* that is in it, or not at all, and has every tag once                     *)
(* (SecurityReportType::from_json, get_tags).                               *)
ReportExact ==
  /\ input.of = "csp" =>
       \A event \in UNION SpelledEvents :
         IsPrefix(Reports!Stripe, event.tags[2][2]) =>
           {"?", "#", "secret"} \cap (Range(event.tags[2][2]) \cup Range(event.logentry.uri)) = {}
  /\ input.of = "certificate" =>
       LET read == Reports!event_from_security_report(input.payload)
       IN  /\ DOMAIN input.payload = {} <=> read.is = "InvalidSecurityType"
           /\ read.is = "event" =>
                /\ read.event.ty \in DOMAIN input.payload
                /\ \A i, j \in DOMAIN read.event.tags : read.event.tags[i][1] = read.event.tags[j][1] => i = j

-----------------------------------------------------------------------------
(* Requests that are not envelopes.                                        *)

Key(name) == <<name>>
JsonObject(entries) == [is |-> "object", entries |-> entries]
JsonString(name) == [is |-> "string", text |-> Key(name)]
JsonTexts ==
  [whole |-> JsonObject((Key("event_id") :> JsonString("id1")) @@ (Key("extra") :> JsonObject(<<>>))),
   part |-> JsonObject((Key("level") :> JsonString("info")) @@ (Key("tags") :> [is |-> "null"])),
   split |-> JsonObject((Key("event_id") :> JsonString("id2")) @@ (Key("level") :> JsonString("debug")))]
JsonOf(text) == {JsonTexts[k] : k \in {k \in DOMAIN JsonTexts : text = (IF k = "split" THEN <<"{", "}">> ELSE Key(k))}}

Requests == INSTANCE Extraction WITH Json <- JsonOf

Entry(key, value) == [key |-> key, value |-> value]
FormEntries ==
  {Entry(Key("sentry"), v) : v \in {Key("whole"), Key("part"), <<>>}}
    \cup {Entry(<<"sentry___", "x">>, Key("whole")), Entry(<<"sentry__", 1>>, <<"{">>), Entry(<<"sentry__", 2>>, <<"}">>),
          Entry(Requests!IdKey, Key("id3")), Entry(<<"sentry", "[", "tags", "]", "[", "a", "]">>, Key("t")),
          Entry(<<"sentry", "[", "level", "]", "x">>, Key("v")), Entry(<<"sentry", "[", "level">>, Key("v")),
          Entry(Key("level"), Key("v"))}

FormRequest ==
  /\ input = Start
  /\ \E entries \in SeqsUpTo(FormEntries, 3) : input' = [of |-> "form", entries |-> entries]

FormFields ==
  {[name |-> n, file |-> f, size |-> s, content |-> c] :
     n \in {{}, {"upload_file_minidump"}, {"other"}}, f \in {{}, {"file"}}, s \in {1, 3}, c \in {"minidump", "embedded", "junk"}}

MinidumpRequest ==
  /\ input = Start
  /\ \E fields \in SeqsUpTo(FormFields, 2), last \in {f \in FormFields : f.content = "minidump" /\ f.file # {}} :
       input' = [of |-> "minidump", fields |-> Append(fields, last)]

(* Two files with breadcrumbs of up to three times.                        *)
BreadcrumbFiles ==
  /\ input = Start
  /\ \E first, second \in SeqsUpTo({{}} \cup {{t} : t \in 1 .. 4}, 3) :
       input' = [of |-> "breadcrumbs", first |-> first, second |-> second]

(* An event that comes with a crash report. The minidump has a time if it  *)
(* can be read.                                                            *)
CrashEvent ==
  /\ input = Start
  /\ \E ty \in {{}, {"Error"}, {"Csp"}, {"Transaction"}}, security \in {"none", "Csp"}, platform \in {{}, {"javascript"}},
        level \in {{}, {"info"}}, exceptions \in BOOLEAN, time \in Times :
       \E kinds \in {{"Minidump"}, {"AppleCrashReport"}, {"Minidump", "AppleCrashReport"}} :
         input' = [of |-> "crash", attachments |-> [k \in kinds |-> [time |-> time]],
                   event |-> [Blank EXCEPT !.ty = ty, !.security = security, !.platform = platform, !.exceptions = exceptions]
                               @@ [level |-> level, mechanism |-> "sent"]]

MergedForm(entries) == Requests!merge_formdata(entries)
Swapped(entries, i, j) == [entries EXCEPT ![i] = entries[j], ![j] = entries[i]]
KeptIn(before, after) ==
  \A k \in DOMAIN before.entries : before.entries[k].is = "string" => after.entries[k] = before.entries[k]

(* Form data is read as it was written, and a prefix of it as far as it     *)
(* goes (FormDataIter); the parts of an event may come in any order, and    *)
(* no field changes what one before it has set (merge_formdata,             *)
(* ChunkedFormDataAggregator, update_nested_value, merge_values).           *)
FormExact ==
  input.of = "form" =>
    LET data == Requests!FormDataWriter(input.entries)
        merged == MergedForm(input.entries)
    IN  /\ Requests!FormDataIter(data) = input.entries
        /\ \A n \in DOMAIN data : IsPrefix(Requests!FormDataIter(SubSeq(data, 1, n)), input.entries)
        /\ \A i, j \in DOMAIN input.entries :
             /\ Requests!IsChunk(input.entries[i]) /\ Requests!IsChunk(input.entries[j])
             /\ input.entries[i] # input.entries[j]
             => MergedForm(Swapped(input.entries, i, j)) = merged
        /\ \A n \in 0 .. Len(input.entries) :
             LET fields == SelectSeq(SubSeq(input.entries, 1, n), LAMBDA e : ~Requests!IsChunk(e))
             IN  KeptIn(MergedForm(fields), merged)

(* The id that the client is told is the one that the event in the form     *)
(* has; if the form has one it is found, unless a field with the event      *)
(* comes first and has none. Ids in parts and name spaces are not found     *)
(* (event_id_from_formdata, merge_formdata).                                *)
EventIdAgrees ==
  input.of = "form" /\ (\A n \in DOMAIN input.entries :
                          ~Requests!IsChunk(input.entries[n]) /\ input.entries[n].key[1] # "sentry___") =>
    LET told == Requests!event_id_from_formdata(input.entries)
        has == Requests!IdOf(MergedForm(input.entries))
        first == SelectSeq(input.entries, LAMBDA e : e.key \in {Key("sentry"), Requests!IdKey})
    IN  told = has \/ (told = {} /\ first[1].key = Key("sentry") /\ first[1].value # Key("whole"))

(* A request with a minidump is no larger than allowed, loses none of its   *)
(* files, and what is taken for a minidump is one (MultipartItems,          *)
(* extract_envelope of the minidump endpoint).                              *)
MinidumpKept ==
  input.of = "minidump" =>
    LET request == Requests!handle_request(input.fields)
        read == Requests!minidump_envelope(request)
        files == SelectSeq(input.fields, LAMBDA f : f.file # {})
        raw == Requests!raw_minidump_envelope(Head(input.fields))
    IN  /\ raw.is = "envelope" /\ Len(input.fields) = 1 /\ read.is = "envelope" => read = raw
        /\ request.ok <=> MapThenSumSet(LAMBDA n : input.fields[n].size, DOMAIN input.fields) <= MaxSize
        /\ read.is = "envelope" =>
             /\ Last(read.items).attachment = "Minidump" /\ Last(read.items).field.content = "minidump"
             /\ Len(read.items) = Len(files)
             /\ \A f \in Range(files) : \E n \in DOMAIN read.items :
                  read.items[n].field.name = f.name /\ read.items[n].field.size = f.size

(* Whatever the client says of a crash, it is stored as an error of a       *)
(* native platform at a time that is accepted, even if the minidump is      *)
(* older, and Sentry is told which report to read (create_placeholders,     *)
(* infer_event_type, normalize_timestamps).                                 *)
CrashIsError ==
  input.of = "crash" =>
    \A e \in Stored(Requests!create_placeholders(input.event, input.attachments), {}, {}, 0) :
      /\ e.platform = {"native"} /\ e.level # {}
      /\ input.event.ty # {"Transaction"} => e.ty = {"Error"}
      /\ e.mechanism = IF "Minidump" \in DOMAIN input.attachments THEN "minidump" ELSE "applecrashreport"
      /\ \E t \in e.timestamp : -MaxSecsInPast <= t /\ t <= MaxSecsInFuture

(* Of two files with breadcrumbs, one older than the other, the latest ones *)
(* are kept in the order of time, whichever file comes first; no more than  *)
(* the longer file has (event_from_attachments).                            *)
BreadcrumbsLatest ==
  input.of = "breadcrumbs" =>
    LET times(file) == UNION Range(file)
        timed(file) == {} \notin Range(file) /\ \A n \in 2 .. Len(file) : \A a \in file[n - 1], b \in file[n] : a <= b
        kept == Requests!event_from_attachments(input.first, input.second)
        older(a, b) == \A s \in times(a), t \in times(b) : s < t
        all == IF older(input.first, input.second) THEN input.first \o input.second ELSE input.second \o input.first
    IN  timed(input.first) /\ timed(input.second) /\ (older(input.first, input.second) \/ older(input.second, input.first)) =>
          /\ IsSuffix(kept, all)
          /\ Len(kept) = Max({Len(input.first), Len(input.second)})
          /\ kept = Requests!event_from_attachments(input.second, input.first)

-----------------------------------------------------------------------------
(* Relays that register with their upstream and ask it for projects.       *)

Relays == INSTANCE Authentication

(* Delays of the request, of the answer and of its response. In between    *)
(* the Relay or its upstream may be restarted with other credentials, and  *)
(* what arrives may be the response to an earlier challenge.               *)
Versions == UNION {Relays!version_from_str(parts) : parts \in {<<0, 0>>, <<0, 0, 0>>, <<1, 2, 3, "beta">>, <<0, MaxU8 + 1, 0>>}}

Register ==
  /\ input = Start
  /\ \E start \in 0 .. TicksPerSecond - 1, d1, d2, d3 \in 0 .. MaxAge + 1, age \in {{}, {MaxAge}} :
       \E relay_key \in {"k1", "k2"}, upstream_secret \in {"s1", "s2"}, read \in BOOLEAN, version \in Versions :
         input' = [of |-> "register", start |-> start, delays |-> <<d1, d2, d3>>, max_age |-> age,
                   key |-> relay_key, secret |-> upstream_secret, json |-> read, version |-> version]

Registration ==
  LET asked == input.start + input.delays[1]
      answered == asked + input.delays[2]
  IN  [relay |-> [id |-> "r1", secret |-> "k1", version |-> input.version], upstream |-> "s1",
       sent |-> input.start, asked |-> asked, answered |-> answered, received |-> answered + input.delays[3],
       max_age |-> input.max_age, key |-> input.key, secret |-> input.secret, json |-> input.json, alternate |-> input.start = 0]

(* A Relay that answers in time is registered with its own key, id and      *)
(* version, however long all of it takes; one that does not, or whose key   *)
(* or whose upstream's secret has changed in between, is not. The second    *)
(* that is lost in the token is the only doubt (RegisterRequest,            *)
(* SignedRegisterState, RegisterResponse).                                  *)
RegisteredInTime ==
  input.of = "register" => Relays!RegistersInTime(Registration)

(* Upstream's states of a project and those it has none of.                *)
UpstreamStates ==
  {{}, {Relays!missing}, {Relays!err}, {Relays!allowed}}
    \cup {{[project_id |-> {1}, disabled |-> d, public_keys |-> k, organization_id |-> o, invalid |-> FALSE,
            config |-> [allowed_domains |-> a, trusted_relays |-> t, features |-> {"f"}, quotas |-> q, rules |-> {"r"}]]} :
           d \in BOOLEAN, k \in {<<>>, <<[public_key |-> "p", numeric_id |-> {7}]>>, <<[public_key |-> "q", numeric_id |-> {8}]>>},
           o \in {{}, {5}}, a \in {{}, {"*"}, {"a"}}, t \in {{}, {"k1"}}, q \in SUBSET {[valid |-> v] : v \in BOOLEAN}}

ProjectConfigs ==
  /\ input = Start
  /\ \E state \in UpstreamStates, internal, full, signed, known \in BOOLEAN :
       input' = [of |-> "configs", state |-> state, internal |-> internal, full |-> full, signed |-> signed, known |-> known]

AskingRelay == [public_key |-> "k1", internal |-> input.internal]
ConfigRequest == [json |-> TRUE, public_keys |-> {"p"}, full_config |-> input.full]

SignedRequest ==
  Relays!signed_json(("X-Sentry-Relay-Id" :> "r1") @@ ("X-Sentry-Relay-Signature" :>
                       Relays!sign("k1", IF input.signed THEN ConfigRequest ELSE [ConfigRequest EXCEPT !.json = FALSE], 0)),
                     ConfigRequest,
                     IF input.known THEN [id \in {"r1"} |-> [AskingRelay EXCEPT !.public_key = Relays!PublicOf("k1")]] ELSE <<>>)

ClientMetas == {[project_id |-> i, origin |-> o, public_key |-> "p"] : i \in {{}, {1}, {2}}, o \in {{}, {"a"}, {"b"}}}

(* A Relay that asks for projects accepts a request if and only if it may   *)
(* see the project and its upstream accepts the request too: no client is   *)
(* refused at the edge that Sentry would serve. Once the state is hard      *)
(* outdated the Relay also accepts what only the state of the project is    *)
(* against, and leaves that to its upstream. It attributes requests to the  *)
(* same organization, project and key, and rules and quotas are for         *)
(* internal Relays that ask for them (get_project_configs,                  *)
(* LimitedProjectConfig, check_request, check_disabled, scope_request).     *)
ChainAgrees ==
  input.of = "configs" =>
    /\ SignedRequest.is = "signed" <=> input.signed /\ input.known
    /\ \A meta \in ClientMetas, outdated \in {"Updated", "SoftOutdated", "HardOutdated"} :
         Relays!AgreesOn(AskingRelay, ConfigRequest, [k \in {"p"} |-> input.state], "p", meta, outdated)

-----------------------------------------------------------------------------
(* The folder of a Relay, and the commands on it in any order.             *)

(* The redis URL is no number, and what is bad cannot be read.             *)
ReadSetting(field, text) ==
  CASE text \in {"bad", "redis1"} -> {}
    [] text \notin {"bad", "redis1"} -> IF field = "processing" THEN {text \in {"true", "1"}} ELSE {text}

Settings == INSTANCE Configuration WITH Read <- ReadSetting

(* What init may write, and what may have been written by hand.            *)
Chosen == {[Settings!DefaultValues EXCEPT !.relay.mode = mode] : mode \in {"Managed", "Static", "Proxy"}}
ByHand == {[values EXCEPT !.processing.enabled = TRUE] : values \in Chosen}

Optional(values) == {{}} \cup {{v} : v \in values}
Generated == [secret_key |-> "k4", public_key |-> "k4", id |-> "id4"]
Environment ==
  {[Settings!OverridableConfig EXCEPT !.upstream = u, !.host = u, !.port = u, !.processing = w, !.id = i, !.secret_key = k,
                                      !.public_key = k, !.kafka_url = u] :
     u \in Optional({"81"}), w \in Optional({"1", "bad"}), i \in Optional({"id1"}), k \in Optional({"k1"})}
Options ==
  {[Settings!OverridableConfig EXCEPT !.upstream = u, !.host = u, !.redis_url = r, !.processing = u, !.id = i, !.secret_key = k,
                                      !.public_key = k, !.kafka_url = u] @@ [source_id |-> u] :
     u \in Optional({"false"}), r \in Optional({"redis1"}), i \in Optional({"id2"}), k \in Optional({"k2"})}
NoOptions == Settings!OverridableConfig @@ [source_id |-> {}]

NewFolders == {[config |-> config, credentials |-> {}] : config \in Optional(ByHand)}
FolderState(name, before, ended, overwrite) ==
  [of |-> "folder", command |-> name, before |-> before, folder |-> ended.folder, result |-> ended.result,
   overwrite |-> overwrite]

NewFolder ==
  /\ input = Start
  /\ \E folder \in NewFolders : input' = FolderState("new", folder, Settings!Ends(folder, "unchanged"), FALSE)

InitConfig ==
  /\ input.of = "folder"
  /\ \E chosen \in Chosen, compiled, written \in BOOLEAN :
       \E ended \in {Settings!init_config(input.folder, compiled, chosen, Generated, written)} :
         input' = FolderState("init", input.folder, ended, FALSE)

(* With credentials in the environment or not.                             *)
Commanding(config) ==
  LET folder == input.folder
  IN  \E written \in BOOLEAN :
        \/ \E overwrite \in BOOLEAN :
             input' = FolderState("generate", folder, Settings!credentials_generate(folder, config, overwrite, [Generated EXCEPT !.id = "id5"], written), overwrite)
        \/ \E id \in Optional({"id3"}), key \in Optional({"k3"}), point \in Optional({"point"}) :
             input' = FolderState("set", folder,
                        Settings!credentials_set(folder, config, [id |-> id, secret_key |-> key], point, written), TRUE)
        \/ input' = FolderState("remove", folder, Settings!credentials_remove(folder, config, written), TRUE)

ManageCredentials ==
  /\ input.of = "folder"
  /\ \E env \in {e \in Environment : e.upstream = {} /\ e.processing = {}}, compiled \in BOOLEAN :
       \E config \in {Settings!apply_override(Settings!from_path(input.folder, compiled),
                                               Settings!extract_config_env_vars(env))} :
         config.is = "config" /\ Commanding(config)

RunRelay ==
  /\ input.of = "folder"
  /\ \E env \in Environment, options \in Options, compiled \in BOOLEAN :
       \E config \in {Settings!run(input.folder, compiled, env, options)} :
         input' = [of |-> "run", folder |-> input.folder, env |-> env, options |-> options, config |-> config]

WriteSettings ==
  /\ input = Start
  /\ \E bytes \in 0 .. 4 * Kibi * Kibi, scheme \in {"http", "https"}, port \in {80, 443, 3000} :
       input' = [of |-> "written", bytes |-> bytes, upstream |-> [scheme |-> scheme, host |-> "h", port |-> port]]

FirstGiven(sources) == sources[CHOOSE n \in DOMAIN sources : sources[n] # {} /\ \A k \in 1 .. n - 1 : sources[k] = {}]

(* Options go before the environment, and the environment before the file,  *)
(* for every setting but the port, which no option sets; a Relay that runs  *)
(* managed has credentials, whole ones, so it can become ready. Sizes and   *)
(* addresses are read as they were written (Config::from_path,              *)
(* apply_override, extract_config_args, check_config).                      *)
SettingsObeyed ==
  /\ input.of = "run" /\ input.config.is = "config" =>
       LET values == input.config.values
           file == CHOOSE v \in input.folder.config : TRUE
           given(f, old) == FirstGiven(<<input.options[f], input.env[f], {old}>>)
       IN  /\ {values.relay.upstream} = given("upstream", file.relay.upstream)
           /\ {values.relay.host} = given("host", file.relay.host)
           /\ {values.relay.port} = FirstGiven(<<input.env.port, {file.relay.port}>>)
           /\ {values.processing.enabled} = FirstGiven(<<{x = "true" : x \in input.options.processing}, {x = "1" : x \in input.env.processing},
                                                         {file.processing.enabled}>>)
           /\ {p.value : p \in Range(values.processing.kafka_config)} = FirstGiven(<<input.options.kafka_url, input.env.kafka_url, {}, {""}>>) \ {""}
           /\ values.relay.mode = "Managed" \/ Settings!requires_auth(values) => input.config.credentials # {}
           /\ \A c \in input.config.credentials, f \in Settings!CredentialFields :
                {c[f]} = FirstGiven(<<input.options[f], input.env[f], {x[f] : x \in input.folder.credentials}>>)
           /\ Settings!http_auth_interval(values) # {} => ~Settings!emit_outcomes(values) \/ values.outcomes.emit_outcomes
  /\ input.of = "written" =>
       /\ Settings!as_bytes(Settings!infer(input.bytes)) = input.bytes
       /\ Settings!upstream_from_str(Settings!upstream_to_string(input.upstream)) = [is |-> "upstream", upstream |-> input.upstream]

(* No command changes a configuration that is there, or replaces            *)
(* credentials unless told to; a write that fails harms nothing but the     *)
(* credentials that it was for. A folder that has been initialized can be   *)
(* run (init_config, manage_credentials, replace_credentials).              *)
FolderKept ==
  input.of = "folder" =>
    /\ input.before.config # {} => input.folder.config = input.before.config
    /\ input.before.credentials # {} /\ ~input.overwrite => input.folder.credentials = input.before.credentials
    /\ input.result \notin {"changed", "CouldNotWriteFile"} => input.folder.credentials = input.before.credentials
    /\ input.command = "init" /\ input.result \in {"changed", "unchanged"} =>
         Settings!run(input.folder, TRUE, Settings!OverridableConfig, NoOptions).is = "config"

-----------------------------------------------------------------------------
(* Rules for personal data: references between rules, settings for data    *)
(* scrubbing, users and suggestions.                                       *)

Personal == INSTANCE PersonalData

MaskIt == Personal!Redaction("Mask", "")
LeafSpecs == {Personal!RuleSpec("email", redaction) : redaction \in {Personal!Default, MaskIt}}
GroupSpecs(refs) ==
  {Personal!MultipleRule(rules, hide, redaction) :
     rules \in SeqsUpTo(refs, 2), hide \in BOOLEAN, redaction \in {Personal!Default, MaskIt}}

CompileRules ==
  /\ input = Start
  /\ \E a \in GroupSpecs({<<"b">>, <<"c">>, <<"ip">>}), b \in LeafSpecs \cup GroupSpecs({<<"c">>, <<"ip">>}),
        c \in LeafSpecs, ids \in {<<<<"a">>>>, <<<<"b">>, <<"a">>>>, <<<<"a">>, <<"missing">>>>} :
       LET config == [rules |-> (<<"a">> :> a) @@ (<<"b">> :> b) @@ (<<"c">> :> c)]
       IN  \E compiled \in {Personal!Collected(config, ids)} :
             input' = [of |-> "compiled", config |-> config, ids |-> ids, compiled |-> compiled]

(* The ways to get from a rule to one that refers to no other.             *)
RECURSIVE ChainsFrom(_, _)
ChainsFrom(config, id) ==
  UNION {IF spec.ty \in {"Multiple", "Alias"}
         THEN UNION {{<<id>> \o chain : chain \in ChainsFrom(config, spec.rules[n])} : n \in DOMAIN spec.rules}
         ELSE {<<id>>} : spec \in Personal!get_rule(config, id)}

(* The rules that apply are those that the named rules lead to, each once.  *)
(* One that is hidden by another is reported under the outermost name that  *)
(* hides it, and redacts as the outermost of them says (collect_rules,      *)
(* RuleRef::for_parent).                                                    *)
RulesCompiled ==
  input.of = "compiled" =>
    LET chains == UNION {ChainsFrom(input.config, input.ids[n]) : n \in DOMAIN input.ids}
        spec(id) == CHOOSE s \in Personal!get_rule(input.config, id) : TRUE
        outermost(chain) == CHOOSE j \in DOMAIN chain :
                              /\ \A k \in j .. Len(chain) - 1 : spec(chain[k]).hide_inner
                              /\ j > 1 => ~spec(chain[j - 1]).hide_inner
        said(chain) == {k \in outermost(chain) .. Len(chain) : k = Len(chain) \/ spec(chain[k]).redaction # Personal!Default}
        first(chain) == CHOOSE k \in said(chain) : \A l \in said(chain) : k <= l
    IN  /\ {r.id : r \in input.compiled} = {Last(chain) : chain \in chains}
        /\ \A r, q \in input.compiled : r.id = q.id => r = q
        /\ \A r \in input.compiled :
             \E chain \in chains : /\ Last(chain) = r.id
                                   /\ r.origin = chain[outermost(chain)]
                                   /\ r.redaction = spec(chain[first(chain)]).redaction

At(name, types) == [name |-> name, types |-> types, index |-> FALSE]
EventRoot == At({}, {"event", "object"})
Places(kind) ==
  {<<EventRoot, At({"extra"}, {"object"}), At({"f"}, {kind})>>, <<EventRoot, At({"extra"}, {"object"}), At({"password"}, {kind})>>,
   <<EventRoot, At({"user"}, {"user", "object"}), At({"ip_address"}, {kind})>>, <<EventRoot, At({"debug_meta"}, {"object"}), At({"f"}, {kind})>>}
KeyOf(path) == Last(path).name
SettingsOf ==
  [scrub_data : BOOLEAN, scrub_ip_addresses : BOOLEAN, scrub_defaults : BOOLEAN,
   sensitive_fields : {{}, {"f"}}, exclude_fields : {{}, {"f"}, {"ip_address"}}]
Scrubs(settings, value) ==
  IF Personal!to_pii_config(settings) = {} THEN "kept"
  ELSE Personal!apply_all_rules(Personal!CompiledPiiConfig(CHOOSE c \in Personal!to_pii_config(settings) : TRUE), value)
More(settings) ==
  {[settings EXCEPT !.scrub_data = TRUE], [settings EXCEPT !.scrub_ip_addresses = TRUE],
   [settings EXCEPT !.scrub_defaults = TRUE], [settings EXCEPT !.exclude_fields = {}]}

ScrubValue ==
  /\ input = Start
  /\ \E settings \in SettingsOf, kind \in {"string", "number", "object", "boolean"}, pii \in {"True", "Maybe", "False"} :
       \E path \in Places(kind), text \in SUBSET {"creditcard", "password"}, trivial \in BOOLEAN :
         LET value == [path |-> path, kind |-> kind, pii |-> pii, text |-> text, trivial |-> trivial /\ kind = "string",
                       key |-> CASE KeyOf(path) = {"f"} -> {"strip-fields"} [] KeyOf(path) = {"password"} -> {"password"} [] OTHER -> {}]
         IN  /\ kind # "string" => text = {} /\ ~trivial
             /\ \E result \in {Scrubs(settings, value)}, more \in {{Scrubs(s, value) : s \in More(settings)}} :
                  input' = [of |-> "scrubbed", settings |-> settings, value |-> value, result |-> result, more |-> more]

(* Settings mean the same to the next Relay, which does not get disabled    *)
(* ones. Sensitive fields and known addresses are scrubbed, excluded fields *)
(* are not, and no option uncovers what is scrubbed without it              *)
(* (to_pii_config, DataScrubbingConfig::is_disabled, apply_rule_to_value).  *)
DataScrubbed ==
  input.of = "scrubbed" =>
    LET s == input.settings
        v == input.value
        address == KeyOf(v.path) = {"ip_address"} /\ s.scrub_ip_addresses
        sensitive == KeyOf(v.path) = s.sensitive_fields /\ ~(KeyOf(v.path) \subseteq s.exclude_fields) /\ v.path[2].name = {"extra"}
    IN  /\ Personal!to_pii_config(Personal!SettingsSent(s)) = Personal!to_pii_config(s)
        /\ KeyOf(v.path) \subseteq s.exclude_fields /\ ~address => input.result = "kept"
        /\ v.kind \notin {"boolean"} /\ ~v.trivial /\ v.pii # "False" =>
             /\ address => input.result = "removed"
             /\ s.scrub_data /\ sensitive /\ v.pii = "True" /\ v.kind # "object" => input.result # "kept"
        /\ input.result # "kept" => "kept" \notin input.more

Users ==
  [id : {{}, {[valid |-> FALSE, text |-> "id"]}}, username : {{}, {"name"}}, email : {{}},
   ip_address : {{}, {[valid |-> TRUE, text |-> "ip"]}, {[valid |-> FALSE, text |-> "host"]}}]
ScrubUser ==
  /\ input = Start
  /\ \E user \in Users, id, username \in BOOLEAN, hashed \in {"kept", "hashed", "removed"} :
       LET scrubbed == [user EXCEPT !.id = IF id THEN {} ELSE @, !.username = IF username THEN {} ELSE @,
                                    !.ip_address = CASE hashed = "kept" -> @
                                                     [] hashed = "hashed" -> {[valid |-> FALSE, text |-> "hash"] : a \in @}
                                                     [] hashed = "removed" -> {}]
       IN  input' = [of |-> "user", user |-> user, scrubbed |-> scrubbed, result |-> Personal!process_user(user, scrubbed)]

(* Users that can be told apart after scrubbing stay so: an address that    *)
(* was hashed is kept as an id if there is no other, never instead of one,  *)
(* and what is moved is never the address itself (PiiProcessor::process_user). *)
UserKept ==
  input.of = "user" =>
    LET u == input.scrubbed
        r == input.result
    IN  /\ u.id # {} => r = u
        /\ [r EXCEPT !.id = {}, !.ip_address = {}] = [u EXCEPT !.id = {}, !.ip_address = {}]
        /\ r.id \cup r.ip_address = u.id \cup u.ip_address
        /\ \A a \in r.id : a # [valid |-> TRUE, text |-> "ip"]
        /\ u.ip_address = {[valid |-> FALSE, text |-> "hash"]} /\ u.username = {} /\ (\A a \in input.user.ip_address : a.valid) => r.id # {}

Deeper ==
  {At({"a"}, {"object"}), At({"a"}, {"user", "object"}), [At({}, {"exception", "object"}) EXCEPT !.index = TRUE],
   At({"b"}, {"string"}), At({"b"}, {"boolean"})}
SuggestPath ==
  /\ input = Start
  /\ \E path \in SeqsUpTo(Deeper, 3), pii \in {"True", "Maybe", "False"} :
       /\ path # <<>> => ~path[1].index
       /\ \E all \in {<<EventRoot>> \o path} :
            \E found \in {Personal!selector_suggestions(all, pii, IF "boolean" \in Last(all).types THEN "boolean" ELSE "other")} :
              input' = [of |-> "suggest", path |-> all, pii |-> pii, found |-> found]

(* Every value that rules can reach is suggested by a selector that can be  *)
(* written down and that chooses it (GenerateSelectorsProcessor).           *)
SuggestionsUsable ==
  input.of = "suggest" =>
    /\ Len(input.path) > 1 /\ input.pii # "False" /\ "boolean" \notin Last(input.path).types => input.found # {}
    /\ \A selector \in input.found :
         Personal!Paths!Valid(selector) /\ Personal!Paths!matches_selector(input.path, selector, input.pii)

-----------------------------------------------------------------------------
(* Attachments and minidumps that are scrubbed in place.                   *)

Files == INSTANCE Attachments
           WITH Letter <- "a", Nul <- "0", Surrogate <- "s", Padding <- "*", MinString <- 2, Hashed <- <<"#", "#", "#">>

Fragments == {<<"x">>, <<"a", "a">>, <<"a", "0">>, <<"0">>, <<"x", "s">>}
ByteRules == {[replace |-> r, redaction |-> [method |-> m, text |-> <<>>]] : r \in {"Value", "Match", "Group"}, m \in {"Default", "Hash"}}

ScrubBytes ==
  /\ input = Start
  /\ \E fragments \in SeqsUpTo(Fragments, 5), rule \in ByteRules :
       \E data \in {FlattenSeq(fragments)} : \E scrubbed \in {Files!ScrubbedAll(data, rule)} :
         input' = [of |-> "bytes", data |-> data, rule |-> rule, scrubbed |-> scrubbed]

(* An attachment keeps its length; nothing changes but what a rule matches, *)
(* as plain or as wide text; all that it matches as plain text is gone, and *)
(* so is all wide text that has no byte in common with that (scrub_bytes,   *)
(* apply_regex_to_utf8_bytes, apply_regex_to_utf16le_bytes).                *)
ScrubbedInPlace ==
  input.of = "bytes" =>
    LET plain == Range(Files!Matches(input.data, input.rule.replace))
        wide == Range(Files!AllWideMatches(input.data, input.rule.replace))
        bytes(range) == range.from + 1 .. range.to
        gone(range) == \A i \in bytes(range) : input.scrubbed[i] \in {"*", "#"} \/ (range \in wide /\ input.scrubbed[i] = "0")
    IN  /\ Len(input.scrubbed) = Len(input.data)
        /\ \A i \in DOMAIN input.data : input.scrubbed[i] # input.data[i] => \E range \in plain \cup wide : i \in bytes(range)
        /\ \A range \in plain : gone(range)
        /\ \A range \in wide, whole \in Range(Files!AllWideMatches(input.data, "Match")) :
             bytes(range) \subseteq bytes(whole) /\ (\A other \in plain : bytes(other) \cap bytes(whole) = {}) => gone(range)

(* A file with a stack, two other parts of memory, the environment, and    *)
(* modules with the same name but not the same debug file.                 *)
Stack == 1
Heap == 2
Environ == 3
CodeFile == 4
DebugFile == 5
OtherDebugFile == 6
FileData ==
  <<<<"a", "a">>, <<"a", "a", "x", "0">>, <<"a", "0", "a", "0">>, <<"a", "0", "a", "0", "/", "0", "a", "0", "a", "0">>,
    <<"a", "a", "/", "a", "a">>, <<"x", "a", "a", "/", "a", "a">>>>
Dumps ==
  [parsed : BOOLEAN, stacks : {{Stack}}, memory : {<<Stack, Heap>>, <<Heap, Stack, Heap>>}, environ : {{}, {Environ}}, cmdline : {{}, {Environ}},
   modules : {<<[name |-> CodeFile, signature |-> "Pdb70", debug |-> DebugFile]>>,
              <<[name |-> CodeFile, signature |-> "Elf", debug |-> DebugFile], [name |-> CodeFile, signature |-> "Pdb20", debug |-> OtherDebugFile]>>},
   readable : {1 .. 6} \cup {(1 .. 6) \ {at} : at \in 1 .. 6}]
FileSelectors ==
  {<<DeepWildcard>>, <<Type("binary")>>, <<Type("attachments"), DeepWildcard>>, <<Type("minidump"), DeepWildcard>>,
   <<Type("stack_memory")>>, <<Type("heap_memory")>>, <<Name("code_file")>>, <<Type("string")>>}

ScrubMinidump ==
  /\ input = Start
  /\ \E selector \in FileSelectors, dump \in Dumps, method \in {"Mask", "Replace"} :
       LET rule == [replace |-> "Match", redaction |-> [method |-> method, text |-> <<"r">>]]
       IN  \E scrubbed \in {Files!scrub_attachments(<<[selector |-> selector, rules |-> <<rule>>]>>, "f", dump, FileData)} :
             input' = [of |-> "dump", selector |-> selector, dump |-> dump, scrubbed |-> scrubbed,
                       ok |-> dump.parsed /\ Range(dump.memory) \cup dump.environ \cup dump.cmdline
                                               \cup {dump.modules[1].name} \cup (IF Len(dump.modules) = 1 THEN {DebugFile} ELSE {}) \subseteq dump.readable]

(* A minidump that can be read keeps its stacks, unless a selector names    *)
(* them, and the names of its modules; a selector for attachments has its   *)
(* way with all other memory even if the minidump cannot be read            *)
(* (scrub_minidump, scrub_attachments).                                     *)
MinidumpUsable ==
  input.of = "dump" =>
    LET now == input.scrubbed
        basename(at, k) == SubSeq(now[at], Len(now[at]) - k, Len(now[at]))
        plain == Files!Paths!matches_selector(Files!FileState("f", "binary"), input.selector, "True")
    IN  /\ \A at \in DOMAIN FileData : Len(now[at]) = Len(FileData[at])
        /\ input.ok =>
             /\ input.selector # <<Type("stack_memory")>> => now[Stack] = FileData[Stack]
             /\ basename(CodeFile, 5) = <<"/", "0", "a", "0", "a", "0">>
             /\ \A at \in {DebugFile, OtherDebugFile} : basename(at, 2) = <<"/", "a", "a">>
        /\ plain \/ (input.ok /\ input.selector = <<Type("heap_memory")>>) => Files!Runs(now[Heap]) = <<>>
        /\ plain /\ input.dump.environ # {} => Files!AllWideMatches(now[Environ], "Match") = <<>>

-----------------------------------------------------------------------------
(* Requests for envelopes, and the request of the next Relay.              *)

Web == INSTANCE Requests WITH MaxHeaderSize <- 3

BodyLimit == 5
Auths ==
  {[ok |-> TRUE, key |-> "key", flags |-> {"no-cache"}, version |-> 7, client |-> {}],
   [ok |-> TRUE, key |-> "key", flags |-> {}, version |-> 6, client |-> {"sdk"}]}
Unread == [ok |-> FALSE, key |-> "key", flags |-> {}, version |-> 7, client |-> {}]
NewerAuth == [ok |-> TRUE, key |-> "key", flags |-> {}, version |-> 8, client |-> {}]
MalformedAuth == [ok |-> TRUE, key |-> "malformed", flags |-> {}, version |-> 7, client |-> {}]
PlainAuth == [ok |-> TRUE, key |-> "key", flags |-> {}, version |-> 7, client |-> {}]
AuthHeaders(auths) == {{}} \cup {{[scheme |-> scheme, auth |-> auth]} : scheme \in {"sentry", "basic"}, auth \in auths}

Site == [scheme |-> "https", url |-> "site"]
OtherSite == [scheme |-> "file", url |-> "other"]
HeaderLine(dsn, origin, forwarded) ==
  {[dsn |-> dsn, version |-> 7, client |-> {}, origin |-> origin, remote_addr |-> {}, forwarded_for |-> forwarded,
    user_agent |-> {"app"}, no_cache |-> forwarded # <<>>]}
HeaderLines ==
  {{}, {[h EXCEPT !.version = 8] : h \in HeaderLine({}, {}, <<>>)}} \cup UNION {{HeaderLine({}, {}, forwarded), HeaderLine({[public_key |-> "key", project_id |-> {"1"}]}, {Site}, forwarded),
                    HeaderLine({[public_key |-> "key", project_id |-> {"1"}]}, {OtherSite}, forwarded),
                    HeaderLine({[public_key |-> "key", project_id |-> {"2"}]}, {}, forwarded),
                    HeaderLine({[public_key |-> "key", project_id |-> {"0"}]}, {}, <<>>)} : forwarded \in {<<>>, <<"client">>}}
Bodies ==
  {<<>>, <<<<"{", "x">>>>, <<<<"{", "newline", "x">>>>, <<<<"{">>, <<"x", "newline">>, <<"y">>>>, <<<<"{", "x">>, <<"y", "z">>, <<"newline">>>>,
   <<<<"{">>, <<"x">>, <<"newline", "y", "z">>, <<"w">>>>, <<<<"newline">>, <<"{">>>>, <<<<"base64", "{", "newline">>>>}

EnvelopeRequest ==
  /\ input = Start
  /\ \E x \in AuthHeaders(Auths \cup {Unread, NewerAuth, MalformedAuth}), authorization \in AuthHeaders({PlainAuth}), query \in {{}} \cup {{a} : a \in Auths},
        segment \in {{}, {PlainAuth}}, origin \in {{}, {Site}, {OtherSite}}, referer \in {{}, {Site}},
        header \in HeaderLines, chunks \in Bodies, length \in {{}, {9}} :
       /\ Cardinality({x, authorization, query, segment} \ {{}}) <= 2
       /\ \E request \in {[x_sentry_auth |-> x, authorization |-> authorization, query |-> query, segment |-> segment, project |-> {"1"},
                           origin |-> origin, referer |-> referer, peer |-> {"peer"}, forwarded |-> <<>>, agent |-> {}, header |-> header,
                           chunks |-> chunks, length |-> length]} :
            \E result \in {Web!store_envelope(request, BodyLimit)} :
              input' = [of |-> "request", request |-> request, result |-> result]

(* An envelope is accepted for the one key that its request gives, in one   *)
(* place, and is read from all of the body, even if its first line was read *)
(* before to find the key; only a body without a newline is lost then       *)
(* (auth_from_request, EnvelopeMeta::from_request, PeekLine, StoreBody).    *)
RequestExact ==
  input.of = "request" =>
    LET r == input.request
        given == {r.query, r.segment, Web!get_auth_header(r.x_sentry_auth), Web!get_auth_header(r.authorization)} \ {{}}
        whole == FlattenSeq(r.chunks)
        dsn == UNION {h.dsn : h \in r.header}
        line == CHOOSE i \in 0 .. Len(whole) : (i = Len(whole) \/ whole[i + 1] = "newline") /\ \A j \in 1 .. i : whole[j] # "newline"
    IN  /\ input.result.ok =>
             /\ Cardinality(given) <= 1
             /\ input.result.value.meta.dsn = IF given = {} THEN dsn ELSE {[public_key |-> "key", project_id |-> r.project]}
             /\ input.result.value.body \in {whole, Tail(whole)}
        /\ ~input.result.ok => input.result.error # "EmptyBody" \/ whole = <<>> \/ (given = {} /\ line = Len(whole))
        /\ given = {} /\ dsn = {[public_key |-> "key", project_id |-> {"1"}]} /\ r.origin # {OtherSite} /\ (\A h \in r.header : Web!Forwardable(h)) /\ whole # <<>> /\ whole[1] = "{"
             /\ line < Len(whole) /\ line <= 3 /\ Len(whole) <= BodyLimit /\ r.length # {9} => input.result.ok

(* The next Relay sees the request of the client: its address, agent and    *)
(* origin, and if it asked for a fresh project (RequestMeta::auth_header,   *)
(* PartialMeta::copy_to, SendEnvelope).                                     *)
ForwardedAlike ==
  input.of = "request" /\ input.result.ok =>
    Web!ForwardsAlike(input.result.value.meta, <<"{", "newline">>, "3", "relay", BodyLimit)

-----------------------------------------------------------------------------
(* Selectors and metrics as text.                                          *)

Written == INSTANCE SelectorText WITH Unquoted <- {"a", "b", "email"}

TextItems == {Name("a"), Name("b c"), Name("email"), Type("string"), Wildcard, DeepWildcard}
SimpleSpecs == {Written!Path(path) : path \in {p \in SeqsUpTo(TextItems, 3) : Valid(p) /\ Len(p) # 2}}
FewSpecs == {Written!Path(path) : path \in {<<Name("a")>>, <<Type("string")>>, <<Name("email")>>, <<Name("a"), Name("b c")>>}}
Combined(specs) ==
  {Written!Not(s) : s \in specs} \cup {Written!And(<<s, t>>) : s, t \in specs} \cup {Written!Or(<<s, t>>) : s, t \in specs}

RECURSIVE AsSet(_)
AsSet(spec) == IF spec.is = "Path" THEN spec ELSE [is |-> spec.is, of |-> {AsSet(spec.of[n]) : n \in DOMAIN spec.of}]

TextPaths ==
  {<<EventRoot>> \o path : path \in {<<At({"a"}, {"string"})>>, <<At({"a"}, {"object"}), At({"b c"}, {"string"})>>, <<At({"email"}, {"number"})>>,
                                     <<At({"b c"}, {"object"}), At({"a"}, {"string"})>>, <<At({"email"}, {"object"}), At({"a"}, {"number"})>>}}

WriteSelector ==
  /\ input = Start
  /\ \E spec \in SimpleSpecs \cup Combined(FewSpecs) \cup Combined(Combined(FewSpecs)) :
       \E read \in {Written!from_str(Written!Display(spec))} :
         input' = [of |-> "selector text", spec |-> spec, read |-> read]

(* The next Relay chooses the same values with a selector it reads from     *)
(* the configuration, except for a key that is a word of older              *)
(* configurations (SelectorSpec: Display, FromStr).                         *)
SelectorsTravel ==
  input.of = "selector text" =>
    \/ input.spec = Written!Path(<<Name("email")>>) /\ input.read.spec = Written!Path(<<Type("string")>>)
    \/ /\ input.read.ok
       /\ \A path \in TextPaths, pii \in {"True", "Maybe"} :
            Personal!matches(path, AsSet(input.read.spec), pii) <=> Personal!matches(path, AsSet(input.spec), pii)

Lines == INSTANCE MetricText WITH ValidNames <- {"name"}, Numbers <- {"1", "2", "1.5"}, Unsigned <- {"1", "2"}, hash_set_value <- LAMBDA text : "2"

MetricLines ==
  {Lines!Line(name, value, <<Lines!Word(ty)>> \o parts) :
     name \in {<<"name">>, <<"name", "ms">>, <<"name", "none">>, <<"name", "s", "x">>, <<"name", "x">>, <<"">>}, value \in {{}, {"1"}, {"1.5"}, {"word"}},
     ty \in {"c", "m", "d", "h", "ms", "s", "g", "x"},
     parts \in {<<>>, <<Lines!Word("c")>>, <<Lines!Tags(<<[name |-> "tag", value |-> {}], [name |-> "tag", value |-> {"x"}]>>)>>,
                <<Lines!Tags(<<[name |-> "tag", value |-> {"x"}]>>), Lines!Word("c"), Lines!Tags(<<[name |-> "other", value |-> {}]>>)>>}}
LineOf(name) == Lines!Line(<<name>>, {"1"}, <<Lines!Word("c")>>)

MetricLine ==
  /\ input = Start
  /\ \E line \in MetricLines : input' = [of |-> "metrics", text |-> <<line>>]

MetricSymbol ==
  /\ input.of = "metrics" /\ Len(input.text) < MaxText
  /\ input.text[1] = LineOf("name")
  /\ \E symbol \in {Lines!Newline, Lines!Return, Lines!BadBytes, LineOf("name"), LineOf("")} :
       /\ Last(input.text) = Lines!Return => symbol = Lines!Newline
       /\ input' = [input EXCEPT !.text = Append(@, symbol)]

(* Every line of a request gives one result, in their order: a line that    *)
(* cannot be read costs no other, and empty lines are not metrics. A metric *)
(* that is written with its unit and type is read back                      *)
(* (ParseMetrics::next, Metric::parse_str).                                 *)
MetricsInOrder ==
  input.of = "metrics" =>
    LET text == input.text
        results == Lines!ParseMetrics(text)
        isLine(i, j) == (i = 1 \/ text[i - 1] = Lines!Newline) /\ (j = Len(text) \/ text[j + 1] = Lines!Newline)
                          /\ \A k \in i .. j : text[k] # Lines!Newline
        lines == {i \in DOMAIN text : text[i] # Lines!Return /\ \E j \in i .. Len(text) : isLine(i, j)}
        alone(i) == \E j \in {i, i + 1} \cap DOMAIN text : isLine(i, j) /\ (j > i => text[j] = Lines!Return)
        rank(i) == Cardinality({k \in lines : k <= i})
    IN  /\ Len(results) = Cardinality(lines)
        /\ \A i \in lines : results[rank(i)] # {} <=> alone(i) /\ text[i].is = "line" /\ Lines!parse_str(text[i]) # {}
        /\ \A n \in DOMAIN results : \A metric \in results[n] :
             LET again == Lines!Line(<<metric.name, Lines!UnitNames[metric.unit][1]>>, {metric.value}, <<Lines!Word(Lines!TypeNames[metric.ty][1])>>)
             IN  Lines!parse_str(again) = {[metric EXCEPT !.tags = <<>>]}

-----------------------------------------------------------------------------
(* What the algorithms promise, by subject.                                *)

(* Requests, envelopes and the files and reports in them are read as they  *)
(* were written, and completely.                                           *)
EnvelopeExact == EnvelopeRoundTrip /\ EnvelopeComplete /\ ErrorsTravel /\ ReadTheSame
                   /\ FormExact /\ EventIdAgrees /\ MinidumpKept /\ BreadcrumbsLatest /\ CrashIsError
                   /\ RequestExact /\ MetricsInOrder

(* Relays know each other, obey their configuration, and agree on the      *)
(* projects and the clients they share.                                    *)
RelaysAgree == RegisteredInTime /\ ChainAgrees /\ SettingsObeyed /\ FolderKept /\ ForwardedAlike /\ SelectorsTravel

(* Rules of the configuration mean the same to everyone who reads them.    *)
RulesAgree == OldRelayAgrees /\ LegacyDefault

(* Personal data is removed where rules, settings and selectors say, in    *)
(* events as in files, and nowhere else; the remarks say so.               *)
RedactionExact == RemarksExact /\ TrimBound /\ SelectorExact /\ PersonalBelow
                    /\ RulesCompiled /\ DataScrubbed /\ UserKept /\ SuggestionsUsable /\ ScrubbedInPlace /\ MinidumpUsable

(* Whatever was sent, a trimmed event respects its limits.                 *)
TrimmingBounds == BagBound /\ FrameBound /\ FreeFormBounded /\ LimitsApply

(* A normalized event is consistent.                                       *)
EventNormalized ==
  TimestampsSane /\ AttributesFit /\ AddressResolved /\ TagsUnique /\ TimeOnce /\ LossReported
    /\ UnreadReported /\ PairsKept /\ SameViolation /\ ReportExact

-----------------------------------------------------------------------------
Init == input = Start

Next ==
  \/ EnvelopeText \/ EnvelopeByte
  \/ EnvelopeItems \/ EnvelopeItem
  \/ Browser
  \/ SamplingRules
  \/ StringRules \/ StringByte
  \/ Databag \/ DatabagItem
  \/ Frames \/ FrameAdded
  \/ TimedEvent \/ AttributedEvent \/ TaggedEvent
  \/ Selector \/ PathState
  \/ Spans \/ SpanAdded
  \/ Event \/ EventChild
  \/ Convert
  \/ Register \/ ProjectConfigs
  \/ NewFolder \/ InitConfig \/ ManageCredentials \/ RunRelay \/ WriteSettings
  \/ CompileRules \/ ScrubValue \/ ScrubUser \/ SuggestPath \/ ScrubBytes \/ ScrubMinidump
  \/ EnvelopeRequest \/ WriteSelector \/ MetricLine \/ MetricSymbol
  \/ FormRequest \/ MinidumpRequest \/ BreadcrumbFiles \/ CrashEvent
  \/ CspReport \/ CertificateReport
  \/ JsonEvent \/ JsonItems \/ JsonCollections

Spec == Init /\ [][Next]_input

=============================================================================
