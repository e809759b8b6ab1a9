-------------------------- MODULE EnvelopeProcessor -------------------------
(***************************************************************************)
(* The pipeline that an EnvelopeProcessor worker runs an envelope through: *)
(* process_state in relay-server/src/actors/envelopes.rs. It handles one   *)
(* message at a time and shares nothing, so it is a relation between an    *)
(* envelope and the results it can have; what depends on payloads and on   *)
(* the project's configuration is a choice.                                *)
(***************************************************************************)
EXTENDS Envelope

CONSTANT EventName   \* the name of the item that serialize_event adds

ASSUME EventNameAssumption == EventName \in Nat

NoError == "none"

(* ProcessEnvelopeState. The event is known by its category; enforced are  *)
(* the items for which enforce_quotas has tracked outcomes.                *)
State(envelope) ==
  [error |-> NoError, envelope |-> envelope, event |-> NoCategory,
   enforced |-> execute(Summary(<<>>), {})]

Failed(s, error) == [s EXCEPT !.error = error]

(* The `?' between two steps.                                              *)
Then(results, Step(_)) ==
  UNION {IF s.error = NoError THEN Step(s) ELSE {s} : s \in results}

prepare_state(envelope) ==
  {State(envelope), Failed(State(envelope), "MissingProjectId")}

WithoutItems(s, gone) ==
  [s EXCEPT !.envelope = retain_items(s.envelope, Items(s.envelope) \ gone)]

Has(s, types) == OfType(s.envelope, types) # {}

(* Invalid sessions go. The metrics that are extracted from the others are  *)
(* not part of the envelope.                                               *)
process_sessions(s) == {WithoutItems(s, gone) : gone \in SUBSET OfType(s.envelope, {"Session"})}

(* Invalid user reports go.                                                *)
process_user_reports(s) ==
  {WithoutItems(s, gone) : gone \in SUBSET OfType(s.envelope, {"UserReport"})}

(* What a crash report may contain.                                        *)
UnrealContents == {<<"Minidump">>, <<"Minidump", "UnrealContext", "Attachment">>}

NewItem(ty, name) == [ty |-> ty, name |-> name, rate_limited |-> FALSE]

(* A name for the i-th of the contents of a report.                        *)
NewName(name, i) == 10 * name + i

(* expand_unreal replaces the report by its contents.                      *)
expand_unreal(s) ==
  LET report == s.envelope[First(s.envelope, OfType(s.envelope, {"UnrealReport"}))]
      rest == TakeType(s.envelope, "UnrealReport")
  IN  IF ~Has(s, {"UnrealReport"}) THEN {s}
      ELSE {Failed(s, "InvalidUnrealReport")}
             \cup {[s EXCEPT !.envelope =
                      rest \o [i \in DOMAIN c |-> NewItem(c[i], NewName(report.name, i))]] :
                     c \in UnrealContents}

-----------------------------------------------------------------------------
(* extract_event                                                           *)

(* It takes one item of each type (two breadcrumbs).                       *)
TakenFrom(envelope) ==
  LET t1 == TakeType(envelope, "Event")
      t2 == TakeType(t1, "Transaction")
      t3 == TakeType(t2, "Security")
      t4 == TakeType(t3, "RawSecurity")
      t5 == TakeType(t4, "FormData")
      t6 == TakeType(t5, "EventPayload")
      t7 == TakeType(t6, "Breadcrumbs")
  IN  TakeType(t7, "Breadcrumbs")

is_duplicate(item, processing) ==
  \/ item.ty \in {"Event", "Transaction", "Security", "FormData", "RawSecurity"}
  \/ item.ty = "UnrealReport" /\ processing

(* The categories of the event that can come out of the item it is taken   *)
(* from, by precedence, and the errors of that.                            *)
Extracted(s) ==
  CASE Has(s, {"Event", "Security"}) -> <<{NoCategory, "error"}, {"InvalidJson"}>>
    [] ~Has(s, {"Event", "Security"}) /\ Has(s, {"Transaction"}) ->
         <<{NoCategory, "transaction"}, {"InvalidJson"}>>
    [] ~Has(s, {"Event", "Security", "Transaction"}) /\ Has(s, {"RawSecurity"}) ->
         <<{"security"}, {"InvalidJson", "InvalidSecurityType", "InvalidSecurityReport"}>>
    [] ~Has(s, EventTypes \ {"UnrealReport"}) /\ Has(s, {"EventPayload", "Breadcrumbs"}) ->
         <<{NoCategory} \cup EventCategories, {"PayloadTooLarge", "InvalidMsgpack"}>>
    [] ~Has(s, EventTypes \ {"UnrealReport"}) /\ ~Has(s, {"EventPayload", "Breadcrumbs"})
         /\ Has(s, {"FormData"}) -> <<{NoCategory} \cup EventCategories, {}>>
    [] OTHER -> <<{NoCategory}, {}>>

extract_event(s, processing) ==
  LET rest == TakenFrom(s.envelope)
      extracted == Extracted(s)
  IN  IF \E item \in Items(rest) : is_duplicate(item, processing)
      THEN {Failed(s, "DuplicateItem")}
      ELSE {[s EXCEPT !.envelope = rest, !.event = category] : category \in extracted[1]}
             \cup {Failed(s, error) : error \in extracted[2]}

-----------------------------------------------------------------------------
(* The steps on the event.                                                 *)

OrDefault(category) == IF category = NoCategory THEN "error" ELSE category

(* process_unreal and create_placeholders: an unreal context, a minidump   *)
(* or a crash report make an event if there is none; an unreal context may *)
(* add a user report.                                                      *)
process_unreal(s) ==
  IF ~Has(s, {"UnrealContext", "UnrealLogs"}) THEN {s}
  ELSE {Failed(s, "InvalidUnrealReport")}
         \cup {[s EXCEPT !.envelope = @ \o report, !.event = OrDefault(@)] :
                 report \in {<<>>, <<NewItem("UserReport", EventName)>>}}

create_placeholders(s) ==
  {IF Has(s, {"Minidump", "AppleCrashReport"}) THEN [s EXCEPT !.event = OrDefault(@)] ELSE s}

finalize_event(s, processing) ==
  IF s.event = NoCategory
  THEN {IF processing THEN Failed(s, "NoEventPayload") ELSE s}
  ELSE {s, Failed(s, "InvalidTransaction")}

sample_event(s) ==
  IF s.event = NoCategory THEN {s} ELSE {s, Failed(s, "EventSampled")}

(* The store normalization, which infers the type of an event again.       *)
store_process_event(s) ==
  {Failed(s, "InvalidTransaction")}
    \cup {[s EXCEPT !.event = c] :
            c \in IF s.event = "transaction" THEN {"transaction"} ELSE {"error", "security"}}

extract_transaction_metrics(s) ==
  IF s.event = NoCategory THEN {Failed(s, "NoEventPayload")}
  ELSE {s}

filter_event(s) == {s, Failed(s, "EventFiltered")}

(* enforce_quotas removes the event if its category is limited.            *)
remove_event(s, limited) == IF s.event \in limited THEN NoCategory ELSE s.event

(* enforce_quotas, where the rate limiter limits some categories, fails,   *)
(* or is not there.                                                        *)
enforce_quotas(s) ==
  {Failed(s, "QuotasFailed")}
    \cup {LET result == enforce(s.envelope, s.event, limited)
          IN  [s EXCEPT !.envelope = result.envelope,
                        !.enforced = result.enforcement,
                        !.event = remove_event(s, limited)] :
            limited \in SUBSET Relevant(s.envelope, s.event)}

ItemOf(category) ==
  NewItem(CASE category = "transaction" -> "Transaction"
            [] category = "security" -> "Security"
            [] OTHER -> "Event", EventName)

(* scrub_event and serialize_event                                         *)
serialize_event(s) ==
  IF s.event = NoCategory THEN {s}
  ELSE {[s EXCEPT !.envelope = Append(@, ItemOf(s.event))],
        Failed(s, "ProcessingFailed"), Failed(s, "SerializeFailed")}

-----------------------------------------------------------------------------
(* The part of process_state for an envelope that creates an event.        *)
process_event(s, processing) ==
  LET If(Step(_), x) == IF processing THEN Step(x) ELSE {x}
      r1 == If(expand_unreal, s)
      r2 == Then(r1, LAMBDA x : extract_event(x, processing))
      r3 == Then(r2, LAMBDA x : If(process_unreal, x))
      r4 == Then(r3, LAMBDA x : If(create_placeholders, x))
      r5 == Then(r4, LAMBDA x : finalize_event(x, processing))
      r6 == Then(r5, sample_event)
      r7 == Then(r6, LAMBDA x : If(store_process_event, x))
      r8 == Then(r7, LAMBDA x : If(extract_transaction_metrics, x))
  IN  Then(r8, LAMBDA x : If(filter_event, x))

(* process with process_state: the results that an envelope can have.      *)
process_state(envelope, processing) ==
  LET r1 == Then(prepare_state(envelope), process_sessions)
      r2 == Then(r1, process_user_reports)
      r3 == Then(r2, LAMBDA x :
              IF \E item \in Items(x.envelope) : creates_event(item)
              THEN process_event(x, processing) ELSE {x})
      r4 == Then(r3, LAMBDA x : IF processing THEN enforce_quotas(x) ELSE {x})
  IN  Then(r4, serialize_event)

=============================================================================
