------------------------------ MODULE Envelope ------------------------------
(***************************************************************************)
(* Envelopes and what is taken from them: Envelope and Item in             *)
(* relay-server/src/envelope.rs, the rate limiting of their items in       *)
(* relay-server/src/utils/rate_limits.rs, and trace sampling in            *)
(* relay-server/src/utils/dynamic_sampling.rs.                             *)
(*                                                                         *)
(* An envelope is the sequence of its items. An item is its type, a name   *)
(* that stands for its payload, and the header `rate_limited'. The type of *)
(* an attachment is its AttachmentType.                                    *)
(***************************************************************************)
EXTENDS Integers, Sequences, FiniteSets

CONSTANT NoCategory   \* None, in place of a data category

ASSUME NoCategoryAssumption == NoCategory \notin {"error", "transaction", "security"}

AttachmentTypes ==
  {"Attachment", "Minidump", "AppleCrashReport", "EventPayload", "Breadcrumbs",
   "UnrealContext", "UnrealLogs"}

EventTypes == {"Event", "Transaction", "Security", "RawSecurity", "UnrealReport"}

OtherTypes == {"FormData", "UserReport", "Session", "Sessions", "Metrics", "MetricBuckets"}

ItemTypes == AttachmentTypes \cup EventTypes \cup OtherTypes

is_attachment(item) == item.ty \in AttachmentTypes

(* Item::creates_event                                                     *)
creates_event(item) ==
  item.ty \in EventTypes \cup {"Minidump", "AppleCrashReport", "EventPayload", "Breadcrumbs"}

(* Item::requires_event                                                    *)
requires_event(item) ==
  item.ty \in EventTypes \cup AttachmentTypes \cup {"FormData", "UserReport"}

is_metric(item) == item.ty \in {"Metrics", "MetricBuckets"}

Item == [ty : ItemTypes, name : Nat, rate_limited : BOOLEAN]

(* The items in an envelope.                                               *)
Items(envelope) == {envelope[i] : i \in DOMAIN envelope}

(* The index of the first of some of the items in an envelope.             *)
First(envelope, items) ==
  CHOOSE i \in DOMAIN envelope :
    envelope[i] \in items /\ \A j \in DOMAIN envelope : envelope[j] \in items => i <= j

(* retain_items: some of the items in an envelope stay, in their order.    *)
retain_items(envelope, kept) ==
  LET at == {i \in DOMAIN envelope : envelope[i] \in kept}
  IN  [k \in 1 .. Cardinality(at) |->
         envelope[CHOOSE i \in at : Cardinality({j \in at : j <= i}) = k]]

OfType(envelope, types) == {item \in Items(envelope) : item.ty \in types}

(* take_item_by: the first of some items goes, and the last item of the    *)
(* envelope takes its place.                                               *)
take_item_by(envelope, items) ==
  LET i == First(envelope, items)
      n == Len(envelope)
  IN  IF Items(envelope) \cap items = {} THEN envelope
      ELSE [j \in 1 .. n - 1 |-> IF j = i THEN envelope[n] ELSE envelope[j]]

(* take_item_by until no such item is left: the last of the items that     *)
(* stay fill the gaps, the very last one the first gap.                    *)
take_items_by(envelope, items) ==
  LET kept == {i \in DOMAIN envelope : envelope[i] \notin items}
      gap(i) == Cardinality((1 .. i) \ kept)
  IN  [i \in 1 .. Cardinality(kept) |->
         IF i \in kept THEN envelope[i]
         ELSE envelope[CHOOSE j \in kept : Cardinality({k \in kept : j <= k}) = gap(i)]]

TakeType(envelope, type) == take_item_by(envelope, OfType(envelope, {type}))

Dependent(envelope) == {item \in Items(envelope) : requires_event(item)}

(* split_by(requires_event): <<what is split off, what remains>>. Nothing  *)
(* is split off an envelope whose items are all alike.                     *)
split_by(envelope) ==
  IF Dependent(envelope) \in {{}, Items(envelope)}
  THEN <<<<>>, envelope>>
  ELSE <<retain_items(envelope, Dependent(envelope)),
         retain_items(envelope, Items(envelope) \ Dependent(envelope))>>

-----------------------------------------------------------------------------
(* EnvelopeSummary and EnvelopeLimiter                                     *)

(* infer_event_category                                                    *)
infer_event_category(item) ==
  CASE item.ty = "Transaction" -> "transaction"
    [] item.ty \in {"Security", "RawSecurity"} -> "security"
    [] OTHER -> "error"

EventCategories == {"error", "transaction", "security"}

(* EnvelopeSummary::compute. The quantities of attachments and sessions    *)
(* are kept as the items they count.                                       *)
Summary(envelope) ==
  LET counted == {item \in Items(envelope) : ~item.rate_limited}
      creating == {item \in Items(envelope) : creates_event(item)}
  IN  [event       |-> IF creating = {} THEN NoCategory
                       ELSE infer_event_category(envelope[First(envelope, creating)]),
       attachments |-> {item.name : item \in {i \in counted : is_attachment(i)}},
       sessions    |-> {item.name : item \in {i \in counted : i.ty = "Session"}},
       plain       |-> \E item \in Items(envelope) : is_attachment(item) /\ ~creates_event(item)]

(* The categories that make a difference to an envelope, with an event of  *)
(* category `assumed' in addition.                                         *)
Relevant(envelope, assumed) ==
  ({assumed, Summary(envelope).event} \ {NoCategory})
    \cup (IF Summary(envelope).attachments # {} THEN {"attachment"} ELSE {})
    \cup (IF Summary(envelope).sessions # {} THEN {"session"} ELSE {})

(* EnvelopeLimiter::execute, where `limited' are the categories for which  *)
(* check() returns a rate limit: what is enforced, and the categories of   *)
(* the rate limits that the client is told.                                *)
execute(summary, limited) ==
  LET event == summary.event # NoCategory /\ summary.event \in limited
      attachments == event \/ "attachment" \in limited
      sessions == "session" \in limited
  IN  [event       |-> event,
       attachments |-> IF attachments THEN summary.attachments ELSE {},
       sessions    |-> IF sessions THEN summary.sessions ELSE {},
       limits      |-> (IF event THEN {summary.event} ELSE {})
                         \cup (IF ~event /\ attachments /\ summary.attachments # {} /\ summary.plain
                               THEN {"attachment"} ELSE {})
                         \cup (IF sessions /\ summary.sessions # {} THEN {"session"} ELSE {})]

(* retain_item marks an attachment that it must keep.                      *)
retained(item, enforcement) ==
  IF enforcement.attachments # {} /\ is_attachment(item)
  THEN [item EXCEPT !.rate_limited = TRUE] ELSE item

(* EnvelopeLimiter::retain_item                                            *)
retain_item(item, enforcement) ==
  /\ ~(enforcement.event /\ requires_event(item))
  /\ ~(enforcement.attachments # {} /\ is_attachment(item) /\ ~creates_event(item))
  /\ ~(enforcement.sessions # {} /\ item.ty = "Session")

(* EnvelopeLimiter::enforce. With assume_event, `assumed' is the category  *)
(* of an event that is not in the envelope.                                *)
enforce(envelope, assumed, limited) ==
  LET summary == IF assumed = NoCategory THEN Summary(envelope)
                 ELSE [Summary(envelope) EXCEPT !.event = assumed]
      enforcement == execute(summary, limited)
      kept == retain_items(envelope, {item \in Items(envelope) : retain_item(item, enforcement)})
  IN  [enforcement |-> enforcement,
       envelope    |-> [i \in DOMAIN kept |-> retained(kept[i], enforcement)]]

-----------------------------------------------------------------------------
(* Trace sampling                                                          *)

(* sample_transaction_internal, if the trace is to be dropped: the         *)
(* transaction goes with all items that require an event.                  *)
sample_transaction(envelope) ==
  LET rest == TakeType(envelope, "Transaction")
  IN  IF OfType(envelope, {"Transaction"}) = {} THEN envelope
      ELSE retain_items(rest, Items(rest) \ Dependent(rest))

=============================================================================
