------------------------------ MODULE Sampling ------------------------------
(***************************************************************************)
(* Dynamic sampling: rules and conditions in relay-sampling/src/lib.rs,    *)
(* and the decision on an event in relay-server/src/utils/                 *)
(* dynamic_sampling.rs.                                                    *)
(*                                                                         *)
(* A condition is a tree. A value of a field is Null, a text or a Boolean. *)
(* Random numbers and sample rates are in 0 .. Scale. An operator that     *)
(* only a newer Relay knows is "newer"; this Relay reads it as             *)
(* "unsupported".                                                          *)
(***************************************************************************)
EXTENDS Filters

CONSTANT Scale

ASSUME ScaleAssumption == Scale \in Nat \ {0}

Null == [t |-> "null"]
Str(s) == [t |-> "string", v |-> s]
Bool(b) == [t |-> "bool", v |-> b]
Array(strings) == [t |-> "array", v |-> strings]

(* What an Option of a text gives; the empty text gives Null for users.    *)
Text(option) == IF option = {} THEN Null ELSE Str(CHOOSE s \in option : TRUE)
NonEmpty(option) == Text(option \ {""})

(* FieldValueProvider::get_value of an Event and of a TraceContext         *)
get_value(provider, name) ==
  IF provider.is = "trace"
  THEN CASE name = "trace.release" -> Text(provider.release)
         [] name = "trace.environment" -> Text(provider.environment)
         [] name = "trace.user.id" -> NonEmpty(provider.user_id)
         [] name = "trace.user.segment" -> NonEmpty(provider.user_segment)
         [] OTHER -> Null
  ELSE CASE name = "event.release" -> Text(provider.release)
         [] name = "event.environment" -> Text(provider.environment)
         [] name = "event.user.id" -> NonEmpty(provider.user_id)
         [] name = "event.user.segment" -> NonEmpty(provider.user_segment)
         [] name = "event.is_local_ip" -> Bool(localhost_matches(provider))
         [] name = "event.has_bad_browser_extensions" -> Bool(browser_extensions_matches(provider))
         [] name = "event.web_crawlers" -> Bool(web_crawlers_matches(provider))
         [] OTHER -> Null

(* unicase::eq: here, "A" is the other case of "a".                        *)
Fold(s) == IF s = "A" THEN "a" ELSE s
SameText(c, s, t) == IF c.ignore_case THEN Fold(s) = Fold(t) ELSE s = t

eq_matches(c, provider) ==
  LET field == get_value(provider, c.name)
  IN  CASE field.t = "null" -> c.value = Null
        [] field.t = "string" ->
             \/ c.value.t = "string" /\ SameText(c, field.v, c.value.v)
             \/ c.value.t = "array" /\ \E s \in c.value.v : SameText(c, field.v, s)
        [] field.t = "bool" -> c.value = field

glob_matches(c, provider) ==
  LET field == get_value(provider, c.name) IN field.t = "string" /\ is_match(c.value, field.v)

(* get_custom_operator: the filters, for events only.                      *)
custom_matches(c, provider, ip) ==
  /\ provider.is = "event"
  /\ CASE c.name = "event.client_ip" -> client_ips_matches(ip, c.value)
       [] c.name = "event.legacy_browser" -> legacy_browsers_matches(provider, c.value)
       [] c.name = "event.error_messages" -> error_messages_matches(provider, c.value)
       [] c.name = "event.csp" -> csp_matches(provider, c.value)
       [] OTHER -> FALSE

RECURSIVE matches(_, _, _)
matches(c, provider, ip) ==
  CASE c.op = "eq" -> eq_matches(c, provider)
    [] c.op = "glob" -> glob_matches(c, provider)
    [] c.op = "and" -> \A n \in DOMAIN c.inner : matches(c.inner[n], provider, ip)
    [] c.op = "or" -> \E n \in DOMAIN c.inner : matches(c.inner[n], provider, ip)
    [] c.op = "not" -> ~matches(c.inner[1], provider, ip)
    [] c.op = "custom" -> custom_matches(c, provider, ip)
    [] c.op = "unsupported" -> FALSE
    [] c.op = "newer" -> c.holds

supported_Shallow(c) == c.op # "unsupported"

RECURSIVE supported(_)
supported(c) ==
  CASE c.op = "unsupported" -> FALSE
    [] c.op \in {"and", "or", "not"} -> \A n \in DOMAIN c.inner : supported(c.inner[n])
    [] OTHER -> TRUE

has_unsupported_rules(rules) == \E n \in DOMAIN rules : ~supported(rules[n].condition)

-----------------------------------------------------------------------------
(* get_matching_event_rule and get_matching_trace_rule: the first one.     *)
MatchingRules(rules, provider, ip, ty) ==
  SelectSeq(rules, LAMBDA r : r.ty = ty /\ matches(r.condition, provider, ip))

rule_type_for_event(event) == IF event.ty = "Transaction" THEN "transaction" ELSE "error"

Kept(random, rate) == random < rate

(* The decision of the first rule, for a pseudo random number that depends *)
(* on the id of the event or trace and is the same in every Relay.         *)
Decision(matching, random) ==
  IF matching = <<>> THEN [is |-> "NoDecision"]
  ELSE IF Kept(random, matching[1].sample_rate) THEN [is |-> "Keep"]
  ELSE [is |-> "Drop", rule |-> matching[1].id]

(* TraceContext::should_keep                                               *)
should_keep_trace(trace, ip, rules) == Decision(MatchingRules(rules, trace, ip, "trace"), trace.random)

should_keep_event(event, ip, rules, processing_enabled) ==
  IF ~processing_enabled /\ has_unsupported_rules(rules) THEN [is |-> "Keep"]
  ELSE IF event.random = {} THEN [is |-> "NoDecision"]   \* an event without an id
  ELSE Decision(MatchingRules(rules, event, ip, rule_type_for_event(event)),
                CHOOSE random \in event.random : TRUE)

(* sample_transaction_internal, for the trace of a transaction.            *)
should_keep_transaction(trace, ip, rules, processing_enabled) ==
  IF ~processing_enabled /\ has_unsupported_rules(rules) THEN [is |-> "Keep"]
  ELSE should_keep_trace(trace, ip, rules)

-----------------------------------------------------------------------------
(* What a Relay reads that does not know the newer operators.              *)
RECURSIVE Deserialized(_)
Deserialized(c) ==
  CASE c.op = "newer" -> [op |-> "unsupported"]
    [] c.op \in {"and", "or", "not"} ->
         [c EXCEPT !.inner = [n \in DOMAIN c.inner |-> Deserialized(c.inner[n])]]
    [] OTHER -> c

=============================================================================
