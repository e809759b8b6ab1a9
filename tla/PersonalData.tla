---------------------------- MODULE PersonalData ----------------------------
(***************************************************************************)
(* Rules for personal data in relay-general/src/pii: how rules refer to    *)
(* each other (config.rs, builtin.rs, compiledconfig.rs), what a rule does *)
(* to a value (regexes.rs, processor.rs), the older settings for data      *)
(* scrubbing (legacy.rs, convert.rs) and the selectors that are suggested  *)
(* to users (generate_selectors.rs).                                       *)
(*                                                                         *)
(* An id of a rule is a sequence of its names. Optional values are sets.   *)
(* What a regular expression finds is abstracted to the set of patterns    *)
(* that a key or a text matches.                                           *)
(***************************************************************************)
EXTENDS Integers, Sequences, SequencesExt

Paths == INSTANCE Selectors
           WITH BasicTypes <- {"string", "binary", "number", "boolean", "datetime", "array", "object"}

-----------------------------------------------------------------------------
(* Rules and what they refer to.                                           *)

Redaction(method, text) == [method |-> method, text |-> text]
Default == Redaction("Default", "")
Replace(text) == Redaction("Replace", text)

RuleSpec(ty, redaction) == [ty |-> ty, redaction |-> redaction, rules |-> <<>>, hide_inner |-> FALSE]
MultipleRule(rules, hide_inner, redaction) == [ty |-> "Multiple", redaction |-> redaction, rules |-> rules, hide_inner |-> hide_inner]
rule_alias(target) == [ty |-> "Alias", redaction |-> Default, rules |-> <<target>>, hide_inner |-> TRUE]

(* What a family of builtin rules puts in the place of what it matches.    *)
ReplaceTexts ==
  [anything |-> "[Filtered]", ip |-> "[ip]", imei |-> "[imei]", mac |-> "[mac]", uuid |-> "[uuid]", email |-> "[email]",
   creditcard |-> "[creditcard]", pemkey |-> "[pemkey]", urlauth |-> "[auth]", usssn |-> "[us-ssn]",
   userpath |-> "[user]", password |-> "[password]"]
Families == DOMAIN ReplaceTexts

AliasOf(family) ==
  CASE family \in {"mac", "uuid", "usssn"} -> "mask"
    [] family = "password" -> "remove"
    [] family \notin {"mac", "uuid", "usssn", "password"} -> "replace"

Variants(family) ==
  {"replace", "hash", "mask", "remove"}
    \cup (IF family \in {"creditcard", "pemkey", "usssn", "password"} THEN {"filter"} ELSE {})
    \cup (IF family = "urlauth" THEN {"legacy"} ELSE {})

(* The rule that masks an IMEI hashes it.                                  *)
Variant(family, variant) ==
  CASE variant = "replace" -> RuleSpec(family, Replace(ReplaceTexts[family]))
    [] variant = "filter" -> RuleSpec(family, Replace("[Filtered]"))
    [] variant = "legacy" -> RuleSpec("pattern", Replace("[Filtered]"))
    [] variant = "remove" -> RuleSpec(family, Redaction("Remove", ""))
    [] variant = "hash" \/ <<family, variant>> = <<"imei", "mask">> -> RuleSpec(family, Redaction("Hash", ""))
    [] variant = "mask" /\ family # "imei" -> RuleSpec(family, Redaction("Mask", ""))

common == <<<<"ip">>, <<"email">>, <<"creditcard">>, <<"pemkey">>, <<"urlauth">>, <<"userpath">>, <<"password">>, <<"usssn">>>>
common_filter ==
  <<<<"creditcard", "filter">>, <<"pemkey", "filter">>, <<"urlauth", "legacy">>, <<"userpath", "filter">>,
    <<"password", "filter">>, <<"usssn", "filter">>>>

BUILTIN_RULES_MAP(id) ==
  CASE id = <<"common">> -> {MultipleRule(common, FALSE, Default)}
    [] id = <<"common", "filter">> -> {MultipleRule(common_filter, FALSE, Default)}
    [] id # <<"common">> /\ Len(id) = 1 -> IF id[1] \in Families THEN {rule_alias(<<id[1], AliasOf(id[1])>>)} ELSE {}
    [] id # <<"common", "filter">> /\ Len(id) = 2 ->
         IF id[1] \in Families THEN {Variant(id[1], id[2]) : v \in Variants(id[1]) \cap {id[2]}} ELSE {}

(* The rules of the project go before builtin ones.                        *)
get_rule(config, id) == IF id \in DOMAIN config.rules THEN {config.rules[id]} ELSE BUILTIN_RULES_MAP(id)

-----------------------------------------------------------------------------
(* CompiledPiiConfig: the rules that an application comes down to, with    *)
(* the rule that is reported as their origin.                              *)

RuleRef(id, spec) == [id |-> id, origin |-> id, ty |-> spec.ty, redaction |-> spec.redaction]

for_parent_Own(rule, parent) == IF parent = {} THEN rule ELSE [rule EXCEPT !.origin = (CHOOSE p \in parent : TRUE).origin]

for_parent(rule, parent) ==
  IF parent = {} THEN rule
  ELSE LET p == CHOOSE p \in parent : TRUE
       IN  [rule EXCEPT !.origin = p.origin, !.redaction = IF p.redaction = Default THEN @ ELSE p.redaction]

(* Rules are a set by their id: the first one with an id stays. References *)
(* must have no cycles.                                                    *)
RECURSIVE collect_rules(_, _, _, _)
collect_rules(config, rules, id, parent) ==
  LET spec == CHOOSE s \in get_rule(config, id) : TRUE
      rule == for_parent(RuleRef(id, spec), parent)
      inner == IF spec.hide_inner THEN {rule} ELSE {}
  IN  IF get_rule(config, id) = {} \/ \E r \in rules : r.id = id THEN rules
      ELSE IF spec.ty \in {"Multiple", "Alias"}
      THEN FoldLeft(LAMBDA found, next : collect_rules(config, found, next, inner), rules, spec.rules)
      ELSE rules \cup {rule}

Collected(config, ids) == FoldLeft(LAMBDA found, id : collect_rules(config, found, id, {}), {}, ids)

CompiledPiiConfig(config) ==
  [n \in DOMAIN config.applications |->
     [selector |-> config.applications[n].selector, rules |-> Collected(config, config.applications[n].rules)]]

-----------------------------------------------------------------------------
(* What a rule does to a value.                                            *)

(* Patterns that are matched with keys too replace the whole value.        *)
get_regex_for_rule_type(ty) ==
  IF ty \in {"strip-fields", "password"} THEN [pattern |-> "KeyValue", replace |-> "Value"]
  ELSE [pattern |-> "Value", replace |-> IF ty \in {"ip", "pemkey", "urlauth", "userpath", "pattern"} THEN "Group" ELSE "Match"]

(* The result of one rule: removed ends all processing of the value.       *)
apply_rule_to_value(rule, value) ==
  LET in_place == value.kind = "string" /\ rule.redaction.method \notin {"Default", "Remove"}
      keyed == get_regex_for_rule_type(rule.ty).pattern = "KeyValue" /\ rule.ty \in value.key
      found == value.kind = "string" /\ (rule.ty \in value.text \/ rule.ty = "anything")
  IN  IF (rule.ty = "anything" \/ keyed) /\ ~in_place THEN "removed"
      ELSE IF keyed \/ found THEN "redacted" ELSE "kept"

RECURSIVE matches(_, _, _)
matches(path, spec, pii) ==
  /\ pii # "False"
  /\ CASE spec.is = "Path" -> Paths!matches_selector(path, spec.path, pii)
       [] spec.is = "And" -> \A s \in spec.of : matches(path, s, pii)
       [] spec.is = "Or" -> \E s \in spec.of : matches(path, s, pii)
       [] spec.is = "Not" -> \A s \in spec.of : ~matches(path, s, pii)

(* PiiProcessor: before_process and process_string.                        *)
apply_all_rules(compiled, value) ==
  LET results == {apply_rule_to_value(rule, value) :
                    rule \in UNION {compiled[n].rules : n \in {m \in DOMAIN compiled : matches(value.path, compiled[m].selector, value.pii)}}}
  IN  IF value.kind = "boolean" \/ value.trivial THEN "kept"
      ELSE IF "removed" \in results THEN "removed"
      ELSE IF "redacted" \in results THEN "redacted" ELSE "kept"

(* An address that is no longer one becomes the id of a user without any.  *)
process_user_Always(user, scrubbed) ==
  IF \A a \in scrubbed.ip_address : a.valid THEN scrubbed ELSE [scrubbed EXCEPT !.id = scrubbed.ip_address, !.ip_address = {}]

process_user(user, scrubbed) ==
  LET valid(u) == \A a \in u.ip_address : a.valid
  IN  IF valid(user) /\ ~valid(scrubbed) /\ scrubbed.id = {} /\ scrubbed.username = {} /\ scrubbed.email = {}
      THEN [scrubbed EXCEPT !.id = scrubbed.ip_address, !.ip_address = {}]
      ELSE scrubbed

-----------------------------------------------------------------------------
(* DataScrubbingConfig, the older settings.                                *)

PathSpec(path) == [is |-> "Path", path |-> path]
AnyOf(specs) == [is |-> "Or", of |-> specs]
NotSpec(spec) == [is |-> "Not", of |-> {spec}]

KNOWN_IP_FIELDS ==
  AnyOf({PathSpec(<<Paths!Type("request"), Paths!Name("env"), Paths!Name("REMOTE_ADDR")>>),
         PathSpec(<<Paths!Type("user"), Paths!Name("ip_address")>>), PathSpec(<<Paths!Type("sdk"), Paths!Name("client_ip")>>)})
DATASCRUBBER_IGNORE ==
  AnyOf({PathSpec(<<Paths!Name("debug_meta"), Paths!DeepWildcard>>), PathSpec(<<Paths!Type("frame"), Paths!Name("filename")>>),
         PathSpec(<<Paths!Type("frame"), Paths!Name("abs_path")>>), PathSpec(<<Paths!Type("logentry"), Paths!Name("formatted")>>),
         PathSpec(<<Paths!Type("error"), Paths!Name("value")>>)})

is_disabled_Data(settings) == ~settings.scrub_data

is_disabled(settings) == ~settings.scrub_data /\ ~settings.scrub_ip_addresses

new_disabled ==
  [scrub_data |-> FALSE, scrub_ip_addresses |-> FALSE, scrub_defaults |-> FALSE, sensitive_fields |-> {}, exclude_fields |-> {}]

(* Settings as the next Relay reads them: they are left out if disabled.   *)
SettingsSent(settings) == IF is_disabled(settings) THEN new_disabled ELSE settings

to_pii_config(settings) ==
  LET named == settings.scrub_data /\ settings.sensitive_fields \ {""} # {}
      rules == (IF settings.scrub_data /\ settings.scrub_defaults THEN <<<<"common", "filter">>>> ELSE <<>>)
                 \o (IF named THEN <<<<"strip-fields">>>> ELSE <<>>)
      selector == [is |-> "And",
                   of |-> {AnyOf({PathSpec(<<Paths!Type(ty)>>) : ty \in {"string", "number", "array"}}), NotSpec(DATASCRUBBER_IGNORE)}
                            \cup {NotSpec(PathSpec(<<Paths!Name(field)>>)) : field \in settings.exclude_fields \ {""}}]
      applications == (IF settings.scrub_ip_addresses THEN <<[selector |-> KNOWN_IP_FIELDS, rules |-> <<<<"anything", "remove">>>>]>> ELSE <<>>)
                        \o (IF rules # <<>> THEN <<[selector |-> selector, rules |-> rules]>> ELSE <<>>)
  IN  IF applications = <<>> THEN {}
      ELSE {[rules |-> [id \in IF named THEN {<<"strip-fields">>} ELSE {} |-> RuleSpec("strip-fields", Replace("[Filtered]"))],
             applications |-> applications]}

-----------------------------------------------------------------------------
(* Suggested selectors of a value. Every state of its path has at most one *)
(* type that belongs to the schema.                                        *)

PlainTypes == {"string", "number", "boolean", "datetime"}
SchemaTypes(state) == state.types \ (PlainTypes \cup {"object", "array"})

ItemsBelow_Inward(path, k) ==
  [n \in 1 .. Len(path) - k |-> LET s == path[Len(path) + 1 - n] IN IF s.index THEN Paths!Wildcard ELSE Paths!Name(CHOOSE x \in s.name : TRUE)]

ItemsBelow(path, k) ==
  [n \in 1 .. Len(path) - k |-> LET s == path[k + n] IN IF s.index THEN Paths!Wildcard ELSE Paths!Name(CHOOSE x \in s.name : TRUE)]

(* The search goes from the value to the root, up to a type that leads to it. *)
selector_suggestions(path, pii, kind) ==
  LET fits(selector) == selector # <<>> /\ Paths!matches_selector(path, selector, pii)
      typed(k) == {selector \in {<<Paths!Type(ty)>> \o ItemsBelow(path, k) : ty \in SchemaTypes(path[k])} : fits(selector)}
      ends == {k \in DOMAIN path : typed(k) # {}}
      end == IF ends = {} THEN 1 ELSE CHOOSE k \in ends : \A l \in ends : l <= k
      plain == {<<Paths!Type(ty)>> : ty \in UNION {path[k].types \cap PlainTypes : k \in end .. Len(path)}}
  IN  IF kind = "boolean" \/ pii = "False" THEN {}
      ELSE {s \in plain : fits(s)} \cup IF ends # {} THEN typed(end) ELSE {s \in {ItemsBelow(path, 1)} : fits(s)}

=============================================================================
