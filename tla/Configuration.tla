---------------------------- MODULE Configuration ----------------------------
(***************************************************************************)
(* The configuration of a Relay and the commands that read and change it:  *)
(* relay-config/src (config.rs, upstream.rs, byte_size.rs) and relay/src   *)
(* (cli.rs, setup.rs).                                                     *)
(*                                                                         *)
(* The folder of a Relay has two files, each a set with at most one        *)
(* element. Settings that come as text are read by Read, which has no      *)
(* value for a text that cannot be read. Optional values are sets.         *)
(***************************************************************************)
EXTENDS Naturals, Sequences

CONSTANTS Kilo, Kibi,    \* factors of units of sizes
          Read(_, _)     \* the value of a setting that comes as text

-----------------------------------------------------------------------------
(* Sizes, and the address of the upstream, as they are written.            *)

Units == <<[name |-> "MiB", factor |-> Kibi * Kibi], [name |-> "MB", factor |-> Kilo * Kilo],
           [name |-> "KiB", factor |-> Kibi], [name |-> "kB", factor |-> Kilo], [name |-> "B", factor |-> 1]>>

infer(bytes) ==
  LET fits == {n \in DOMAIN Units : bytes % Units[n].factor = 0}
      first == CHOOSE n \in fits : \A k \in fits : n <= k
  IN  [value |-> bytes \div Units[first].factor, unit |-> Units[first].name]

as_bytes(size) == size.value * Units[CHOOSE n \in DOMAIN Units : Units[n].name = size.unit].factor

default_port == [http |-> 80, https |-> 443]

upstream_to_string(descriptor) ==
  [scheme |-> descriptor.scheme, host |-> {descriptor.host},
   port |-> {p \in {descriptor.port} : p # default_port[descriptor.scheme]}, path |-> "/"]

upstream_from_str(url) ==
  CASE url.path # "/" -> [is |-> "NonOriginUrl"]
    [] url.path = "/" /\ url.scheme \notin DOMAIN default_port -> [is |-> "UnknownScheme"]
    [] url.path = "/" /\ url.scheme \in DOMAIN default_port ->
         IF url.host = {} THEN [is |-> "NoHost"]
         ELSE [is |-> "upstream",
               upstream |-> [scheme |-> url.scheme, host |-> CHOOSE h \in url.host : TRUE,
                             port |-> IF url.port = {} THEN default_port[url.scheme] ELSE CHOOSE p \in url.port : TRUE]]

-----------------------------------------------------------------------------
(* Values and their defaults.                                              *)

DefaultRelay == [mode |-> "Managed", upstream |-> "sentry.io", host |-> "localhost", port |-> "3000"]
DefaultProcessing == [enabled |-> FALSE, kafka_config |-> <<>>, redis |-> {}]
DefaultOutcomes == [emit_outcomes |-> FALSE, source |-> {}]
DefaultValues ==
  [relay |-> DefaultRelay, processing |-> DefaultProcessing, outcomes |-> DefaultOutcomes,
   ready |-> "Authenticated", auth_interval |-> {600}]

OverridableConfig ==
  [f \in {"upstream", "host", "port", "processing", "kafka_url", "redis_url", "id", "public_key", "secret_key", "outcome_source"} |-> {}]

CredentialFields == {"id", "public_key", "secret_key"}
Torn == [f \in CredentialFields |-> "torn"]

-----------------------------------------------------------------------------
(* Config::from_path and apply_override.                                   *)

Failed(kind) == [is |-> "error", kind |-> kind]
Loaded(values, credentials) == [is |-> "config", values |-> values, credentials |-> credentials]

from_path(folder, compiled) ==
  CASE folder.config = {} -> Failed("CouldNotOpenFile")
    [] folder.config # {} ->
         LET values == CHOOSE v \in folder.config : TRUE
         IN  IF Torn \in folder.credentials THEN Failed("BadJson")
             ELSE IF values.processing.enabled /\ ~compiled THEN Failed("ProcessingNotAvailable")
             ELSE Loaded(values, folder.credentials)

Unread(overrides) ==
  {f \in {"upstream", "host", "port", "processing", "id", "public_key", "secret_key"} :
     \E text \in overrides[f] : Read(f, text) = {}}

(* The value that an override sets, or the one there was.                  *)
Set(overrides, f, old) ==
  IF overrides[f] = {} THEN old ELSE CHOOSE v \in Read(f, CHOOSE text \in overrides[f] : TRUE) : TRUE

SetKafka(kafka_config, url) ==
  LET found == {n \in DOMAIN kafka_config : kafka_config[n].name = "bootstrap.servers"}
      first == CHOOSE n \in found : \A k \in found : n <= k
  IN  IF found # {} THEN [kafka_config EXCEPT ![first].value = url]
      ELSE Append(kafka_config, [name |-> "bootstrap.servers", value |-> url])

apply_values(values, o) ==
  [values EXCEPT
     !.relay = [@ EXCEPT !.upstream = Set(o, "upstream", @), !.host = Set(o, "host", @), !.port = Set(o, "port", @)],
     !.processing = [enabled |-> Set(o, "processing", @.enabled),
                     redis |-> IF o.redis_url # {} THEN o.redis_url ELSE @.redis,
                     kafka_config |-> IF o.kafka_url = {} THEN @.kafka_config
                                      ELSE SetKafka(@.kafka_config, CHOOSE url \in o.kafka_url : TRUE)],
     !.outcomes.source = IF o.outcome_source # {} THEN o.outcome_source ELSE @]

(* Parts of credentials can be replaced, but not be all there is.          *)
apply_credentials(credentials, o) ==
  LET given == {f \in CredentialFields : o[f] # {}}
  IN  CASE credentials # {} -> {[f \in CredentialFields |-> Set(o, f, c[f])] : c \in credentials}
        [] credentials = {} /\ given = CredentialFields -> {[f \in CredentialFields |-> Set(o, f, "")]}
        [] credentials = {} /\ given # CredentialFields -> {}

apply_override(config, o) ==
  IF config.is = "error" THEN config
  ELSE IF Unread(o) # {} THEN Failed("InvalidValue")
  ELSE IF config.credentials = {} /\ {f \in CredentialFields : o[f] # {}} \notin {{}, CredentialFields}
  THEN Failed("incomplete credentials")
  ELSE Loaded(apply_values(config.values, o), apply_credentials(config.credentials, o))

-----------------------------------------------------------------------------
(* What the servers of a Relay are told.                                   *)

requires_auth(values) == values.ready = "Authenticated" /\ values.relay.mode = "Managed"
http_auth_interval(values) == IF values.processing.enabled THEN {} ELSE values.auth_interval \ {0}
emit_outcomes(values) == values.outcomes.emit_outcomes \/ values.processing.enabled

-----------------------------------------------------------------------------
(* Commands: the folder after them, and what they end with.                *)

Ends(folder, result) == [folder |-> folder, result |-> result]

(* A write that fails leaves a file that is cut off.                       *)
replace_credentials(folder, config, credentials, written) ==
  IF config.credentials = credentials THEN Ends(folder, "unchanged")
  ELSE IF credentials # {} /\ ~written THEN Ends([folder EXCEPT !.credentials = {Torn}], "CouldNotWriteFile")
  ELSE Ends([folder EXCEPT !.credentials = credentials], "changed")

extract_config_args(options) ==
  [OverridableConfig EXCEPT
     !.upstream = options.upstream, !.host = options.host, !.port = options.redis_url, !.processing = options.processing,
     !.kafka_url = options.kafka_url, !.redis_url = options.redis_url, !.outcome_source = options.source_id,
     !.id = options.id, !.public_key = options.public_key, !.secret_key = options.secret_key]

extract_config_env_vars(env) ==
  [OverridableConfig EXCEPT
     !.upstream = env.upstream, !.host = env.host, !.port = env.port, !.processing = env.processing, !.kafka_url = env.kafka_url,
     !.redis_url = env.redis_url, !.id = env.id, !.public_key = env.public_key, !.secret_key = env.secret_key]

check_config_Unchecked(config) == config

check_config(config) ==
  IF config.is = "config" /\ config.values.relay.mode = "Managed" /\ config.credentials = {} THEN Failed("no credentials") ELSE config

run(folder, compiled, env, options) ==
  check_config(apply_override(apply_override(from_path(folder, compiled), extract_config_env_vars(env)),
                              extract_config_args(options)))

credentials_generate(folder, config, overwrite, generated, written) ==
  IF config.credentials # {} /\ ~overwrite THEN Ends(folder, "already exist")
  ELSE replace_credentials(folder, config, {generated}, written)

(* Both keys are read from the text of the secret key. The point is what   *)
(* it is as a public key, if anything.                                     *)
credentials_set(folder, config, options, point, written) ==
  IF options.secret_key # {} /\ point = {} THEN Ends(folder, "invalid public key supplied")
  ELSE LET given == [id |-> options.id, secret_key |-> options.secret_key,
                     public_key |-> IF options.secret_key # {} THEN point ELSE {}]
           value(f) == IF given[f] # {} THEN given[f] ELSE {c[f] : c \in config.credentials}
       IN  IF \E f \in CredentialFields : value(f) = {} THEN Ends(folder, "prompt")
           ELSE replace_credentials(folder, config, {[f \in CredentialFields |-> CHOOSE v \in value(f) : TRUE]}, written)

credentials_remove(folder, config, written) ==
  IF config.credentials = {} THEN Ends(folder, "No credentials") ELSE replace_credentials(folder, config, {}, written)

init_config_Fresh(folder, compiled, chosen, generated, written) ==
  LET created == [folder EXCEPT !.config = {chosen}]
  IN  IF chosen.relay.mode = "Managed" THEN replace_credentials(created, Loaded(chosen, {}), {generated}, written)
      ELSE Ends(created, "unchanged")

init_config(folder, compiled, chosen, generated, written) ==
  LET created == IF folder.config = {} THEN [folder EXCEPT !.config = {chosen}] ELSE folder
      config == from_path(created, compiled)
  IN  IF config.is = "error" THEN Ends(created, config.kind)
      ELSE IF config.values.relay.mode = "Managed" /\ config.credentials = {}
      THEN replace_credentials(created, config, {generated}, written)
      ELSE Ends(created, "unchanged")

=============================================================================
