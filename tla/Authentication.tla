--------------------------- MODULE Authentication ----------------------------
(***************************************************************************)
(* Relays among themselves: versions, keys, signatures and the register    *)
(* challenge (relay-auth/src/lib.rs), signed requests (relay-server/src/   *)
(* extractors/signed_json.rs), the answer of project configs (endpoints/   *)
(* project_configs.rs) and what the Relay that asked makes of it           *)
(* (actors/project.rs, actors/project_upstream.rs).                        *)
(*                                                                         *)
(* Cryptography is symbolic: a signature shows what was signed and by      *)
(* whom. An optional value is a set with at most one element. Times are in *)
(* parts of a second.                                                      *)
(***************************************************************************)
EXTENDS Naturals, Sequences

CONSTANTS TicksPerSecond,   \* ticks of a second
          MaxU8             \* the largest part of a version

-----------------------------------------------------------------------------
(* Versions and keys, and how they are written.                            *)

NoVersion == <<0, 0, 0>>
Older(v, w) == \E n \in 1 .. 3 : v[n] < w[n] /\ \A k \in 1 .. n - 1 : v[k] = w[k]

supported(version) == ~Older(version, NoVersion)

version_from_str(parts) ==
  IF Len(parts) >= 3 /\ \A n \in 1 .. 3 : parts[n] \in 0 .. MaxU8 THEN {SubSeq(parts, 1, 3)} ELSE {}

PublicOf(secret) == [of |-> secret]
Encoded(bytes) == [base64 |-> TRUE, bytes |-> bytes]
secret_to_string(secret, alternate) == Encoded(IF alternate THEN <<secret, PublicOf(secret)>> ELSE <<secret>>)
secret_from_str(text) ==
  CASE ~text.base64 -> [is |-> "BadEncoding"]
    [] text.base64 /\ text.bytes = <<>> -> [is |-> "BadKey"]
    [] text.base64 /\ text.bytes # <<>> ->
         [is |-> "key", secret |-> text.bytes[1],
          public |-> IF Len(text.bytes) = 2 THEN text.bytes[2] ELSE PublicOf(text.bytes[1])]

-----------------------------------------------------------------------------
(* Signatures.                                                             *)

SignatureHeader(now) == [timestamp |-> {now}]
expired(header, max_age, now) == \E t \in header.timestamp, age \in max_age : t + age < now

sign(secret, data, now) == [by |-> PublicOf(secret), data |-> data, header |-> SignatureHeader(now)]
verify_meta(public, data, signature) ==
  IF signature.by = public /\ signature.data = data THEN {signature.header} ELSE {}

unpack(public, data, signature, max_age, now) ==
  LET header == verify_meta(public, data, signature)
  IN  CASE header = {} -> [is |-> "BadSignature"]
        [] header # {} /\ ~data.json -> [is |-> "BadPayload"]
        [] header # {} /\ data.json ->
             IF \E h \in header : expired(h, max_age, now) THEN [is |-> "SignatureExpired"] ELSE [is |-> "data", data |-> data]

-----------------------------------------------------------------------------
(* The register challenge. Upstream keeps nothing: it signs its own state  *)
(* and gets it back. The time in it is in whole seconds.                   *)

RegisterRequest(relay) ==
  [json |-> TRUE, relay_id |-> relay.id, public_key |-> PublicOf(relay.secret), version |-> relay.version]

bootstrap_unpack(data, signature, max_age, now) ==
  IF ~data.json THEN [is |-> "BadPayload"] ELSE unpack(data.public_key, data, signature, max_age, now)

RegisterState(request, now) ==
  [timestamp |-> (now \div TicksPerSecond) * TicksPerSecond, relay_id |-> request.relay_id, public_key |-> request.public_key]

into_challenge(request, secret, now) ==
  [relay_id |-> request.relay_id, token |-> [state |-> RegisterState(request, now), signed |-> secret]]

into_response(challenge, version) ==
  [json |-> TRUE, relay_id |-> challenge.relay_id, token |-> challenge.token, version |-> version]

token_unpack_Forever(token, secret, max_age, now) ==
  IF token.signed # secret THEN [is |-> "BadSignature"] ELSE [is |-> "state", state |-> token.state]

token_unpack(token, secret, max_age, now) ==
  IF token.signed # secret THEN [is |-> "BadSignature"]
  ELSE IF \E age \in max_age : token.state.timestamp + age < now THEN [is |-> "SignatureExpired"]
  ELSE [is |-> "state", state |-> token.state]

response_unpack(data, signature, secret, max_age, now) ==
  IF ~data.json THEN [is |-> "BadPayload"]
  ELSE LET read == token_unpack(data.token, secret, max_age, now)
       IN  IF read.is # "state" THEN read
           ELSE LET header == verify_meta(read.state.public_key, data, signature)
                IN  IF header = {} THEN [is |-> "BadSignature"]
                    ELSE IF \E h \in header : expired(h, max_age, now) THEN [is |-> "SignatureExpired"]
                    ELSE [is |-> "registered", response |-> data, state |-> read.state]

(* A Relay sends its request, upstream reads it when it is asked, the Relay *)
(* answers the challenge, and upstream receives the response. In between    *)
(* each may be restarted with other credentials: relay.secret and upstream  *)
(* sign first, key and secret are those at the end.                         *)
Registered(r) ==
  LET request == RegisterRequest(r.relay)
      unpacked == bootstrap_unpack(request, sign(r.relay.secret, request, r.sent), r.max_age, r.asked)
      challenge == into_challenge(unpacked.data, r.upstream, r.asked)
      response == into_response(challenge, r.relay.version)
      arrived == [response EXCEPT !.json = r.json]
      saved == secret_from_str(secret_to_string(r.key, r.alternate))
  IN  IF unpacked.is # "data" THEN unpacked
      ELSE response_unpack(arrived, sign(saved.secret, response, r.answered), r.secret, r.max_age, r.received)

(* A Relay that answers in time is registered with its own key, id and      *)
(* version, however long all of it takes; one that does not, or whose key   *)
(* or whose upstream's secret has changed in between, is not. The second    *)
(* that is lost in the token is the only doubt.                             *)
RegistersInTime(r) ==
  LET late(ticks) == \E age \in r.max_age : ticks > age
      same == r.key = r.relay.secret /\ r.secret = r.upstream /\ r.json
      result == Registered(r)
  IN  /\ result.is = "registered" =>
           /\ same /\ ~late(r.asked - r.sent) /\ ~late(r.received - r.asked)
           /\ result.state.public_key = PublicOf(r.relay.secret) /\ result.state.relay_id = r.relay.id
           /\ result.response.version = r.relay.version /\ supported(result.response.version)
      /\ same /\ ~late(r.asked - r.sent) /\ ~late(r.received - r.asked + TicksPerSecond - 1) => result.is = "registered"

(* A request that another Relay has signed, of the relays that are known.  *)
signed_json(headers, body, relays) ==
  CASE "X-Sentry-Relay-Id" \notin DOMAIN headers -> [is |-> "MissingHeader"]
    [] "X-Sentry-Relay-Id" \in DOMAIN headers ->
         IF "X-Sentry-Relay-Signature" \notin DOMAIN headers THEN [is |-> "MissingHeader"]
         ELSE IF headers["X-Sentry-Relay-Id"] \notin DOMAIN relays THEN [is |-> "UnknownRelay"]
         ELSE LET relay == relays[headers["X-Sentry-Relay-Id"]]
                  read == unpack(relay.public_key, body, headers["X-Sentry-Relay-Signature"], {}, 0)
              IN  IF read.is = "data" THEN [is |-> "signed", inner |-> read.data, relay |-> relay] ELSE [is |-> "BadSignature"]

-----------------------------------------------------------------------------
(* Project states: what of them the checks of requests and the properties  *)
(* tell apart.                                                             *)

DefaultConfig == [allowed_domains |-> {"*"}, trusted_relays |-> {}, features |-> {}, quotas |-> {}, rules |-> {}]

missing ==
  [project_id |-> {}, disabled |-> TRUE, public_keys |-> <<>>, organization_id |-> {}, config |-> DefaultConfig, invalid |-> FALSE]
allowed == [missing EXCEPT !.disabled = FALSE]
err == [missing EXCEPT !.invalid = TRUE]

(* Filters, sampling and what is extracted are one set of rules, and the   *)
(* order of quotas does not matter here.                                   *)
LimitedProjectConfig_Domains(config) == [config EXCEPT !.allowed_domains = {"*"}, !.quotas = {}, !.rules = {}]
LimitedProjectConfig(config) == [config EXCEPT !.quotas = {}, !.rules = {}]
LimitedProjectState(state) == [state EXCEPT !.config = LimitedProjectConfig(@)]

sanitize(state) == [state EXCEPT !.config.quotas = {quota \in @ : quota.valid}]

HasAccess(relay, state) == relay.internal \/ relay.public_key \in state.config.trusted_relays

(* The configs of the request; a project that could not be read is none,   *)
(* and one whose state is invalid is left out.                             *)
get_project_configs(relay, request, cache) ==
  LET full == relay.internal /\ request.full_config
      seen(key) == {state \in cache[key] : HasAccess(relay, state)}
      written(state) == IF full THEN state ELSE LimitedProjectState(state)
  IN  [key \in {k \in request.public_keys : \A state \in seen(k) : ~state.invalid} |-> {written(s) : s \in seen(key)}]

ReceivedState(configs, key) ==
  IF key \in DOMAIN configs /\ configs[key] # {} THEN sanitize(CHOOSE s \in configs[key] : TRUE) ELSE missing

is_valid_project_id(state, stated) == state.project_id = {} \/ stated = {} \/ state.project_id = stated
is_valid_origin(state, origin) == origin = {} \/ "*" \in state.config.allowed_domains \/ origin \subseteq state.config.allowed_domains
is_matching_key(state, key) ==
  IF state.public_keys # <<>> THEN Head(state.public_keys).public_key = key ELSE state.project_id = {}

(* outdated is what outdated() says of the age of the state: Updated,      *)
(* SoftOutdated or HardOutdated.                                           *)
check_disabled(state, outdated) ==
  IF outdated = "HardOutdated" THEN "ok"
  ELSE IF state.invalid THEN "ProjectState"
  ELSE IF state.disabled THEN "ProjectId"
  ELSE "ok"

check_request(state, meta, outdated) ==
  CASE ~is_valid_project_id(state, meta.project_id) -> "ProjectId"
    [] is_valid_project_id(state, meta.project_id) ->
         IF ~is_valid_origin(state, meta.origin) THEN "Cors"
         ELSE IF ~is_matching_key(state, meta.public_key) THEN "ProjectId"
         ELSE check_disabled(state, outdated)

scope_request(state, meta) ==
  [organization_id |-> IF state.organization_id = {} THEN {0} ELSE state.organization_id,
   project_id |-> IF state.project_id # {} THEN state.project_id ELSE meta.project_id,
   key_id |-> IF state.public_keys # <<>> THEN Head(state.public_keys).numeric_id ELSE {},
   public_key |-> meta.public_key]

(* A Relay that asks for a project accepts a request if and only if it may  *)
(* see the project and its upstream accepts the request too. With a state   *)
(* that is hard outdated it leaves it to the upstream whether the project   *)
(* is known and enabled, and still refuses other ids, origins and keys. It  *)
(* attributes the request to the same organization, project and key. Rules  *)
(* and quotas are for internal Relays that ask for them.                    *)
AgreesOn(relay, request, cache, key, meta, outdated) ==
  LET received == ReceivedState(get_project_configs(relay, request, cache), key)
      visible == {up \in cache[key] : HasAccess(relay, up) /\ ~up.invalid}
      accepts == check_request(received, meta, outdated) = "ok"
  IN  /\ outdated # "HardOutdated" => (accepts <=> \E up \in visible : check_request(up, meta, "Updated") = "ok")
      /\ outdated = "HardOutdated" => (accepts <=> \A up \in visible : check_request(up, meta, "HardOutdated") = "ok")
      /\ \A up \in visible : accepts => scope_request(received, meta) = scope_request(up, meta)
      /\ received.config.quotas # {} \/ received.config.rules # {} => relay.internal /\ request.full_config
      /\ \A quota \in received.config.quotas : quota.valid

=============================================================================
