------------------------------ MODULE Filters -------------------------------
(***************************************************************************)
(* Inbound filters in relay-filter/src. An event is a record of what the   *)
(* filters look at. Patterns and regular expressions are abstracted to     *)
(* what they match: a list of patterns is the set of the texts that it     *)
(* matches, and a text is a member of a small set, "" among them. A value  *)
(* of type Option is a set with at most one element.                       *)
(***************************************************************************)
EXTENDS Integers, Sequences, FiniteSets, SequencesExt

(* GlobPatterns::is_match: the empty text is never matched.                *)
is_match(patterns, text) == text # "" /\ text \in patterns

(* client_ips::matches; a list of networks is the set of its addresses.    *)
client_ips_matches(ip, networks) == ip # {} /\ ip \subseteq networks

(* csp::matches_any_origin. A URL, or a pattern for one, has a scheme, the *)
(* labels of a domain and a port. SchemeDomainPort::from reads "*" as no   *)
(* restriction, but keeps it as the first label of a longer domain.        *)
Part(part) == IF part = "*" THEN {} ELSE {part}

SchemeDomainPort(url) ==
  [scheme |-> UNION {Part(p) : p \in url.scheme},
   domain |-> IF url.domain = <<"*">> THEN {} ELSE {url.domain},
   port |-> UNION {Part(p) : p \in url.port}]

domain_matches(pattern, domain) ==
  pattern = {} \/ pattern = domain
    \/ \E p \in pattern, d \in domain : p[1] = "*" /\ IsSuffix(Tail(p), d)

matches_any_origin(url, origins) ==
  \/ \E o \in origins : SchemeDomainPort(o) = [scheme |-> {}, domain |-> {}, port |-> {}]
  \/ \E u \in url, o \in origins :
       LET pattern == SchemeDomainPort(o)
           parsed == SchemeDomainPort(u)
       IN  /\ pattern.scheme # {} => parsed.scheme = pattern.scheme
           /\ pattern.port # {} => parsed.port = pattern.port
           /\ domain_matches(pattern.domain, parsed.domain)

csp_matches(event, sources) ==
  /\ event.ty = "Csp"
  /\ \E csp \in event.csp :
       matches_any_origin(csp.blocked_uri, sources) \/ matches_any_origin(csp.source_file, sources)

(* error_messages::matches. The message of an exception is its type, its   *)
(* value or both, and one text here.                                       *)
error_messages_matches(event, patterns) ==
  \/ \E m \in (IF event.formatted # {} THEN event.formatted ELSE event.message) : is_match(patterns, m)
  \/ \E n \in DOMAIN event.exceptions : \E e \in event.exceptions[n] : is_match(patterns, e.text)

(* localhost::matches                                                      *)
localhost_matches(event) ==
  event.user_ip \cap {"127.0.0.1", "::1"} # {} \/ event.host \cap {"127.0.0.1", "localhost"} # {}

(* browser_extensions::matches looks at the first exception only, and at   *)
(* the last frame of it.                                                   *)
browser_extensions_matches(event) ==
  /\ event.exceptions # <<>>
  /\ \E e \in event.exceptions[1] : e.text = "extension" \/ e.source = "extension"

(* web_crawlers::matches                                                   *)
web_crawlers_matches(event) ==
  \E ua \in event.user_agent : ua.crawler /\ ~ua.allowed

-----------------------------------------------------------------------------
(* legacy_browsers::matches. A user agent has a family and, if it can be   *)
(* parsed, a major version.                                                *)

MIN_VERSIONS_Shifted ==
  [Chrome |-> 0, IE |-> 9, Firefox |-> 0, Safari |-> 6, Edge |-> 0,
   Opera |-> 15, Android |-> 4, OperaMini |-> 8]

MIN_VERSIONS ==
  [Chrome |-> 0, IE |-> 10, Firefox |-> 0, Safari |-> 6, Edge |-> 0,
   Opera |-> 15, Android |-> 4, OperaMini |-> 8]

MappedFamily(ua) == IF ua.family = "IEMobile" THEN "IE" ELSE ua.family

default_filter(family, ua) ==
  family \in DOMAIN MIN_VERSIONS /\ \E v \in ua.major : MIN_VERSIONS[family] > v

(* The family and the versions that each kind of LegacyBrowser filters. An *)
(* unknown kind filters nothing.                                           *)
filter_browser(browser, family, ua) ==
  \E v \in ua.major :
    CASE browser = "ie_pre_9" -> family = "IE" /\ v <= 8
      [] browser = "ie9" -> family = "IE" /\ v = 9
      [] browser = "ie10" -> family = "IE" /\ v = 10
      [] browser = "ie11" -> family = "IE" /\ v = 11
      [] browser = "opera_mini_pre_8" -> family = "OperaMini" /\ v < 8
      [] browser = "opera_pre_15" -> family = "Opera" /\ v < 15
      [] browser = "android_pre_4" -> family = "Android" /\ v < 4
      [] browser = "safari_pre_6" -> family = "Safari" /\ v < 6
      [] OTHER -> FALSE

legacy_browsers_matches(event, browsers) ==
  \E ua \in event.user_agent :
    IF "default" \in browsers THEN default_filter(MappedFamily(ua), ua)
    ELSE \E b \in browsers : filter_browser(b, MappedFamily(ua), ua)

-----------------------------------------------------------------------------
(* should_filter asks the filters in this order and answers with the key   *)
(* of the first one that matches, if any.                                  *)
FilterOrder ==
  <<"csp", "client_ips", "releases", "error_messages", "localhost",
    "browser_extensions", "legacy_browsers", "web_crawlers">>

Matches(filter, event, ip, config) ==
  CASE filter = "client_ips" -> client_ips_matches(ip, config.client_ips)
    [] filter = "releases" -> \E r \in event.release : is_match(config.releases, r)
    [] filter = "error_messages" -> error_messages_matches(event, config.error_messages)
    [] filter = "csp" -> csp_matches(event, config.csp)
    [] filter = "browser_extensions" -> config.browser_extensions /\ browser_extensions_matches(event)
    [] filter = "legacy_browsers" ->
         config.legacy_enabled /\ config.browsers # {} /\ legacy_browsers_matches(event, config.browsers)
    [] filter = "localhost" -> config.localhost /\ localhost_matches(event)
    [] filter = "web_crawlers" -> config.web_crawlers /\ web_crawlers_matches(event)

should_filter(event, ip, config) ==
  LET hits == SelectSeq(FilterOrder, LAMBDA f : Matches(f, event, ip, config))
  IN  IF hits = <<>> THEN {} ELSE {hits[1]}

=============================================================================
