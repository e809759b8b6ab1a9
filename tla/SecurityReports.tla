--------------------------- MODULE SecurityReports ---------------------------
(***************************************************************************)
(* Security reports of browsers and the events that are made of them:      *)
(* relay-general/src/protocol/security_report.rs, event_from_security_     *)
(* report in relay-server/src/actors/envelopes.rs, and the endpoint.       *)
(*                                                                         *)
(* A URI, or any other word of a report, is a sequence of names and        *)
(* punctuation; a directive is a sequence of words. An optional value is a *)
(* set with at most one element.                                           *)
(***************************************************************************)
EXTENDS Naturals, Sequences, SequencesExt, FiniteSets

Directives == {"child-src", "img-src", "script-src", "script-src-elem", "style-src", "style-src-elem", "sandbox"}

Word(name) == <<name>>
SelfWord == Word("'self'")
Keywords == {Word(k) : k \in {"'none'", "'self'", "'unsafe-inline'", "'unsafe-eval'"}}

-----------------------------------------------------------------------------
(* URIs.                                                                   *)

HostSchemes == {"http", "https", "file", "ws"}
SpelledSchemes == {"data", "mediastream", "blob", "filesystem", "http", "https", "file"}
DefaultPort == [http |-> "80", https |-> "443", ws |-> "80"]

is_local(uri) == uri \in {<<>>, Word("self"), SelfWord}

schema_uses_host(schema) == \E s \in HostSchemes : schema = Word(s)

unsplit_uri(schema, host) ==
  IF host # <<>> \/ schema_uses_host(schema) THEN schema \o <<":", "//">> \o host
  ELSE IF schema # <<>> THEN schema \o <<":">>
  ELSE <<>>

HasScheme(text) == Len(text) >= 2 /\ text[2] = ":"
SchemeOf(text) == IF HasScheme(text) THEN Word(text[1]) ELSE text
HostOf(text) == IF Len(text) >= 4 /\ text[3] = "//" THEN <<text[4]>> ELSE <<>>
PortOf(text) == IF Len(text) >= 6 /\ text[3] = "//" /\ text[5] = ":" THEN {text[6]} ELSE {}

(* Url::parse: the port of the scheme is not there, and a scheme that uses *)
(* hosts needs one.                                                        *)
ParsedUrl(text) ==
  IF ~HasScheme(text) \/ (text[1] \in HostSchemes /\ HostOf(text) = <<>>) THEN {}
  ELSE {[scheme |-> text[1], host |-> HostOf(text),
         port |-> {p \in PortOf(text) : text[1] \in DOMAIN DefaultPort => DefaultPort[text[1]] # p}]}

WithPort(text, port) == IF port = {} THEN text ELSE text \o <<":", CHOOSE p \in port : TRUE>>

normalize_uri_Ports(value) ==
  IF is_local(value) THEN SelfWord
  ELSE IF ":" \notin ToSet(value) THEN unsplit_uri(value, <<>>)
  ELSE IF ParsedUrl(value) = {} THEN value
  ELSE LET url == CHOOSE u \in ParsedUrl(value) : TRUE
       IN  IF url.scheme \in {"http", "https"} THEN url.host ELSE unsplit_uri(Word(url.scheme), url.host)

normalize_uri(value) ==
  IF is_local(value) THEN SelfWord
  ELSE IF ":" \notin ToSet(value) THEN unsplit_uri(value, <<>>)
  ELSE IF ParsedUrl(value) = {} THEN value
  ELSE LET url == CHOOSE u \in ParsedUrl(value) : TRUE
       IN  WithPort(IF url.scheme \in {"http", "https"} THEN url.host
                    ELSE unsplit_uri(Word(url.scheme), url.host), url.port)

-----------------------------------------------------------------------------
(* Reports of content security policies.                                   *)

(* A report without a blocked URI has that of the document.                *)
BlockedUri(csp) == IF csp.blocked_uri = {} THEN Word("self") ELSE CHOOSE u \in csp.blocked_uri : TRUE
DocumentUri(csp) == IF csp.document_uri = {} THEN <<>> ELSE CHOOSE u \in csp.document_uri : TRUE

effective_directive(csp) ==
  IF csp.effective_directive # {} THEN csp.effective_directive
  ELSE {d \in Directives : csp.violated_directive # <<>> /\ csp.violated_directive[1] = Word(d)}

Mentions(csp, keyword) == Word(keyword) \in ToSet(csp.violated_directive)

(* What a message says, not how. The one about scripts tells why.          *)
Noun(directive) ==
  CASE directive = "script-src-elem" -> "script-src"
    [] directive = "style-src-elem" -> "style-src"
    [] OTHER -> directive

get_message(csp, directive) ==
  IF ~is_local(BlockedUri(csp)) THEN [blocked |-> Noun(directive), uri |-> normalize_uri(BlockedUri(csp)), why |-> ""]
  ELSE [blocked |-> directive, uri |-> <<>>,
        why |-> CASE directive # "script-src" -> ""
                  [] directive = "script-src" /\ Mentions(csp, "'unsafe-inline'") -> "inline"
                  [] directive = "script-src" /\ ~Mentions(csp, "'unsafe-inline'") ->
                       IF Mentions(csp, "'unsafe-eval'") THEN "eval" ELSE "either"]

(* Firefox spells out what the policy calls the document's own origin.     *)
normalize_value(csp, value, document_uri) ==
  IF value \in Keywords THEN value
  ELSE IF HasScheme(value) /\ value[1] \in SpelledSchemes
  THEN IF normalize_uri(value) = document_uri THEN SelfWord ELSE value
  ELSE IF value = document_uri THEN SelfWord
  ELSE IF SchemeOf(DocumentUri(csp)) \in {Word("http"), Word("https")} THEN value
  ELSE unsplit_uri(SchemeOf(DocumentUri(csp)), value)

get_culprit(csp) ==
  LET bits == SelectSeq(csp.violated_directive, LAMBDA word : word # <<>>)
  IN  [n \in DOMAIN bits |-> IF n = 1 THEN bits[1] ELSE normalize_value(csp, bits[n], normalize_uri(DocumentUri(csp)))]

Stripe == <<"https", ":", "//", "api.stripe.com", "/">>

sanitized_blocked_uri_Whole(csp) == BlockedUri(csp)

sanitized_blocked_uri(csp) ==
  LET uri == BlockedUri(csp)
      query == {n \in DOMAIN uri : uri[n] \in {"#", "?"}}
  IN  IF IsPrefix(Stripe, uri) /\ query # {}
      THEN SubSeq(uri, 1, (CHOOSE n \in query : \A k \in query : n <= k) - 1)
      ELSE uri

csp_event(csp) ==
  {[ty |-> "Csp", logentry |-> get_message(csp, d), culprit |-> get_culprit(csp),
    tags |-> <<<<"effective-directive", d>>, <<"blocked-uri", sanitized_blocked_uri(csp)>>>>,
    url |-> csp.document_uri, referrer |-> {r \in csp.referrer : r # <<>>}] : d \in effective_directive(csp)}

-----------------------------------------------------------------------------
(* Reports about certificates. Hosts, ports and statuses are tags. Both    *)
(* times of a report of certificate transparency have to be there.         *)

Tag(key, optional) == [n \in 1 .. Cardinality(optional) |-> <<key, CHOOSE v \in optional : TRUE>>]
HostTags(report) == Tag("hostname", report.hostname) \o Tag("port", report.port)

CertificateEvent(ty, report, culprit, tags) ==
  IF report.hostname = {} THEN {}
  ELSE {[ty |-> ty, logentry |-> [blocked |-> ty, uri |-> report.hostname, why |-> ""],
         culprit |-> culprit, tags |-> tags, url |-> report.hostname, referrer |-> {}]}

expectct_event(report) ==
  IF ~report.times THEN {} ELSE CertificateEvent("ExpectCt", report, <<report.hostname>>, HostTags(report))

hpkp_event(report) ==
  CertificateEvent("Hpkp", report, <<>>, HostTags(report) \o Tag("include-subdomains", report.status))

expectstaple_event(report) ==
  CertificateEvent("ExpectStaple", report, <<report.hostname>>,
                   HostTags(report) \o Tag("response_status", report.status) \o Tag("cert_status", report.status))

-----------------------------------------------------------------------------
(* Events.                                                                 *)

ReportTypes == <<"Csp", "Hpkp", "ExpectStaple", "ExpectCt">>

(* A payload has the parts of its domain.                                  *)
from_json(payload) ==
  {ReportTypes[n] : n \in {n \in DOMAIN ReportTypes :
                             /\ ReportTypes[n] \in DOMAIN payload
                             /\ \A k \in 1 .. n - 1 : ReportTypes[k] \notin DOMAIN payload}}

event_from_security_report(payload) ==
  IF from_json(payload) = {} THEN [is |-> "InvalidSecurityType"]
  ELSE LET ty == CHOOSE t \in from_json(payload) : TRUE
           events == CASE ty = "Csp" -> csp_event(payload[ty])
                       [] ty = "Hpkp" -> hpkp_event(payload[ty])
                       [] ty = "ExpectStaple" -> expectstaple_event(payload[ty])
                       [] ty = "ExpectCt" -> expectct_event(payload[ty])
       IN  IF events = {} THEN [is |-> "InvalidSecurityReport"] ELSE [is |-> "event", event |-> CHOOSE e \in events : TRUE]

=============================================================================
