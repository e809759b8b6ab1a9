--------------------------- MODULE EnvelopeFormat ---------------------------
(***************************************************************************)
(* The text format of envelopes, in relay-server/src/envelope.rs: headers  *)
(* of the envelope, then headers and payload of every item, each followed  *)
(* by a newline.                                                           *)
(*                                                                         *)
(* A text is a sequence of symbols: a newline, an object of JSON, or any   *)
(* other byte. An object may be headers or be part of a payload. A value   *)
(* of type Option is a set with at most one element.                       *)
(***************************************************************************)
EXTENDS Naturals, Sequences, SequencesExt

Newline == [is |-> "newline"]
Byte == [is |-> "byte"]

(* The members of an object that headers can have.                         *)
Object(dsn, origin, event_id, ty, length) ==
  [is |-> "object", dsn |-> dsn, origin |-> origin, event_id |-> event_id, ty |-> ty, length |-> length]

Ok(v) == [ok |-> TRUE, value |-> v]
Err(e) == [ok |-> FALSE, error |-> e]

(* The first of some positions, or 0.                                      *)
FirstOf(hits) == IF hits = {} THEN 0 ELSE CHOOSE j \in hits : \A k \in hits : j <= k

NextNewline(s, i) == FirstOf({j \in i .. Len(s) : s[j] = Newline})

(* StreamDeserializer::next skips white space, which a newline is.         *)
NextValue(s, i) == FirstOf({j \in i .. Len(s) : s[j] # Newline})

require_termination(s, i) == i > Len(s) \/ s[i] = Newline

HeadersAt(s, i) ==
  IF i = 0 THEN Err("MissingHeader")
  ELSE IF s[i].is # "object" THEN Err("InvalidHeader")
  ELSE IF ~require_termination(s, i + 1) THEN Err("MissingNewline")
  ELSE Ok([headers |-> s[i], offset |-> i + 2])

parse_headers(s) == HeadersAt(s, NextValue(s, 1))

(* The end of a payload: given by the length, or by the next newline.      *)
PayloadEnd(s, start, length) ==
  IF length = {} THEN LET i == NextNewline(s, start) IN IF i = 0 THEN Len(s) + 1 ELSE i
  ELSE LET end == start + CHOOSE n \in length : TRUE
       IN  IF end <= Len(s) + 1 /\ require_termination(s, end) THEN end ELSE 0

Payload(s, header, start, end) ==
  IF end = 0 THEN Err("UnexpectedEof")   \* or MissingNewline
  ELSE Ok([item |-> [headers |-> header, payload |-> SubSeq(s, start, end - 1)], offset |-> end + 1])

ItemAt(s, i, start) ==
  IF i = 0 THEN Err("UnexpectedEof")
  ELSE IF s[i].is # "object" \/ s[i].ty = {} THEN Err("InvalidItemHeader")
  ELSE IF ~require_termination(s, i + 1) THEN Err("MissingNewline")
  ELSE Payload(s, s[i], start, PayloadEnd(s, start, s[i].length))

parse_item(s, offset) ==
  LET i == NextValue(s, offset)
  IN  ItemAt(s, i, IF i + 2 <= Len(s) + 1 THEN i + 2 ELSE Len(s) + 1)

FollowedBy(item, rest) ==
  IF ~item.ok THEN item
  ELSE IF ~rest.ok THEN rest
  ELSE Ok(<<item.value.item>> \o rest.value)

(* The loop of parse_items, from an offset.                                *)
parse_items(s, offset) ==
  LET items[o \in 1 .. Len(s) + 3] ==
        IF o > Len(s) THEN Ok(<<>>)
        ELSE LET item == parse_item(s, o) IN FollowedBy(item, items[item.value.offset])
  IN  items[offset]

complete_Unchecked(headers, request) ==
  Ok([headers EXCEPT !.dsn = IF headers.dsn # {} THEN headers.dsn ELSE request.dsn,
                     !.origin = IF headers.origin # {} THEN headers.origin ELSE request.origin])

(* EnvelopeHeaders::complete with PartialMeta::copy_to                     *)
complete(headers, request) ==
  IF headers.origin # {} /\ headers.origin # request.origin THEN Err("HeaderMismatch")
  ELSE IF headers.dsn # {} /\ headers.dsn # request.dsn THEN Err("HeaderMismatch")
  ELSE Ok([headers EXCEPT !.dsn = request.dsn,
                          !.origin = IF headers.origin # {} THEN headers.origin ELSE request.origin])

RequiresEvent(item) == item.headers.ty \cap {"session"} = {}

WithId(headers, items) ==
  [headers EXCEPT !.event_id = IF @ = {} /\ (\E i \in DOMAIN items : RequiresEvent(items[i])) THEN {"new"} ELSE @]

Accepted(headers, items) ==
  IF ~headers.ok THEN headers
  ELSE IF ~items.ok THEN items
  ELSE Ok([headers |-> WithId(headers.value, items.value), items |-> items.value])

parse_request(s, request) ==
  LET parsed == parse_headers(s)
  IN  IF ~parsed.ok THEN parsed
      ELSE Accepted(complete(parsed.value.headers, request), parse_items(s, parsed.value.offset))

serialize_Trimmed(e) ==
  <<e.headers, Newline>>
    \o FlattenSeq([i \in DOMAIN e.items |->
         <<e.items[i].headers, Newline>> \o e.items[i].payload
           \o (IF e.items[i].payload = <<>> THEN <<>> ELSE <<Newline>>)])

serialize(e) ==
  <<e.headers, Newline>>
    \o FlattenSeq([i \in DOMAIN e.items |->
         <<e.items[i].headers, Newline>> \o e.items[i].payload \o <<Newline>>])

-----------------------------------------------------------------------------
(* What was accepted reads the same after it was written.                  *)
RoundTrips(s, request) ==
  LET parsed == parse_request(s, request)
  IN  parsed.ok => parse_request(serialize(parsed.value), request) = parsed

(* What was accepted is of the project of its request, and has an id if    *)
(* one of its items needs one.                                             *)
Completes(s, request) ==
  LET parsed == parse_request(s, request)
  IN  parsed.ok =>
        /\ parsed.value.headers.dsn = request.dsn
        /\ parsed.value.headers.event_id = {} =>
             \A n \in DOMAIN parsed.value.items : ~RequiresEvent(parsed.value.items[n])

=============================================================================
