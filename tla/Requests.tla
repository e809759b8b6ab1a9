------------------------------ MODULE Requests ------------------------------
(***************************************************************************)
(* What Relay learns from a request: its authorization, meta data and body *)
(* (relay-server/src/extractors: request_meta.rs, forwarded_for.rs,        *)
(* shared_payload.rs; relay-server/src/body: peek_line.rs, store_body.rs), *)
(* and the request it makes to pass an envelope on (actors/envelopes.rs).  *)
(*                                                                         *)
(* Optional values are sets with at most one element. A list of addresses  *)
(* is a sequence. A body is a sequence of chunks, a chunk a sequence of    *)
(* symbols; "{" and "newline" are symbols, and so is all that a step of    *)
(* decoding makes a text of.                                               *)
(***************************************************************************)
EXTENDS Naturals, Sequences, SequencesExt

CONSTANT MaxHeaderSize    \* EnvelopeMeta::MAX_HEADER_SIZE

Ok(value) == [ok |-> TRUE, value |-> value]
Err(error) == [ok |-> FALSE, error |-> error]

Either(first, second) == IF first # {} THEN first ELSE second

-----------------------------------------------------------------------------
(* Authorization. Auth of the sentry library is external: auth.ok says if  *)
(* it can be read. The key of a path is a segment of it, never empty.      *)

default_version == 7

get_auth_header(header) == {h.auth : h \in {h \in header : h.scheme = "sentry"}}

(* Sources are read in this order, and only the first is parsed.           *)
FirstAuth(sources) ==
  LET given == {n \in DOMAIN sources : sources[n] # {}}
      first == CHOOSE n \in given : \A m \in given : n <= m
      auth == CHOOSE a \in sources[first] : TRUE
  IN  IF given = {} THEN Err("MissingAuth")
      ELSE IF ~auth.ok THEN Err("BadAuth")
      ELSE IF given # {first} THEN Err("MultipleAuth")
      ELSE Ok(auth)

auth_from_request(request) ==
  FirstAuth(<<get_auth_header(request.x_sentry_auth), get_auth_header(request.authorization), request.query, request.segment>>)

-----------------------------------------------------------------------------
(* RequestMeta.                                                            *)

ForwardedFor(request) == request.forwarded \o SetToSeq(request.peer)

parse_header_url(header) == {url \in header : url.scheme \in {"http", "https"}}

from_headers(request) ==
  [dsn |-> {}, version |-> default_version, client |-> {},
   origin |-> Either(parse_header_url(request.origin), parse_header_url(request.referer)),
   remote_addr |-> request.peer, forwarded_for |-> ForwardedFor(request), user_agent |-> request.agent, no_cache |-> FALSE]

(* The flags of a key follow it in the same text.                          *)
WithAuth(meta, auth, project) ==
  [dsn |-> {[public_key |-> auth.key, project_id |-> project]}, version |-> auth.version, client |-> auth.client,
   origin |-> meta.origin, remote_addr |-> meta.remote_addr, forwarded_for |-> meta.forwarded_for,
   user_agent |-> meta.user_agent, no_cache |-> "no-cache" \in auth.flags]

from_request(request) ==
  LET auth == auth_from_request(request)
      meta == from_headers(request)
  IN  IF ~auth.ok THEN auth
      ELSE IF "malformed" \in request.project THEN Err("BadProject")
      ELSE IF auth.value.key = "malformed" THEN Err("BadPublicKey")
      ELSE Ok(WithAuth(meta, auth.value, request.project))

copy_to_Cached(partial, complete) ==
  [dsn |-> complete.dsn, client |-> Either(partial.client, complete.client),
   version |-> IF partial.version # default_version THEN partial.version ELSE complete.version,
   origin |-> Either(partial.origin, complete.origin), remote_addr |-> Either(partial.remote_addr, complete.remote_addr),
   forwarded_for |-> IF partial.forwarded_for # <<>> THEN partial.forwarded_for ELSE complete.forwarded_for,
   user_agent |-> Either(partial.user_agent, complete.user_agent), no_cache |-> complete.no_cache]

(* The DSN is the one that is there already.                               *)
copy_to(partial, complete) ==
  [dsn |-> complete.dsn, client |-> Either(partial.client, complete.client),
   version |-> IF partial.version # default_version THEN partial.version ELSE complete.version,
   origin |-> Either(partial.origin, complete.origin), remote_addr |-> Either(partial.remote_addr, complete.remote_addr),
   forwarded_for |-> IF partial.forwarded_for # <<>> THEN partial.forwarded_for ELSE complete.forwarded_for,
   user_agent |-> Either(partial.user_agent, complete.user_agent), no_cache |-> partial.no_cache \/ complete.no_cache]

(* EnvelopeHeaders::complete                                               *)
complete(headers, meta) ==
  IF headers.origin # {} /\ headers.origin # meta.origin THEN Err("HeaderMismatch")
  ELSE IF headers.dsn # {} /\ headers.dsn # meta.dsn THEN Err("HeaderMismatch")
  ELSE Ok(copy_to(headers, meta))

(* A DSN is written with "0" for a project that is not known, and read only  *)
(* with a project.                                                         *)
WrittenDsn(dsn) == {[d EXCEPT !.project_id = IF @ = {} THEN {"0"} ELSE @] : d \in dsn}
from_dsn(dsn) == IF \E d \in dsn : d.project_id = {"0"} THEN Err("InvalidProjectId") ELSE Ok(dsn)

-----------------------------------------------------------------------------
(* The body. done is set once the end of the payload was seen.             *)

SharedPayload(chunks) == [chunks |-> chunks, done |-> FALSE]

Breaks(chunk) == {i \in DOMAIN chunk : chunk[i] = "newline"}

revert_chunks_Forward(payload, read) == [payload EXCEPT !.chunks = Reverse(read) \o @]

(* Chunks are put back one by one, the last one first.                     *)
revert_chunks(payload, read) == [payload EXCEPT !.chunks = read \o @]

(* PeekLine::finish. Without a line, what was read is not put back.        *)
finish(payload, read, len) ==
  IF len = 0 THEN [line |-> {}, payload |-> payload]
  ELSE [line |-> IF len > MaxHeaderSize THEN {} ELSE {SubSeq(FlattenSeq(read), 1, len)}, payload |-> revert_chunks(payload, read)]

(* PeekLine::poll, until it is ready.                                      *)
PeekLine(payload) ==
  LET before(k) == Len(FlattenSeq(SubSeq(payload.chunks, 1, k - 1)))
      ends == {k \in DOMAIN payload.chunks : Breaks(payload.chunks[k]) # {} \/ before(k + 1) > MaxHeaderSize}
      end == CHOOSE k \in ends : \A l \in ends : k <= l
      breaks == Breaks(payload.chunks[end])
      read == SubSeq(payload.chunks, 1, end)
      rest == [payload EXCEPT !.chunks = SubSeq(@, end + 1, Len(@))]
  IN  IF ends = {} THEN finish([chunks |-> <<>>, done |-> TRUE], payload.chunks, before(Len(payload.chunks) + 1))
      ELSE IF breaks = {} THEN [line |-> {}, payload |-> revert_chunks(rest, read)]
      ELSE finish(rest, read, before(end) + (CHOOSE i \in breaks : \A j \in breaks : i <= j) - 1)

decode_bytes(body) ==
  LET starts(text) == text # <<>> /\ text[1] = "{"
  IN  IF body = <<>> \/ starts(body) THEN Ok(body)
      ELSE IF body[1] \notin {"base64", "base64 of zlib"} THEN Err("Decode")
      ELSE IF body[1] = "base64" /\ ~starts(Tail(body)) THEN Err("Zlib")
      ELSE Ok(Tail(body))

(* StoreBody of a POST request, with a length that may be declared.        *)
StoreBody(payload, declared, limit) ==
  LET body == IF payload.done THEN <<>> ELSE FlattenSeq(payload.chunks)
  IN  IF (\E n \in declared : n > limit) \/ Len(body) > limit THEN Err("Overflow")
      ELSE decode_bytes(body)

-----------------------------------------------------------------------------
(* The endpoint for envelopes. request.header is the first line of the     *)
(* body as partial meta data, or nothing if it is not an object with them. *)

(* EnvelopeMeta::from_request: the request goes before the first line.     *)
EnvelopeMeta(request) ==
  LET result == from_request(request)
      peeked == PeekLine(SharedPayload(request.chunks))
      object == \E line \in peeked.line : line[1] = "{"
      parsed == {header \in request.header : object /\ header.dsn # {} /\ from_dsn(header.dsn).ok}
      unread == [payload |-> SharedPayload(request.chunks), meta |-> result]
  IN  IF result.ok \/ result.error # "MissingAuth" THEN unread
      ELSE [payload |-> peeked.payload,
            meta |-> IF peeked.line = {} THEN result
                     ELSE IF parsed = {} THEN Err("BadEnvelopeAuth")
                     ELSE Ok(copy_to(from_headers(request), CHOOSE header \in parsed : TRUE))]

(* store_envelope: handle_store_like_request with extract_envelope.        *)
store_envelope(request, limit) ==
  LET found == EnvelopeMeta(request)
      body == StoreBody(found.payload, request.length, limit)
      header == CHOOSE h \in request.header : TRUE
  IN  IF ~found.meta.ok THEN found.meta
      ELSE IF found.meta.value.version > default_version THEN Err("UnsupportedProtocolVersion")
      ELSE IF ~body.ok THEN body
      ELSE IF body.value = <<>> THEN Err("EmptyBody")
      ELSE IF request.header = {} \/ ~from_dsn(header.dsn).ok THEN Err("InvalidHeader")
      ELSE LET meta == complete(header, found.meta.value)
           IN  IF meta.ok THEN Ok([meta |-> meta.value, body |-> body.value]) ELSE meta

(* SendEnvelope: the request to the upstream, from a Relay at an address.  *)
(* The project is known once an envelope was processed.                    *)
SendEnvelope(meta, body, project, address) ==
  LET key == (CHOOSE d \in meta.dsn : TRUE).public_key
      dsn == {[public_key |-> key, project_id |-> {project}]}
      auth == [ok |-> TRUE, key |-> key, flags |-> {}, version |-> meta.version, client |-> meta.client]
  IN  [x_sentry_auth |-> {[scheme |-> "sentry", auth |-> auth]}, authorization |-> {}, query |-> {}, segment |-> {},
       project |-> {project}, origin |-> meta.origin, referer |-> {}, peer |-> {address}, forwarded |-> meta.forwarded_for,
       agent |-> meta.user_agent, header |-> {[meta EXCEPT !.dsn = WrittenDsn(dsn)]}, chunks |-> <<body>>, length |-> {}]

-----------------------------------------------------------------------------
(* The next Relay accepts what is passed on to it, and sees the client as  *)
(* this one did. It refuses a version that is not supported and an origin  *)
(* that is none of the web: this Relay can accept both in the first line   *)
(* of an envelope, which is merged after handle_store_like_request has     *)
(* looked at the version and does not pass through parse_header_url.       *)
Forwardable(meta) == meta.version <= default_version /\ parse_header_url(meta.origin) = meta.origin

ForwardsAlike(meta, body, project, address, limit) ==
  LET next == store_envelope(SendEnvelope(meta, body, project, address), limit)
      key == (CHOOSE d \in meta.dsn : TRUE).public_key
  IN  IF Forwardable(meta)
      THEN next = Ok([meta |-> [meta EXCEPT !.dsn = {[public_key |-> key, project_id |-> {project}]}], body |-> body])
      ELSE ~next.ok

=============================================================================
