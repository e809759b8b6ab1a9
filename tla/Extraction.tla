----------------------------- MODULE Extraction -----------------------------
(***************************************************************************)
(* From a request to an envelope and its event, where clients do not send  *)
(* envelopes: multipart requests and form data (relay-server/src/utils/    *)
(* multipart.rs, param_parser.rs), minidumps and their endpoint            *)
(* (endpoints/minidump.rs, utils/native.rs), the id of the event           *)
(* (endpoints/common.rs), and the event that the EnvelopeProcessor makes   *)
(* of form fields and of breadcrumbs in attachments (actors/envelopes.rs). *)
(*                                                                         *)
(* Text and bytes are sequences. JSON values are strings, null and         *)
(* objects; a text that is not JSON reads as nothing.                      *)
(***************************************************************************)
EXTENDS Naturals, Sequences, SequencesExt, FiniteSets

CONSTANTS MaxSize,    \* bytes of a multipart request
          Json(_)     \* what a text reads as: a set with at most one value

Absent == [is |-> "null"]
Leaf(text) == [is |-> "string", text |-> text]
Obj(entries) == [is |-> "object", entries |-> entries]
Empty == Obj(<<>>)

-----------------------------------------------------------------------------
(* Form data in an item: strings with their length before them.            *)

write_string(text) == <<Len(text)>> \o text

(* What is read and what is left; nothing is read if there is too little,  *)
(* and then nothing is left.                                               *)
split_front(data, len) ==
  IF Len(data) < len THEN [read |-> {}, rest |-> <<>>]
  ELSE [read |-> {SubSeq(data, 1, len)}, rest |-> SubSeq(data, len + 1, Len(data))]

consume_string(data) == IF data = <<>> THEN [read |-> {}, rest |-> <<>>] ELSE split_front(Tail(data), Head(data))

ReadValue(key, value) == [entry |-> {[key |-> k, value |-> v] : k \in key.read, v \in value.read}, rest |-> value.rest]
ReadEntry(key) == IF key.read = {} THEN [entry |-> {}, rest |-> key.rest] ELSE ReadValue(key, consume_string(key.rest))

FormDataWriter(entries) ==
  FoldLeft(LAMBDA data, e : data \o write_string(e.key) \o write_string(e.value), <<>>, entries)

RECURSIVE FormDataIter(_)
FormDataIter(data) ==
  IF data = <<>> THEN <<>>
  ELSE LET first == ReadEntry(consume_string(data))
       IN  SetToSeq(first.entry) \o FormDataIter(first.rest)

-----------------------------------------------------------------------------
(* Multipart requests. A field has a name or a file name or neither.       *)

AttachmentTypes ==
  [upload_file_minidump |-> "Minidump", breadcrumb1 |-> "Breadcrumbs", breadcrumb2 |-> "Breadcrumbs", event |-> "EventPayload"]
infer_attachment_type(name) ==
  IF name \subseteq DOMAIN AttachmentTypes /\ name # {} THEN AttachmentTypes[CHOOSE n \in name : TRUE] ELSE "Attachment"

consume_item_Each(content, field) ==
  IF ~content.ok \/ field.size > MaxSize THEN [content EXCEPT !.ok = FALSE]
  ELSE IF field.file # {}
  THEN [content EXCEPT !.items = Append(@, [attachment |-> infer_attachment_type(field.name), field |-> field])]
  ELSE IF field.name # {} THEN [content EXCEPT !.form = Append(@, field)] ELSE content

consume_item(content, field) ==
  LET left == [content EXCEPT !.remaining_size = @ - field.size]
  IN  IF ~content.ok \/ field.size > content.remaining_size THEN [content EXCEPT !.ok = FALSE]
      ELSE IF field.file # {}
      THEN [left EXCEPT !.items = Append(@, [attachment |-> infer_attachment_type(field.name), field |-> field])]
      ELSE IF field.name # {} THEN [left EXCEPT !.form = Append(@, field)] ELSE left

handle_request(fields) ==
  FoldLeft(consume_item, [ok |-> TRUE, items |-> <<>>, form |-> <<>>, remaining_size |-> MaxSize], fields)

swap_remove(items, n) == Front([items EXCEPT ![n] = Last(items)])
FirstMinidump(items) ==
  {n \in DOMAIN items : items[n].attachment = "Minidump" /\ \A k \in 1 .. n - 1 : items[k].attachment # "Minidump"}

(* The content of a field is a minidump, is multipart with one in it, or   *)
(* is neither.                                                             *)
IsMinidump(field) == field.content \in {"minidump", "embedded"}

(* A request whose whole body is the minidump.                             *)
raw_minidump_envelope(field) ==
  IF field.content # "minidump" THEN [is |-> "InvalidMinidump"]
  ELSE [is |-> "envelope", items |-> <<[attachment |-> "Minidump", field |-> field]>>, form |-> <<>>]

minidump_envelope(request) ==
  LET first == FirstMinidump(request.items)
  IN  CASE ~request.ok -> [is |-> "InvalidMultipart"]
        [] request.ok /\ first = {} -> [is |-> "MissingMinidump"]
        [] request.ok /\ first # {} ->
             LET n == CHOOSE n \in first : TRUE
             IN  IF ~IsMinidump(request.items[n].field) THEN [is |-> "InvalidMinidump"]
                 ELSE [is |-> "envelope",
                       items |-> Append(swap_remove(request.items, n),
                                        [request.items[n] EXCEPT !.field.content = "minidump"]),
                       form |-> request.form]

-----------------------------------------------------------------------------
(* Fields of a form. A field is the event in JSON, a part of it, a place   *)
(* in it, or something else.                                               *)

RECURSIVE update_nested_value(_, _, _)
update_nested_value(target, path, value) ==
  IF target.is # "object" \/ path = <<>> THEN target
  ELSE LET key == Head(path)
           old == IF key \in DOMAIN target.entries THEN target.entries[key]
                  ELSE IF Len(path) = 1 THEN Leaf(value) ELSE Empty
       IN  Obj([k \in DOMAIN target.entries \cup {key} |->
                  IF k # key THEN target.entries[k] ELSE update_nested_value(old, Tail(path), value)])

RECURSIVE merge_values(_, _)
merge_values(a, b) ==
  IF a.is = "object" /\ b.is = "object"
  THEN Obj([k \in DOMAIN a.entries \cup DOMAIN b.entries |->
              IF k \notin DOMAIN b.entries THEN a.entries[k]
              ELSE merge_values(IF k \in DOMAIN a.entries THEN a.entries[k] ELSE Absent, b.entries[k])])
  ELSE IF a.is = "null" THEN b ELSE a

(* A name with brackets: what is between them, up to a mistake. What is    *)
(* before the first bracket is not looked at, a last one may be open.      *)
IndexStep(state, c) ==
  CASE state.in = "start" /\ c = "[" -> [state EXCEPT !.in = "index", !.index = <<>>]
    [] state.in = "between" /\ c = "[" -> [state EXCEPT !.in = "index", !.index = <<>>]
    [] state.in = "between" /\ c = "=" -> [state EXCEPT !.in = "end"]
    [] state.in = "between" /\ c \notin {"[", "="} -> [state EXCEPT !.in = "error"]
    [] state.in = "index" /\ c = "]" -> [state EXCEPT !.in = "between", !.found = Append(@, state.index)]
    [] state.in = "index" /\ c # "]" -> [state EXCEPT !.index = Append(@, c)]
    [] OTHER -> state

get_indexes(name) == FoldLeft(IndexStep, [in |-> "start", index |-> <<>>, found |-> <<>>], name)

get_sentry_entry_indexes(name) ==
  IF ~IsPrefix(<<"sentry", "[">>, name) \/ get_indexes(name).in = "error" THEN {} ELSE {get_indexes(name).found}

JoinedChunks_Arrival(chunks) == FlattenSeq([n \in DOMAIN chunks |-> chunks[n].value])

(* The parts in their order; a later one replaces an earlier one.          *)
JoinedChunks(chunks) ==
  LET last(i) == CHOOSE n \in DOMAIN chunks : chunks[n].index = i /\ \A k \in DOMAIN chunks : chunks[k].index = i => k <= n
      indexes == SetToSortSeq({chunks[n].index : n \in DOMAIN chunks}, <)
  IN  FlattenSeq([k \in DOMAIN indexes |-> chunks[last(indexes[k])].value])

IsChunk(e) == Len(e.key) = 2 /\ e.key[1] = "sentry__" /\ e.key[2] \in Nat
IsPayload(e) == e.key = <<"sentry">> \/ (e.key # <<>> /\ e.key[1] = "sentry___")
ChunksOf(entries) ==
  LET chunks == SelectSeq(entries, IsChunk)
  IN  [n \in DOMAIN chunks |-> [index |-> chunks[n].key[2], value |-> chunks[n].value]]

MergeJson(target, json) == IF json = {} THEN target ELSE merge_values(target, CHOOSE j \in json : TRUE)

merge_entry(target, e) ==
  IF IsPayload(e) THEN MergeJson(target, Json(e.value))
  ELSE IF IsChunk(e) THEN target
  ELSE IF get_sentry_entry_indexes(e.key) # {}
  THEN update_nested_value(target, CHOOSE p \in get_sentry_entry_indexes(e.key) : TRUE, e.value)
  ELSE update_nested_value(target, <<<<"extra">>, e.key>>, e.value)

merge_formdata(entries) ==
  LET merged == FoldLeft(merge_entry, Empty, entries)
      chunks == ChunksOf(entries)
  IN  IF chunks = <<>> THEN merged ELSE MergeJson(merged, Json(JoinedChunks(chunks)))

-----------------------------------------------------------------------------
(* The id of the event: the answer to the client has it before the event   *)
(* is read. An error in form data is as good as no id.                     *)

IdKey == <<"sentry", "[", "event_id", "]">>
IdOf(json) ==
  IF json.is = "object" /\ <<"event_id">> \in DOMAIN json.entries /\ json.entries[<<"event_id">>].is = "string"
  THEN {json.entries[<<"event_id">>].text} ELSE {}

event_id_from_formdata(entries) ==
  LET found == SelectSeq(entries, LAMBDA e : e.key \in {<<"sentry">>, IdKey})
  IN  IF found = <<>> THEN {}
      ELSE IF found[1].key = IdKey THEN {found[1].value}
      ELSE UNION {IdOf(json) : json \in Json(found[1].value)}

-----------------------------------------------------------------------------
(* Breadcrumbs in two attachments that the client writes in turn. The time *)
(* of a breadcrumb may be missing.                                         *)

LastTime(breadcrumbs) ==
  LET timed == SelectSeq(breadcrumbs, LAMBDA b : b # {})
  IN  IF timed = <<>> THEN {} ELSE Last(timed)

IsLater(t, u) == \E a \in t : u = {} \/ \E b \in u : a > b

event_from_attachments_Joined(first, second) == first \o second

event_from_attachments(first, second) ==
  LET joined == IF IsLater(LastTime(first), LastTime(second)) THEN second \o first ELSE first \o second
      max_length == IF Len(first) > Len(second) THEN Len(first) ELSE Len(second)
  IN  SubSeq(joined, Len(joined) - max_length + 1, Len(joined))

-----------------------------------------------------------------------------
(* What is written into the event of a crash, of the fields in Normalize   *)
(* and the mechanism of its one exception.                                 *)

write_native_placeholder_Keeps(event, mechanism) ==
  [event EXCEPT !.platform = IF @ = {} THEN {"native"} ELSE @, !.level = IF @ = {} THEN {"fatal"} ELSE @,
                !.exceptions = TRUE, !.mechanism = mechanism]

write_native_placeholder(event, mechanism) ==
  [event EXCEPT !.platform = {"native"}, !.level = IF @ = {} THEN {"fatal"} ELSE @,
                !.exceptions = TRUE, !.mechanism = mechanism]

process_minidump(event, dump) ==
  LET placed == write_native_placeholder(event, "minidump")
  IN  IF dump.time = {} THEN placed ELSE [placed EXCEPT !.timestamp = dump.time]

create_placeholders(event, attachments) ==
  IF "Minidump" \in DOMAIN attachments THEN process_minidump(event, attachments["Minidump"])
  ELSE IF "AppleCrashReport" \in DOMAIN attachments THEN write_native_placeholder(event, "applecrashreport")
  ELSE event

=============================================================================
