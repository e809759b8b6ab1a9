---------------------------- MODULE Metastructure ----------------------------
(***************************************************************************)
(* Values of events with their meta data: relay-general/src/types, what    *)
(* relay-general/derive generates for structs, and the processors of       *)
(* store/{schema,remove_other,event_error}.rs.                             *)
(*                                                                         *)
(* An annotated value has a value, which is a set with at most one element *)
(* (None is the empty set, and null in JSON), and meta data: errors and    *)
(* the original value. A value is a string of characters, a number, an     *)
(* array or an object; a struct is an object with an entry for each of its *)
(* fields. JSON is a value of which no part has meta data. Remarks and the *)
(* original length are carried along like the original value.              *)
(***************************************************************************)
EXTENDS Integers, Sequences, SequencesExt, FiniteSetsExt, Functions

CONSTANT MaxOriginal    \* only values below this size are kept in meta data

Text(chars) == [is |-> "string", text |-> chars]
Num(n) == [is |-> "number", number |-> n]
List(items) == [is |-> "array", items |-> items]
Map(entries) == [is |-> "object", entries |-> entries]

(* What is in an array, by its index, or in an object, by its key.         *)
Inside(v) ==
  CASE v.is = "array" -> v.items
    [] v.is = "object" -> v.entries
    [] OTHER -> <<>>

WithInside(v, children) ==
  CASE v.is = "array" -> List(children)
    [] v.is = "object" -> Map(children)
    [] OTHER -> v

NoMeta == [errors |-> <<>>, original |-> {}]
Annotated(value, meta) == [value |-> value, meta |-> meta]
Null == Annotated({}, NoMeta)
New(v) == Annotated({v}, NoMeta)
The(option) == CHOOSE v \in option : TRUE

(* An estimate of the size in JSON; keys are not counted.                  *)
Commas(keys) == IF keys = {} THEN 0 ELSE Cardinality(keys) - 1

RECURSIVE SizeOf(_)
SizeOf(v) ==
  CASE v.is = "string" -> Len(v.text) + 2
    [] v.is = "number" -> 1
    [] OTHER -> 2 + Commas(DOMAIN Inside(v))
                  + MapThenSumSet(LAMBDA k : IF Inside(v)[k].value = {} THEN 4
                                             ELSE SizeOf(The(Inside(v)[k].value)), DOMAIN Inside(v))

estimate_size(option) == MapThenSumSet(SizeOf, option)

-----------------------------------------------------------------------------
(* Meta.                                                                   *)

add_error(meta, e) ==
  IF e \in Range(meta.errors) THEN meta ELSE [meta EXCEPT !.errors = Append(@, e)]

set_original_value(meta, option) ==
  IF estimate_size(option) < MaxOriginal THEN [meta EXCEPT !.original = option] ELSE meta

merge(meta, other) ==
  [errors |-> meta.errors \o other.errors,
   original |-> IF meta.original = {} THEN other.original ELSE meta.original]

is_empty_meta_Original(meta) == meta.original = {}

is_empty_meta(meta) == meta = NoMeta

(* A value of another type than expected.                                  *)
Unexpected(a) == Annotated({}, set_original_value(add_error(a.meta, "expected"), a.value))

-----------------------------------------------------------------------------
(* Types. A field of a struct has a type, the names it had before, whether *)
(* it is skipped when it is written, and what SchemaProcessor verifies.    *)

Behavior(of, deep) == [of |-> of, deep |-> deep]
Never == Behavior("never", TRUE)

descend(b) == IF b.deep THEN b ELSE Never

DefaultAttrs == [required |-> FALSE, nonempty |-> FALSE, trim_whitespace |-> FALSE, characters |-> {}]

Field(ty, skip, attrs, aliases) == [ty |-> ty, skip |-> skip, attrs |-> attrs, aliases |-> aliases]

AnyValue == [is |-> "any"]
IsField(ty, key) == ty.is = "struct" /\ key \in DOMAIN ty.fields

TypeInside(ty, key) ==
  CASE ty.is = "any" -> AnyValue
    [] ty.is \in {"array", "object"} -> ty.item
    [] ty.is = "tuple" -> ty.elements[key]
    [] ty.is = "struct" -> IF IsField(ty, key) THEN ty.fields[key].ty ELSE AnyValue

AttrsInside(ty, key) == IF IsField(ty, key) THEN ty.fields[key].attrs ELSE DefaultAttrs

(* How what is inside is skipped: fields of structs say so themselves, and *)
(* unnamed ones and the parts of a Value are written always.               *)
BehaviorInside(ty, key, b) ==
  CASE ty.is = "any" -> Never
    [] ty.is = "struct" -> IF IsField(ty, key) THEN ty.fields[key].skip ELSE Behavior("null", FALSE)
    [] OTHER -> descend(b)

-----------------------------------------------------------------------------
(* FromValue.                                                              *)

(* The keys of an object that are read as a field; the first one counts.   *)
KeysOf(field, name) == <<name>> \o field.aliases

FieldValue(entries, field, name) ==
  LET found == SelectSeq(KeysOf(field, name), LAMBDA k : k \in DOMAIN entries)
  IN  IF found = <<>> THEN Null ELSE entries[Head(found)]

OtherKeys(ty, entries) ==
  DOMAIN entries \ UNION {Range(KeysOf(ty.fields[name], name)) : name \in DOMAIN ty.fields}

IsScalar(ty, v) == ty.is \in {"string", "number"} /\ v.is = ty.is

IsCollection(ty, v) == ty.is \in {"array", "object"} /\ v.is = ty.is

IsTuple(ty, v) == ty.is = "tuple" /\ v.is = "array" /\ Len(v.items) = Len(ty.elements)

(* Numbers merge the meta data of the error into what they had.            *)
NotANumber(a) == Annotated({}, merge(a.meta, Unexpected(New(The(a.value))).meta))

RECURSIVE from_value(_, _)
from_value(ty, a) ==
  LET v == The(a.value)
      items == [k \in DOMAIN Inside(v) |-> from_value(TypeInside(ty, k), Inside(v)[k])]
      fields == [k \in DOMAIN ty.fields \cup OtherKeys(ty, v.entries) |->
                   IF IsField(ty, k) THEN from_value(ty.fields[k].ty, FieldValue(v.entries, ty.fields[k], k))
                   ELSE v.entries[k]]
  IN  CASE a.value = {} -> a
        [] ty.is = "any" \/ IsScalar(ty, v) -> a
        [] IsCollection(ty, v) \/ IsTuple(ty, v) -> [a EXCEPT !.value = {WithInside(v, items)}]
        [] ty.is = "struct" /\ v.is = "object" -> [a EXCEPT !.value = {Map(fields)}]
        [] ty.is = "number" /\ v.is # "number" -> NotANumber(a)
        [] OTHER -> Unexpected(a)

-----------------------------------------------------------------------------
(* Empty and skip_serialization.                                           *)

RECURSIVE is_empty(_, _), is_deep_empty(_, _), skip_serialization(_, _, _)
skip_serialization(ty, a, b) ==
  /\ is_empty_meta(a.meta)
  /\ b.of # "never"
  /\ \A v \in a.value :
       b.of = "empty" /\ IF b.deep THEN is_deep_empty(ty, v) ELSE is_empty(ty, v)

is_empty(ty, v) ==
  CASE v.is = "string" -> v.text = <<>>
    [] v.is = "number" -> FALSE
    [] ty.is = "tuple" -> FALSE
    [] ty.is = "struct" ->
         \A k \in DOMAIN v.entries : skip_serialization(TypeInside(ty, k), v.entries[k], Behavior("empty", FALSE))
    [] OTHER -> DOMAIN Inside(v) = {}

DeepBehavior(ty, key) ==
  IF ty.is = "struct" THEN BehaviorInside(ty, key, Never) ELSE Behavior("empty", TRUE)

is_deep_empty(ty, v) ==
  CASE v.is = "string" -> v.text = <<>>
    [] v.is = "number" -> FALSE
    [] OTHER -> \A k \in DOMAIN Inside(v) : skip_serialization(TypeInside(ty, k), Inside(v)[k], DeepBehavior(ty, k))

-----------------------------------------------------------------------------
(* IntoValue: the payload, in which skipped values are left out, and the   *)
(* tree of all meta data that is written beside it.                        *)

WrittenKeys(ty, v, b) ==
  {k \in DOMAIN Inside(v) :
     ty.is = "tuple" \/ ~skip_serialization(TypeInside(ty, k), Inside(v)[k], BehaviorInside(ty, k, b))}

RECURSIVE serialize_payload(_, _, _)
serialize_payload(ty, a, b) ==
  LET v == The(a.value)
      written(k) == serialize_payload(TypeInside(ty, k), Inside(v)[k], BehaviorInside(ty, k, b))
      keys == WrittenKeys(ty, v, b)
      order == IF v.is = "array" THEN SetToSortSeq(keys, <) ELSE <<>>
  IN  IF a.value = {} THEN Null
      ELSE New(WithInside(v, IF v.is = "array" THEN [n \in DOMAIN order |-> written(order[n])]
                             ELSE [k \in keys |-> written(k)]))

IsEmptyTree(tree) == is_empty_meta(tree.meta) /\ DOMAIN tree.children = {}

RECURSIVE extract_meta_tree(_)
extract_meta_tree(a) ==
  LET children == IF a.value = {} THEN <<>> ELSE Inside(The(a.value))
      trees == [k \in DOMAIN children |-> extract_meta_tree(children[k])]
  IN  [meta |-> a.meta, children |-> Restrict(trees, {k \in DOMAIN trees : ~IsEmptyTree(trees[k])})]

RECURSIVE attach_meta_tree(_, _)
attach_meta_tree(a, tree) ==
  Annotated({WithInside(v, [k \in DOMAIN Inside(v) |->
                              IF k \in DOMAIN tree.children THEN attach_meta_tree(Inside(v)[k], tree.children[k])
                              ELSE Inside(v)[k]]) : v \in a.value}, tree.meta)

to_json(ty, a) == [payload |-> serialize_payload(ty, a, Behavior("null", TRUE)), meta |-> extract_meta_tree(a)]
from_json(ty, json) == from_value(ty, attach_meta_tree(json.payload, json.meta))

-----------------------------------------------------------------------------
(* SchemaProcessor.                                                        *)

Whitespace == " "

RECURSIVE TrimLeft(_)
TrimLeft(text) == IF text # <<>> /\ Head(text) = Whitespace THEN TrimLeft(Tail(text)) ELSE text
value_trim_whitespace(attrs, v) ==
  IF attrs.trim_whitespace THEN Text(Reverse(TrimLeft(Reverse(TrimLeft(v.text))))) ELSE v

verify_value_nonempty_Silent(ty, attrs, a) ==
  IF attrs.nonempty /\ \E v \in a.value : is_empty(ty, v) THEN Annotated({}, a.meta) ELSE a

verify_value_nonempty(ty, attrs, a) ==
  IF attrs.nonempty /\ \E v \in a.value : is_empty(ty, v)
  THEN Annotated({}, add_error(a.meta, "nonempty"))
  ELSE a

verify_value_characters(attrs, a) ==
  IF attrs.characters # {} /\ \E v \in a.value : \E n \in DOMAIN v.text : v.text[n] \notin attrs.characters
  THEN Annotated({}, set_original_value(add_error(a.meta, "invalid"), a.value))
  ELSE a

before_process(attrs, a) ==
  IF a.value = {} /\ attrs.required /\ a.meta.errors = <<>>
  THEN [a EXCEPT !.meta = add_error(@, "missing")]
  ELSE a

(* The whole walk, which is process_value with this processor.             *)
RECURSIVE verify_schema(_, _, _)
verify_schema(ty, attrs, annotated) ==
  LET a == before_process(attrs, annotated)
      v == The(a.value)
      inside == [k \in DOMAIN Inside(v) |->
                   verify_schema(TypeInside(ty, k), AttrsInside(ty, k), Inside(v)[k])]
      walked == [a EXCEPT !.value = {WithInside(v, inside)}]
  IN  CASE a.value = {} -> a
        [] v.is = "string" ->
             verify_value_characters(attrs,
               verify_value_nonempty(ty, attrs, [a EXCEPT !.value = {value_trim_whitespace(attrs, v)}]))
        [] v.is = "number" -> a
        [] ty.is \in {"array", "object"} -> verify_value_nonempty(ty, attrs, walked)
        [] OTHER -> walked

-----------------------------------------------------------------------------
(* RemoveOtherProcessor: what is not known is removed, but in an event and *)
(* in breadcrumbs it is replaced by an error, except for legacy keys.      *)

RemovedKeys(ty, v) == IF ty.is = "struct" /\ ty.other # "retain" THEN DOMAIN v.entries \ DOMAIN ty.fields ELSE {}
create_errors(a) == Annotated({}, set_original_value(add_error(NoMeta, "invalid_attribute"), {}))

RECURSIVE remove_other(_, _)
remove_other(ty, a) ==
  Annotated({
    LET removed == RemovedKeys(ty, v)
        silent == IF ty.is = "struct" /\ ty.other = "error" THEN removed \cap ty.legacy ELSE removed
    IN  WithInside(v, [k \in DOMAIN Inside(v) \ silent |->
                         IF k \in removed THEN create_errors(Inside(v)[k])
                         ELSE remove_other(TypeInside(ty, k), Inside(v)[k])]) : v \in a.value}, a.meta)

-----------------------------------------------------------------------------
(* EmitEventErrors: every error of an event, by its path; the original     *)
(* value goes with the first one.                                          *)

RECURSIVE emit_event_errors(_, _)
emit_event_errors(path, a) ==
  {[name |-> path, ty |-> a.meta.errors[n], value |-> IF n = 1 THEN a.meta.original ELSE {}] :
     n \in DOMAIN a.meta.errors}
    \cup UNION {UNION {emit_event_errors(Append(path, k), Inside(v)[k]) : k \in DOMAIN Inside(v)} : v \in a.value}

=============================================================================
