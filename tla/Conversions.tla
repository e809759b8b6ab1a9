----------------------------- MODULE Conversions -----------------------------
(***************************************************************************)
(* How the protocol reads values that SDKs send in more than one form, and *)
(* how it writes them: FromValue and IntoValue in                          *)
(* relay-general/src/protocol/{types,request,fingerprint,tags,thread,      *)
(* measurements,logentry,contexts,event}.rs.                               *)
(*                                                                         *)
(* Values are those of Metastructure, with booleans and fractions. A type  *)
(* that is not written as it is kept has a form of its own: numbers of     *)
(* registers, levels and points in time. Characters are one-letter         *)
(* strings; of letters there are upper and lower "a" and "b". An integer   *)
(* of 64 bits has Bits bits, and a second has Micros microseconds of Nanos *)
(* nanoseconds each.                                                       *)
(***************************************************************************)
EXTENDS Metastructure

CONSTANTS Bits, Micros, Nanos

Bool(truth) == [is |-> "bool", truth |-> truth]
Fraction(nanos) == [is |-> "float", nanos |-> nanos]
Register(n) == [is |-> "register", register |-> n]
Level(name) == [is |-> "level", level |-> name]
Time(nanos) == [is |-> "time", nanos |-> nanos]

Second == Micros * Nanos
AsU64(n) == n % 2 ^ Bits
Truncated(n, unit) == IF n >= 0 THEN n \div unit ELSE -((-n) \div unit)

Invalid_Silent(a, e) == Annotated({}, set_original_value(a.meta, a.value))

Invalid(a, e) == Annotated({}, set_original_value(add_error(a.meta, e), a.value))
WithValue(a, v) == [a EXCEPT !.value = {v}]

-----------------------------------------------------------------------------
(* Text.                                                                   *)

Digit == <<"0", "1", "2", "3", "4", "5", "6", "7", "8", "9", "a", "b", "c", "d", "e", "f">>

RECURSIVE InBase(_, _)
InBase(n, base) == IF n < base THEN <<Digit[n + 1]>> ELSE Append(InBase(n \div base, base), Digit[(n % base) + 1])

to_string(n) == IF n < 0 THEN <<"-">> \o InBase(-n, 10) ELSE InBase(n, 10)

(* The number that a text is in a base, as a set with at most one element. *)
Parsed(text, base) ==
  LET number == FoldLeft(LAMBDA sum, c : sum * base + (CHOOSE d \in DOMAIN Digit : Digit[d] = c) - 1, 0, text)
  IN  IF text # <<>> /\ Range(text) \subseteq Range(SubSeq(Digit, 1, base)) /\ number < 2 ^ Bits THEN {number} ELSE {}

Upper(c) == CASE c = "a" -> "A" [] c = "b" -> "B" [] OTHER -> c
Lower(c) == CASE c = "A" -> "a" [] c = "B" -> "b" [] OTHER -> c
to_lowercase(text) == [n \in DOMAIN text |-> Lower(text[n])]
trim(text) == Reverse(TrimLeft(Reverse(TrimLeft(text))))
replace(text, old, new) == [n \in DOMAIN text |-> IF text[n] = old THEN new ELSE text[n]]

split(text, separator) ==
  FoldLeft(LAMBDA parts, c : IF c = separator THEN Append(parts, <<>>)
                             ELSE Append(Front(parts), Append(Last(parts), c)), <<<<>>>>, text)

(* Both sides of the first separator; nothing without one.                 *)
split_once(text, separator) ==
  {<<SubSeq(text, 1, n - 1), SubSeq(text, n + 1, Len(text))>> :
     n \in {i \in DOMAIN text : text[i] = separator /\ \A j \in 1 .. i - 1 : text[j] # separator}}

Pair(key, value) == New(List(<<key, value>>))
TextPair(pair) == Pair(New(Text(pair[1])), New(Text(pair[2])))

-----------------------------------------------------------------------------
(* Scalars.                                                                *)

register_from_value(a) ==
  LET v == The(a.value)
      hex == \E x \in {"x", "X"} : IsPrefix(<<"0", x>>, v.text)
      parsed == IF hex THEN Parsed(SubSeq(v.text, 3, Len(v.text)), 16) ELSE Parsed(v.text, 10)
  IN  CASE a.value = {} -> a
        [] v.is = "string" -> IF parsed = {} THEN Invalid(a, "invalid") ELSE WithValue(a, Register(The(parsed)))
        [] v.is = "number" -> WithValue(a, Register(AsU64(v.number)))
        [] OTHER -> Unexpected(a)

LevelNames == [debug |-> "debug", info |-> "info", log |-> "info", warning |-> "warning", error |-> "error",
               fatal |-> "fatal", critical |-> "fatal"]
from_python_level(n) == IF n \in 1 .. 5 THEN {<<"debug", "info", "warning", "error", "fatal">>[n]} ELSE {}

level_from_value(a) ==
  LET v == The(a.value)
      found == CASE v.is = "string" -> {LevelNames[k] : k \in {k \in DOMAIN LevelNames : v.text = <<k>>}}
                 [] v.is = "number" -> from_python_level(AsU64(v.number))
                 [] OTHER -> {}
  IN  CASE a.value = {} -> a
        [] v.is \in {"string", "number"} /\ found # {} -> WithValue(a, Level(The(found)))
        [] v.is \in {"string", "number"} -> Invalid(a, "invalid")
        [] OTHER -> Unexpected(a)

ip_from_value(addresses, a) ==
  CASE a.value = {} -> a
    [] The(a.value).is = "string" /\ The(a.value).text \in addresses -> a
    [] OTHER -> Unexpected(a)

thread_id_from_value(a) ==
  CASE a.value = {} \/ The(a.value).is = "string" -> a
    [] The(a.value).is = "number" -> WithValue(a, Num(AsU64(The(a.value).number)))
    [] OTHER -> Unexpected(a)

(* str(x) of Python, without fractions.                                    *)
lenient_from_value(a) ==
  LET v == The(a.value)
  IN  CASE a.value = {} \/ v.is = "string" -> a
        [] v.is = "bool" -> WithValue(a, Text(IF v.truth THEN <<"True">> ELSE <<"False">>))
        [] v.is = "number" -> WithValue(a, Text(to_string(v.number)))
        [] v.is = "float" -> WithValue(a, Text(to_string(Truncated(v.nanos, Second))))
        [] OTHER -> Unexpected(a)

json_lenient_from_value(a) ==
  IF a.value = {} \/ The(a.value).is = "string" THEN a ELSE WithValue(a, Text(<<"json">>))

(* Numbers lose the fraction before 1970, and the year has a limit. The    *)
(* fraction of a number is not exact: it is off by the drift.              *)
timestamp_from_value(limit, drift, a) ==
  LET v == The(a.value)
      inexact == IF v.nanos % Second = 0 THEN v.nanos ELSE v.nanos + drift
      nanos == CASE v.is = "number" -> v.number * Second
                 [] v.is = "float" -> IF v.nanos >= 0 THEN inexact ELSE Truncated(v.nanos, Second) * Second
                 [] OTHER -> v.nanos
  IN  CASE a.value = {} -> a
        [] v.is \in {"number", "float", "time"} ->
             IF nanos >= limit THEN Invalid(a, "invalid") ELSE WithValue(a, Time(nanos))
        [] OTHER -> Unexpected(a)

datetime_to_timestamp_Exact(nanos) == nanos

datetime_to_timestamp(nanos) ==
  LET micros == (2 * (nanos % Second) + Nanos) \div (2 * Nanos)
  IN  (nanos \div Second) * Second + micros * Nanos

-----------------------------------------------------------------------------
(* Lists of values and of pairs.                                           *)

values_from_value(a) ==
  LET v == The(a.value)
  IN  CASE a.value = {} -> a
        [] v.is = "array" -> New(Map([values |-> a]))
        [] v.is = "object" /\ DOMAIN v.entries = {} -> Annotated({}, a.meta)
        [] v.is = "object" /\ "values" \in DOMAIN v.entries ->
             WithValue(a, Map([v.entries EXCEPT !["values"] = IF @.value # {} /\ The(@.value).is # "array"
                                                              THEN Unexpected(@) ELSE @]))
        [] v.is = "object" -> New(Map([values |-> New(List(<<a>>))]))
        [] OTHER -> Unexpected(a)

(* Written without the list if all in it is empty.                         *)
ValuesType ==
  [is |-> "struct", other |-> "retain", legacy |-> {},
   fields |-> [values |-> Field([is |-> "array", item |-> AnyValue], Behavior("empty", TRUE), DefaultAttrs, <<>>)]]

(* Keys of objects are in their order.                                     *)
PairsOf(v, order) ==
  IF v.is = "array" THEN v.items
  ELSE LET keys == SetToSortSeq(DOMAIN v.entries, LAMBDA x, y : order[x] < order[y])
       IN  [n \in DOMAIN keys |-> Pair(New(Text(keys[n])), v.entries[keys[n]])]

IsPair(a) == a.value # {} /\ The(a.value).is = "array" /\ Len(The(a.value).items) = 2

(* Both parts of a pair, read by their own rules.                          *)
ReadPair(a, key, value) == WithValue(a, List(<<key, value>>))

NotAPair(a) == IF a.value = {} THEN a ELSE Unexpected(a)
KeyOf(a) == The(a.value).items[1]
ValueOf(a) == The(a.value).items[2]

string_from_value(a) == from_value([is |-> "string"], a)

tag_from_value(a) ==
  LET key == lenient_from_value(KeyOf(a))
      value == lenient_from_value(ValueOf(a))
  IN  IF ~IsPair(a) THEN NotAPair(a)
      ELSE ReadPair(a, [key EXCEPT !.value = {Text(trim(replace(v.text, " ", "-"))) : v \in @}],
                       [value EXCEPT !.value = {Text(trim(v.text)) : v \in @}])

HeaderName(text) == [n \in DOMAIN text |-> IF n = 1 \/ text[n - 1] = "-" THEN Upper(text[n]) ELSE text[n]]

header_name_from_value(a) ==
  LET name == string_from_value(a)
  IN  [name EXCEPT !.value = {Text(HeaderName(v.text)) : v \in @}]

(* The values of a header are joined, and their errors are those of it.    *)
JoinedHeader(a) ==
  FoldLeft(LAMBDA all, item :
             LET read == lenient_from_value(item)
             IN  [value |-> {Text(h.text \o (IF read.value = {} THEN <<>>
                                             ELSE (IF h.text = <<>> THEN <<>> ELSE <<",">>) \o The(read.value).text)) :
                               h \in all.value},
                  meta |-> IF read.meta.errors = <<>> THEN all.meta ELSE add_error(all.meta, read.meta.errors[1])],
           WithValue(a, Text(<<>>)), The(a.value).items)

header_value_from_value(a) ==
  IF a.value # {} /\ The(a.value).is = "array" THEN JoinedHeader(a) ELSE lenient_from_value(a)

header_from_value(a) ==
  IF ~IsPair(a) THEN NotAPair(a)
  ELSE ReadPair(a, header_name_from_value(KeyOf(a)), header_value_from_value(ValueOf(a)))

cookie_from_value(a) ==
  IF ~IsPair(a) THEN NotAPair(a) ELSE ReadPair(a, string_from_value(KeyOf(a)), string_from_value(ValueOf(a)))

query_from_value(a) ==
  IF ~IsPair(a) THEN NotAPair(a) ELSE ReadPair(a, string_from_value(KeyOf(a)), json_lenient_from_value(ValueOf(a)))

PairFromValue(ty, a) ==
  CASE ty = "tags" -> tag_from_value(a)
    [] ty = "headers" -> header_from_value(a)
    [] ty = "cookies" -> cookie_from_value(a)
    [] ty = "query" -> query_from_value(a)

(* Headers that come as an object are sorted again by their new names.     *)
Sorted(ty, v, pairs, order) ==
  IF ty = "headers" /\ v.is = "object"
  THEN SortSeq(pairs, LAMBDA x, y : order[The(KeyOf(x).value).text] < order[The(KeyOf(y).value).text])
  ELSE pairs

pairlist_from_value(ty, order, a) ==
  LET v == The(a.value)
      pairs == PairsOf(v, order)
      read == [n \in DOMAIN pairs |-> PairFromValue(ty, pairs[n])]
  IN  CASE a.value = {} -> a
        [] v.is \in {"array", "object"} -> WithValue(a, List(Sorted(ty, v, read, order)))
        [] OTHER -> Unexpected(a)

(* Cookies in one string. What is not a pair is an error.                  *)
parse_cookie(text) ==
  {<<trim(pair[1]), trim(pair[2])>> : pair \in {p \in split_once(text, "=") : trim(p[1]) # <<>>}}

iter_cookies(text) == SelectSeq(split(text, ";"), LAMBDA part : trim(part) # <<>>)

cookies_from_value(order, a) ==
  LET text == The(a.value).text
      bad == \E n \in DOMAIN iter_cookies(text) : parse_cookie(iter_cookies(text)[n]) = {}
      good == SelectSeq(iter_cookies(text), LAMBDA part : parse_cookie(part) # {})
      meta == IF bad THEN add_error(a.meta, "invalid") ELSE a.meta
  IN  IF a.value # {} /\ The(a.value).is = "string"
      THEN Annotated({List([n \in DOMAIN good |-> TextPair(The(parse_cookie(good[n])))])},
                     IF meta.errors # <<>> /\ meta.original = {} THEN set_original_value(meta, a.value) ELSE meta)
      ELSE pairlist_from_value("cookies", order, a)

(* form_urlencoded.                                                        *)
Decoded(text) == replace(text, "+", " ")
parse_query(text) ==
  LET parts == SelectSeq(split(IF text # <<>> /\ Head(text) = "?" THEN Tail(text) ELSE text, "&"),
                         LAMBDA part : part # <<>>)
      pair(part) == IF split_once(part, "=") = {} THEN <<part, <<>>>> ELSE The(split_once(part, "="))
  IN  [n \in DOMAIN parts |-> TextPair(<<Decoded(pair(parts[n])[1]), Decoded(pair(parts[n])[2])>>)]

query_string_from_value(order, a) ==
  IF a.value # {} /\ The(a.value).is = "string" THEN WithValue(a, List(parse_query(The(a.value).text)))
  ELSE pairlist_from_value("query", order, a)

-----------------------------------------------------------------------------
(* PairList: position counts entries that are not null, remove and insert  *)
(* use it as an index of all entries.                                      *)

Present(list) == SelectSeq(list, LAMBDA a : a.value # {})
HasKey(a, key) == KeyOf(a).value = {Text(key)}

position(list, key) ==
  {n \in DOMAIN Present(list) :
     HasKey(Present(list)[n], key) /\ \A k \in 1 .. n - 1 : ~HasKey(Present(list)[k], key)}

pairlist_remove(list, key) ==
  IF position(list, key) = {} THEN [list |-> list, taken |-> Null]
  ELSE LET n == The(position(list, key))
       IN  [list |-> RemoveAt(list, n), taken |-> IF list[n].value = {} THEN Null ELSE ValueOf(list[n])]

pairlist_insert_Appends(list, key, value) == Append(list, Pair(New(Text(key)), value))

pairlist_insert(list, key, value) ==
  IF position(list, key) = {} THEN Append(list, Pair(New(Text(key)), value))
  ELSE LET n == The(position(list, key))
       IN  IF list[n].value = {} THEN list ELSE [list EXCEPT ![n] = WithValue(@, List(<<KeyOf(@), value>>))]

-----------------------------------------------------------------------------
(* Fingerprints, measurements, messages and contexts.                      *)

fingerprint_from_value(a) ==
  LET read == [n \in DOMAIN The(a.value).items |-> lenient_from_value(The(a.value).items[n])]
      good == SelectSeq(read, LAMBDA e : e.value # {} /\ e.meta.errors = <<>>)
      bad == SelectSeq(read, LAMBDA e : e.meta.original # {})
      meta == IF bad = <<>> THEN a.meta ELSE add_error(a.meta, "invalid")
  IN  CASE a.value = {} -> a
        [] The(a.value).is = "array" ->
             Annotated(IF good = <<>> /\ meta.errors # <<>> THEN {} ELSE {List([n \in DOMAIN good |-> New(The(good[n].value))])},
                       meta)
        [] OTHER -> Unexpected(a)

is_valid_measurement_name(name) == name # <<>> /\ Range(name) \subseteq {"a", "b", "A", "B"}

(* Of names that become the same the last one counts.                      *)
measurements_from_value(order, a) ==
  LET entries == The(a.value).entries
      valid == {k \in DOMAIN entries : is_valid_measurement_name(trim(k))}
      name(k) == to_lowercase(trim(k))
      last(n) == CHOOSE k \in valid : name(k) = n /\ \A o \in valid : name(o) = n => order[o] <= order[k]
      measured(e) == from_value([is |-> "number"], e)
  IN  CASE a.value = {} -> a
        [] The(a.value).is = "object" ->
             Annotated({Map([n \in {name(k) : k \in valid} |-> measured(entries[last(n)])])},
                       IF valid = DOMAIN entries THEN a.meta ELSE add_error(a.meta, "invalid"))
        [] OTHER -> Unexpected(a)

params_from_value(a) ==
  IF a.value # {} /\ The(a.value).is \notin {"object", "array"}
  THEN Annotated({}, set_original_value(add_error(NoMeta, "expected"), a.value))
  ELSE a

LogEntryType ==
  LET text == Field([is |-> "string"], Behavior("null", FALSE), DefaultAttrs, <<>>)
  IN  [is |-> "struct", other |-> "clear", legacy |-> {},
       fields |-> [message |-> text, formatted |-> text,
                   params |-> Field(AnyValue, Behavior("null", FALSE), DefaultAttrs, <<>>)]]

logentry_from_value(a) ==
  LET v == The(a.value)
      read == from_value(LogEntryType, a)
  IN  CASE a.value = {} -> a
        [] v.is = "object" -> [read EXCEPT !.value = {Map([e.entries EXCEPT !["params"] = params_from_value(@)]) : e \in @}]
        [] v.is = "bool" /\ ~v.truth -> Null
        [] OTHER -> New(Map([message |-> Null, formatted |-> json_lenient_from_value(a), params |-> Null]))

(* A context without a type has that of its key.                           *)
contexts_from_value(a) ==
  LET typed(k, c) ==
        [c EXCEPT !.value = {IF o.is = "object" /\ "type" \notin DOMAIN o.entries
                             THEN Map([n \in DOMAIN o.entries \cup {"type"} |->
                                         IF n = "type" THEN New(Text(<<k>>)) ELSE o.entries[n]]) ELSE o : o \in @}]
      v == The(a.value)
  IN  CASE a.value = {} -> a
        [] v.is = "object" -> WithValue(a, Map([k \in DOMAIN v.entries |-> typed(k, v.entries[k])]))
        [] OTHER -> Unexpected(a)

-----------------------------------------------------------------------------
(* IntoValue.                                                              *)

RECURSIVE into_value(_)
into_value(v) ==
  CASE v.is = "register" -> Text(<<"0", "x">> \o InBase(v.register, 16))
    [] v.is = "level" -> Text(<<v.level>>)
    [] v.is = "time" -> Fraction(datetime_to_timestamp(v.nanos))
    [] OTHER -> WithInside(v, [k \in DOMAIN Inside(v) |->
                                 [Inside(v)[k] EXCEPT !.value = {into_value(w) : w \in @}]])

=============================================================================
