----------------------------- MODULE MetricText -----------------------------
(***************************************************************************)
(* The submission protocol of metrics, in relay-metrics/src/protocol.rs:   *)
(* one metric in a line, `name@unit:value|type|#tag:value,tag`.            *)
(*                                                                         *)
(* A text is a sequence of symbols: a newline, a carriage return, bytes    *)
(* that are not UTF-8, or the text of one line, split at its separators.   *)
(* A name or value is a model of its text; optional values are sets.       *)
(***************************************************************************)
EXTENDS Naturals, Sequences, SequencesExt

CONSTANTS
  ValidNames,             \* texts that is_valid_name accepts
  Numbers,                \* texts that are numbers
  Unsigned,               \* texts that are unsigned integers of 32 bits
  hash_set_value(_)       \* the hash of a text

Newline == [is |-> "newline"]
Return == [is |-> "return"]
BadBytes == [is |-> "bad"]

(* name is what stands before the value, split at "@".                     *)
Line(name, value, parts) == [is |-> "line", name |-> name, value |-> value, parts |-> parts]
Word(word) == [tags |-> FALSE, word |-> word]
Tags(pairs) == [tags |-> TRUE, pairs |-> pairs]

-----------------------------------------------------------------------------
(* MetricUnit and MetricType. A metric is printed with the first name.     *)

UnitNames == [NanoSecond |-> <<"ns">>, MilliSecond |-> <<"ms">>, Second |-> <<"s">>, None |-> <<"", "unit", "none">>]
TypeNames == [Counter |-> <<"c", "m">>, Distribution |-> <<"d", "h", "ms">>, Set |-> <<"s">>, Gauge |-> <<"g">>]

FromName(names, text) == {x \in DOMAIN names : \E i \in DOMAIN names[x] : names[x][i] = text}

-----------------------------------------------------------------------------
(* Metric::parse_str                                                       *)

parse_name_unit(name) ==
  LET units == IF Len(name) = 1 THEN {"None"} ELSE FromName(UnitNames, name[2])
  IN  IF name[1] \notin ValidNames THEN {} ELSE {[name |-> name[1], unit |-> unit] : unit \in units}

parse_value(text, ty) ==
  IF ty = "Set" THEN {IF text \in Unsigned THEN text ELSE hash_set_value(text)}
  ELSE {text} \cap Numbers

(* A tag that is given twice has its last value.                           *)
parse_tags(pairs) ==
  [name \in {pairs[i].name : i \in DOMAIN pairs} |->
     LET last == CHOOSE i \in DOMAIN pairs : pairs[i].name = name /\ \A j \in DOMAIN pairs : pairs[j].name = name => j <= i
     IN  IF pairs[last].value = {} THEN "" ELSE CHOOSE v \in pairs[last].value : TRUE]

(* Of several lists of tags, the last one is used.                         *)
parse_str(line) ==
  LET types == IF line.parts = <<>> \/ line.parts[1].tags THEN {} ELSE FromName(TypeNames, line.parts[1].word)
      lists == SelectSeq(SubSeq(line.parts, 2, Len(line.parts)), LAMBDA part : part.tags)
      tags == IF lists = <<>> THEN <<>> ELSE parse_tags(Last(lists).pairs)
  IN  {[name |-> n.name, unit |-> n.unit, ty |-> ty, value |-> value, tags |-> tags] :
         <<n, ty, value>> \in UNION {{<<n, ty, value>> : n \in parse_name_unit(line.name), value \in UNION {parse_value(v, ty) : v \in line.value}}
                                       : ty \in types}}

(* ParseMetrics: the results for a text. An error is an empty set.         *)
StripReturn(line) == IF line # <<>> /\ Last(line) = Return THEN Front(line) ELSE line

ParseMetrics_Once(text) ==
  LET from[start \in 1 .. Len(text) + 2] ==
        IF start > Len(text) THEN <<>>
        ELSE LET ends == {i \in start .. Len(text) : text[i] = Newline} \cup {Len(text) + 1}
                 end == CHOOSE i \in ends : \A j \in ends : i <= j
                 line == StripReturn(SubSeq(text, start, end - 1))
             IN  IF line = <<>> THEN from[end + 1]
                 ELSE IF Len(line) > 1 \/ line[1].is # "line" THEN <<{}>>
                 ELSE <<parse_str(line[1])>> \o from[end + 1]
  IN  from[1]

ParseMetrics(text) ==
  LET from[start \in 1 .. Len(text) + 2] ==
        IF start > Len(text) THEN <<>>
        ELSE LET ends == {i \in start .. Len(text) : text[i] = Newline} \cup {Len(text) + 1}
                 end == CHOOSE i \in ends : \A j \in ends : i <= j
                 line == StripReturn(SubSeq(text, start, end - 1))
             IN  (IF line = <<>> THEN <<>>
                  ELSE IF Len(line) > 1 \/ line[1].is # "line" THEN <<{}>>
                  ELSE <<parse_str(line[1])>>) \o from[end + 1]
  IN  from[1]

=============================================================================
