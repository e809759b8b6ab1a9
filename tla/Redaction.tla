----------------------------- MODULE Redaction ------------------------------
(***************************************************************************)
(* Redaction and trimming of strings in relay-general: chunks of annotated *)
(* text (processor/chunks.rs), rules for personal data that replace what   *)
(* they match (pii/processor.rs) and the limit of characters               *)
(* (store/trimming.rs).                                                    *)
(*                                                                         *)
(* A value is a text with remarks. A text is a sequence of symbols. A      *)
(* range (from, to) of a remark is the symbols from + 1 .. to. A regular   *)
(* expression is abstracted to what it matches: runs of symbols of a set.  *)
(***************************************************************************)
EXTENDS Integers, Sequences, SequencesExt

Nul == "nul"              \* the character with code zero

Remark(rule, from, to) == [rule |-> rule, from |-> from, to |-> to]
TextChunk(text) == [is |-> "Text", text |-> text]
RedactionChunk(rule, text) == [is |-> "Redaction", text |-> text, rule |-> rule]

-----------------------------------------------------------------------------
(* split_chunks: remarks up to the first one that is out of bounds or      *)
(* starts after its end.                                                   *)

Piece(text, from, to) == SubSeq(text, from + 1, to)

RECURSIVE SplitFrom(_, _, _)
SplitFrom(text, remarks, pos) ==
  LET rest == IF pos < Len(text) THEN <<TextChunk(Piece(text, pos, Len(text)))>> ELSE <<>>
      r == Head(remarks)
      before == IF r.from > pos THEN <<TextChunk(Piece(text, pos, r.from))>> ELSE <<>>
  IN  IF remarks = <<>> \/ r.from > Len(text) THEN rest
      ELSE IF r.to > Len(text) \/ r.to < r.from
      THEN before \o rest
      ELSE before \o <<RedactionChunk(r.rule, Piece(text, r.from, r.to))>>
             \o SplitFrom(text, Tail(remarks), r.to)

split_chunks(value) == SplitFrom(value.text, value.remarks, 0)

(* join_chunks                                                             *)
Joined(chunks, n) == FlattenSeq([m \in 1 .. n |-> chunks[m].text])

join_chunks(chunks) ==
  LET redactions == SelectSeq([n \in DOMAIN chunks |-> n], LAMBDA n : chunks[n].is = "Redaction")
      position(n) == Len(Joined(chunks, n))
  IN  [text |-> FlattenSeq([n \in DOMAIN chunks |-> chunks[n].text]),
       remarks |-> [k \in DOMAIN redactions |->
                      LET n == redactions[k] IN Remark(chunks[n].rule, position(n - 1), position(n))]]

(* process_chunked_value: remarks change only if the text does.            *)
process_chunked_value(value, f(_)) ==
  LET new == join_chunks(f(split_chunks(value)))
  IN  IF new.text = value.text THEN value ELSE new

-----------------------------------------------------------------------------
(* apply_regex_to_chunks. A rule with ReplaceBehavior::Value replaces the  *)
(* whole text if it matches, and one with Groups every match.              *)

SearchText_Unmarked(chunks) ==
  FlattenSeq([n \in DOMAIN chunks |->
    IF chunks[n].is = "Text" THEN SelectSeq(chunks[n].text, LAMBDA c : c # Nul) ELSE <<>>])

(* Every chunk that was redacted is one Nul in the text that is searched.  *)
SearchText(chunks) ==
  FlattenSeq([n \in DOMAIN chunks |->
    IF chunks[n].is = "Text" THEN SelectSeq(chunks[n].text, LAMBDA c : c # Nul) ELSE <<Nul>>])

Matched(rule, text, i) == i \in DOMAIN text /\ text[i] \in rule.class

(* Starts and ends of matches of a rule, in their order.                   *)
Starts(rule, text) ==
  SelectSeq([i \in DOMAIN text |-> i], LAMBDA i : Matched(rule, text, i) /\ ~Matched(rule, text, i - 1))

EndOf(rule, text, start) ==
  CHOOSE e \in start .. Len(text) :
    /\ \A i \in start .. e : Matched(rule, text, i)
    /\ ~Matched(rule, text, e + 1)

(* insert_replacement_chunks                                               *)
Replacement(rule, text) ==
  RedactionChunk(rule.id,
    CASE rule.redaction = "Remove" -> <<>>
      [] rule.redaction = "Mask" -> [n \in DOMAIN text |-> "*"]
      [] rule.redaction = "Hash" -> <<"#">>
      [] rule.redaction = "Replace" -> <<"@", "@">>)

(* process_text: every Nul takes the next redaction of the earlier rules.  *)
RECURSIVE process_text(_, _)
process_text(text, redactions) ==
  LET nuls == {i \in DOMAIN text : text[i] = Nul}
      i == CHOOSE k \in nuls : \A l \in nuls : k <= l
      rest == process_text(SubSeq(text, i + 1, Len(text)), Tail(redactions))
  IN  IF text = <<>> THEN [chunks |-> <<>>, redactions |-> redactions]
      ELSE IF nuls = {} THEN [chunks |-> <<TextChunk(text)>>, redactions |-> redactions]
      ELSE [chunks |-> <<TextChunk(SubSeq(text, 1, i - 1)), Head(redactions)>> \o rest.chunks,
            redactions |-> rest.redactions]

RECURSIVE Replaced(_, _, _, _, _)
Replaced(rule, text, starts, pos, redactions) ==
  LET start == Head(starts)
      end == EndOf(rule, text, start)
      before == process_text(SubSeq(text, pos, start - 1), redactions)
  IN  IF starts = <<>> THEN process_text(SubSeq(text, pos, Len(text)), redactions).chunks
      ELSE before.chunks \o <<Replacement(rule, SubSeq(text, start, end))>>
             \o Replaced(rule, text, Tail(starts), end + 1, before.redactions)

apply_regex_to_chunks(rule, chunks) ==
  LET text == SearchText(chunks)
      starts == Starts(rule, text)
  IN  IF starts = <<>> THEN chunks
      ELSE IF rule.replace = "Value" THEN <<Replacement(rule, text)>>
      ELSE Replaced(rule, text, starts, 1, SelectSeq(chunks, LAMBDA c : c.is = "Redaction"))

(* apply_rule_to_value, for a string and a rule for its value.             *)
apply_rule_to_value(rule, value) ==
  process_chunked_value(value, LAMBDA chunks : apply_regex_to_chunks(rule, chunks))

-----------------------------------------------------------------------------
(* trim_string                                                             *)

Ellipsis == RedactionChunk("!limit", <<".", ".", ".">>)

(* The characters of the text that still go in before the ellipsis.        *)
Room_Full(length, soft_limit) == soft_limit - length

Room(length, soft_limit) == soft_limit - 3 - length

RECURSIVE Trimmed(_, _, _, _)
Trimmed(chunks, length, soft_limit, hard_limit) ==
  LET chunk == Head(chunks)
      count == Len(chunk.text)
      room == Room(length, soft_limit)
  IN  IF chunks = <<>> THEN <<>>
      ELSE IF length + count < soft_limit
      THEN <<chunk>> \o Trimmed(Tail(chunks), length + count, soft_limit, hard_limit)
      ELSE IF chunk.is = "Redaction"
      THEN IF length + count + 3 < hard_limit THEN <<chunk, Ellipsis>> ELSE <<Ellipsis>>
      ELSE <<TextChunk(SubSeq(chunk.text, 1, IF room < count THEN room ELSE count)), Ellipsis>>

trim_string(value, soft_limit, allowance) ==
  IF Len(value.text) <= soft_limit + allowance THEN value
  ELSE process_chunked_value(value,
         LAMBDA chunks : Trimmed(chunks, 0, soft_limit, soft_limit + allowance))

-----------------------------------------------------------------------------
(* What a reader of the value makes of its remarks.                        *)

Redactions(value) ==
  [n \in DOMAIN value.remarks |->
     [rule |-> value.remarks[n].rule, text |-> Piece(value.text, value.remarks[n].from, value.remarks[n].to)]]

(* The text that no remark covers.                                         *)
Plain(value) ==
  LET covered == UNION {value.remarks[n].from + 1 .. value.remarks[n].to : n \in DOMAIN value.remarks}
      kept == SelectSeq([i \in DOMAIN value.text |-> i], LAMBDA i : i \notin covered)
  IN  [n \in DOMAIN kept |-> value.text[kept[n]]]

(* Ranges are in bounds, in their order and do not overlap.                *)
Ordered(value) ==
  \A n \in DOMAIN value.remarks :
    /\ value.remarks[n].from <= value.remarks[n].to
    /\ value.remarks[n].to <= Len(value.text)
    /\ n > 1 => value.remarks[n - 1].to <= value.remarks[n].from

=============================================================================
