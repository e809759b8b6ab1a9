---------------------------- MODULE Attachments -----------------------------
(***************************************************************************)
(* Removal of personal data from attachments and minidumps, in place:      *)
(* relay-general/src/pii/attachments.rs and minidumps.rs, as               *)
(* scrub_attachments in relay-server/src/actors/envelopes.rs uses them.    *)
(*                                                                         *)
(* Data is a sequence of bytes. A range (from, to) is the bytes            *)
(* from + 1 .. to. Wide text has two bytes for a character: a letter of    *)
(* plain text is its byte and then Nul, a pair with Surrogate is not a     *)
(* character, and every other pair is some other character. A regular      *)
(* expression is abstracted to runs of at least two letters; its group     *)
(* leaves out the first of them.                                           *)
(***************************************************************************)
EXTENDS Integers, Sequences, SequencesExt

CONSTANTS Letter, Nul, Surrogate, Padding, \* bytes
          MinString,       \* characters that a text in binary data has at least
          Hashed           \* a hash as bytes, of a fixed length

Paths == INSTANCE Selectors
           WITH BasicTypes <- {"string", "binary", "number", "boolean", "datetime", "array", "object"}

-----------------------------------------------------------------------------
(* Runs of letters in a text, and the parts of them that a rule replaces.  *)

RunEnd(text, from) ==
  CHOOSE to \in from .. Len(text) :
    (\A i \in from + 1 .. to : text[i] = Letter) /\ (to < Len(text) => text[to + 1] # Letter)

Runs(text) ==
  LET starts == SelectSeq([i \in DOMAIN text |-> i - 1],
                  LAMBDA from : text[from + 1] = Letter /\ (from > 0 => text[from] # Letter) /\ RunEnd(text, from) - from >= 2)
  IN  [n \in DOMAIN starts |-> [from |-> starts[n], to |-> RunEnd(text, starts[n])]]

GroupOf(replace, run) == IF replace = "Group" THEN [run EXCEPT !.from = @ + 1] ELSE run

Written(data, range, new) == [i \in DOMAIN data |-> IF i \in range.from + 1 .. range.to THEN new[i - range.from] ELSE data[i]]

-----------------------------------------------------------------------------
(* StringMods: what is written in the place of text, with the same length. *)

fill_content(length) == [i \in 1 .. length |-> Padding]

swap_content(length, replacement) ==
  [i \in 1 .. length |-> IF i <= Len(replacement) THEN replacement[i] ELSE Padding]

apply_redaction(redaction, length) ==
  CASE redaction.method \in {"Default", "Remove", "Mask"} -> fill_content(length)
    [] redaction.method = "Hash" -> swap_content(length, Hashed)
    [] redaction.method = "Replace" -> swap_content(length, redaction.text)

(* In wide text units of two bytes are written. A unit that looks like a   *)
(* part of a pair needs the space of two.                                  *)
Unit(byte) == <<byte, Nul>>
UnitSize(unit) == IF unit[2] = Surrogate THEN 4 ELSE 2

RECURSIVE swap_wide(_, _)
swap_wide(length, units) ==
  IF units = <<>> \/ length < UnitSize(Head(units))
  THEN [i \in 1 .. length |-> IF i % 2 = 1 THEN Padding ELSE Nul]
  ELSE Head(units) \o swap_wide(length - 2, Tail(units))

Units(bytes) == [i \in DOMAIN bytes |-> Unit(bytes[i])]

apply_redaction_wide(redaction, length) ==
  CASE redaction.method \in {"Default", "Remove", "Mask"} -> swap_wide(length, <<>>)
    [] redaction.method = "Hash" -> swap_wide(length, Units(Hashed))
    [] redaction.method = "Replace" -> swap_wide(length, Units(redaction.text))

-----------------------------------------------------------------------------
(* apply_regex_to_utf8_bytes                                               *)

Matches(data, replace) ==
  LET runs == Runs(data)
  IN  IF replace = "Value" THEN [n \in DOMAIN runs |-> [from |-> 0, to |-> Len(data)]]
      ELSE [n \in DOMAIN runs |-> GroupOf(replace, runs[n])]

Redacted(data, ranges, redaction) ==
  FoldLeft(LAMBDA d, range : Written(d, range, apply_redaction(redaction, range.to - range.from)), data, ranges)

apply_regex_to_utf8_bytes(data, rule) == Redacted(data, Matches(data, rule.replace), rule.redaction)

-----------------------------------------------------------------------------
(* WStrSegmentIter: parts of the data that are wide text.                  *)

Pair(data, n) == <<data[2 * n - 1], data[2 * n]>>
IsCharacter(pair) == pair[2] # Surrogate

Segments(data) ==
  LET pairs == Len(data) \div 2
      good(n) == n \in 1 .. pairs /\ IsCharacter(Pair(data, n))
      starts == SelectSeq([n \in 1 .. pairs |-> n], LAMBDA n : good(n) /\ ~good(n - 1))
      end(n) == CHOOSE m \in n .. pairs : (\A k \in n .. m : good(k)) /\ ~good(m + 1)
      all == [k \in DOMAIN starts |-> [from |-> 2 * (starts[k] - 1), to |-> 2 * end(starts[k])]]
  IN  SelectSeq(all, LAMBDA s : (s.to - s.from) \div 2 >= MinString)

Decoded(data, segment) ==
  [n \in 1 .. (segment.to - segment.from) \div 2 |->
     LET pair == Pair(SubSeq(data, segment.from + 1, segment.to), n) IN IF pair[2] = Nul THEN pair[1] ELSE "other"]

(* get_wstr_match: the bytes of the characters that were matched.          *)
get_wstr_match(segment, range) == [from |-> segment.from + 2 * range.from, to |-> segment.from + 2 * range.to]

WideMatches(data, segment, replace) ==
  LET runs == Runs(Decoded(data, segment))
  IN  [n \in DOMAIN runs |-> get_wstr_match(segment, GroupOf(replace, runs[n]))]

AllWideMatches(data, replace) ==
  LET segments == Segments(data)
  IN  FlattenSeq([n \in DOMAIN segments |-> WideMatches(data, segments[n], replace)])

apply_regex_to_utf16le_bytes(data, rule) ==
  FoldLeft(LAMBDA d, range : Written(d, range, apply_redaction_wide(rule.redaction, range.to - range.from)), data,
           AllWideMatches(data, rule.replace))

-----------------------------------------------------------------------------
(* scrub_bytes                                                             *)

(* What the first pass left, from the next even position on.               *)
RangeStart_Exact(previous) == previous.to

RangeStart(previous) == previous.to + (previous.to % 2)

unscrubbed_ranges(data, matches) ==
  LET all == <<[from |-> 0, to |-> 0]>> \o matches \o <<[from |-> Len(data), to |-> 0]>>
      between == [n \in 1 .. Len(all) - 1 |-> [from |-> RangeStart(all[n]), to |-> all[n + 1].from]]
  IN  SelectSeq(between, LAMBDA r : r.to > r.from)

ScrubbedAll(data, rule) ==
  LET first == apply_regex_to_utf8_bytes(data, rule)
      ranges == unscrubbed_ranges(data, Matches(data, rule.replace))
  IN  FoldLeft(LAMBDA d, r : SubSeq(d, 1, r.from) \o apply_regex_to_utf16le_bytes(SubSeq(d, r.from + 1, r.to), rule)
                               \o SubSeq(d, r.to + 1, Len(d)), first, ranges)

ScrubbedBy(data, rule, encodings) ==
  CASE encodings = "Utf8" -> apply_regex_to_utf8_bytes(data, rule)
    [] encodings = "Utf16Le" -> apply_regex_to_utf16le_bytes(data, rule)
    [] encodings = "All" -> ScrubbedAll(data, rule)

scrub_bytes(applications, data, path, pii, encodings) ==
  LET matched == SelectSeq(applications, LAMBDA a : Paths!matches_selector(path, a.selector, pii))
  IN  IF pii = "False" THEN data
      ELSE FoldLeft(LAMBDA d, rule : ScrubbedBy(d, rule, encodings), data, FlattenSeq([n \in DOMAIN matched |-> matched[n].rules]))

-----------------------------------------------------------------------------
(* PiiAttachmentsProcessor: states of files and of parts of minidumps.     *)

FileState(filename, ty) ==
  <<Paths!Root, [name |-> {""}, types |-> {"attachments"}], [name |-> {filename}, types |-> {ty}]>>

scrub_attachment(applications, filename, data) == scrub_bytes(applications, data, FileState(filename, "binary"), "True", "All")

(* Paths are scrubbed up to their last separator.                          *)
LastSeparator(positions) ==
  IF positions = {} THEN 0 ELSE CHOOSE i \in positions : \A k \in positions : k <= i

scrub_utf8_filepath(applications, path, state) ==
  LET index == LastSeparator({i \in DOMAIN path : path[i] = "/"})
  IN  IF index = 0 THEN path
      ELSE scrub_bytes(applications, SubSeq(path, 1, index - 1), state, "True", "Utf8") \o SubSeq(path, index, Len(path))

scrub_utf16_filepath(applications, path, state) ==
  LET index == LastSeparator({i \in DOMAIN path : i % 2 = 1 /\ path[i] = "/" /\ path[i + 1] = Nul})
  IN  IF index = 0 THEN path
      ELSE scrub_bytes(applications, SubSeq(path, 1, index - 1), state, "True", "Utf16Le") \o SubSeq(path, index, Len(path))

ItemState(filename, item) ==
  Append(FileState(filename, "minidump"),
    CASE item = "StackMemory" -> [name |-> {"stack_memory"}, types |-> {"binary", "stack_memory"}]
      [] item = "NonStackMemory" -> [name |-> {"heap_memory"}, types |-> {"binary", "heap_memory"}]
      [] item \in {"LinuxEnviron", "LinuxCmdLine"} -> [name |-> {""}, types |-> {"binary"}]
      [] item = "CodeModuleName" -> [name |-> {"code_file"}, types |-> {"string"}]
      [] item = "DebugModuleName" -> [name |-> {"debug_file"}, types |-> {"string"}])

ScrubbedItem_Plain(applications, filename, item) ==
  scrub_bytes(applications, item.data, ItemState(filename, item.is), "True", "All")

ScrubbedItem(applications, filename, item) ==
  LET state == ItemState(filename, item.is)
  IN  CASE item.is = "StackMemory" -> scrub_bytes(applications, item.data, state, "Maybe", "All")
        [] item.is \in {"NonStackMemory", "LinuxEnviron", "LinuxCmdLine"} -> scrub_bytes(applications, item.data, state, "True", "All")
        [] item.is = "CodeModuleName" -> scrub_utf16_filepath(applications, item.data, state)
        [] item.is = "DebugModuleName" -> scrub_utf8_filepath(applications, item.data, state)

(* MinidumpData::items: what is scrubbed, at its address. Modules that     *)
(* share a name are looked at once.                                        *)
MinidumpItem(is, at) == [is |-> is, at |-> at]

ModuleItems(modules, n) ==
  IF \E k \in 1 .. n - 1 : modules[k].name = modules[n].name THEN <<>>
  ELSE <<MinidumpItem("CodeModuleName", modules[n].name)>>
         \o IF modules[n].signature \in {"Pdb70", "Pdb20"} THEN <<MinidumpItem("DebugModuleName", modules[n].debug)>> ELSE <<>>

minidump_items(dump) ==
  [n \in DOMAIN dump.memory |-> MinidumpItem(IF dump.memory[n] \in dump.stacks THEN "StackMemory" ELSE "NonStackMemory", dump.memory[n])]
    \o SetToSeq({MinidumpItem("LinuxEnviron", at) : at \in dump.environ})
    \o SetToSeq({MinidumpItem("LinuxCmdLine", at) : at \in dump.cmdline})
    \o FlattenSeq([n \in DOMAIN dump.modules |-> ModuleItems(dump.modules, n)])

(* Items up to the first one that is not in the file have been scrubbed.   *)
scrub_minidump(applications, filename, dump, data) ==
  LET all == minidump_items(dump)
      bad == {n \in DOMAIN all : all[n].at \notin dump.readable}
      done == SelectSeq([n \in DOMAIN all |-> n], LAMBDA n : \A b \in bad : n < b)
      scrub(d, n) == [d EXCEPT ![all[n].at] = ScrubbedItem(applications, filename, [is |-> all[n].is, data |-> @])]
  IN  IF ~dump.parsed THEN [ok |-> FALSE, data |-> data]
      ELSE [ok |-> bad = {}, data |-> FoldLeft(scrub, data, done)]

(* A minidump that cannot be scrubbed is an attachment like any other. The *)
(* items do not touch each other and begin at even positions.              *)
scrub_attachments(applications, filename, dump, data) ==
  LET scrubbed == scrub_minidump(applications, filename, dump, data)
  IN  IF scrubbed.ok THEN scrubbed.data
      ELSE [at \in DOMAIN data |-> scrub_attachment(applications, filename, scrubbed.data[at])]

=============================================================================
