---------------------------- MODULE SelectorText ----------------------------
(***************************************************************************)
(* Selectors as text: Display and FromStr of SelectorSpec in               *)
(* relay-general/src/processor/selector.rs, with the grammar of            *)
(* selector.pest. Project configurations hold this text.                   *)
(*                                                                         *)
(* A text is a sequence of tokens: the items of paths and the symbols      *)
(* between them. The parts of a selector are a sequence here.              *)
(***************************************************************************)
EXTENDS Naturals, Sequences, SequencesExt

CONSTANT Unquoted         \* keys that are identifiers of the grammar

Path(items) == [is |-> "Path", path |-> items]
And(specs) == [is |-> "And", of |-> specs]
Or(specs) == [is |-> "Or", of |-> specs]
Not(spec) == [is |-> "Not", of |-> <<spec>>]

Symbol(text) == [is |-> "Symbol", symbol |-> text]
Quoted(item) == [is |-> "Quoted", name |-> item.name]
Item == {"Name", "Quoted", "Type", "Wildcard", "DeepWildcard"}

Ok(spec, rest) == [ok |-> TRUE, spec |-> spec, rest |-> rest]
Err(error) == [ok |-> FALSE, error |-> error]

-----------------------------------------------------------------------------
(* Display.                                                                *)

key_needs_quoting(item) == item.is = "Name" /\ item.name \notin Unquoted
ItemText(item) == IF key_needs_quoting(item) THEN Quoted(item) ELSE item

Joined(texts, separator) == FoldLeft(LAMBDA text, next : text \o <<Symbol(separator)>> \o next, texts[1], Tail(texts))
Parenthesized(text) == <<Symbol("(")>> \o text \o <<Symbol(")")>>

needs_parens_Never(spec, inner) == spec.is = "Not" /\ inner.is # "Path"

(* The weaker operator needs them, and whatever is not a path after "!".   *)
needs_parens(spec, inner) == (spec.is = "And" /\ inner.is = "Or") \/ (spec.is = "Not" /\ inner.is # "Path")

RECURSIVE Display(_)
Display(spec) ==
  LET inner == [n \in DOMAIN spec.of |->
                  IF needs_parens(spec, spec.of[n]) THEN Parenthesized(Display(spec.of[n])) ELSE Display(spec.of[n])]
  IN  CASE spec.is = "Path" -> Joined([n \in DOMAIN spec.path |-> <<ItemText(spec.path[n])>>], ".")
        [] spec.is = "And" -> Joined(inner, "&&")
        [] spec.is = "Or" -> Joined(inner, "||")
        [] spec.is = "Not" -> <<Symbol("!")>> \o inner[1]

-----------------------------------------------------------------------------
(* FromStr: every rule of the grammar reads a prefix of the text.          *)

Starts(text, symbol) == text # <<>> /\ text[1] = Symbol(symbol)

handle_selector_path_item(token) == IF token.is = "Quoted" THEN [is |-> "Name", name |-> token.name] ELSE token

(* A path takes all items that follow, separated by dots.                  *)
SelectorPath(text) ==
  LET isItem(i) == i \in DOMAIN text /\ text[i].is \in Item
      ends == {k \in 0 .. Len(text) : \A i \in 1 .. k : isItem(2 * i - 1) /\ (i > 1 => text[2 * i - 2] = Symbol("."))}
      end == CHOOSE k \in ends : \A l \in ends : l <= k
      items == [i \in 1 .. end |-> handle_selector_path_item(text[2 * i - 1])]
  IN  IF end = 0 THEN Err("ParseError")
      ELSE IF Len(SelectSeq(items, LAMBDA item : item.is = "DeepWildcard")) > 1 THEN Err("InvalidDeepWildcard")
      ELSE IF end = 1 /\ items[1].is = "Wildcard" THEN Err("InvalidWildcard")
      ELSE Ok(Path(items), SubSeq(text, 2 * end, Len(text)))

(* A single selector stands for itself.                                    *)
map_multiple_or_inner(kind, specs) == IF Len(specs) = 1 THEN specs[1] ELSE [is |-> kind, of |-> specs]

RECURSIVE handle_selector(_, _)
RECURSIVE Separated(_, _, _, _)

Separated(rule, symbol, text, specs) ==
  LET first == handle_selector(rule, text)
      all == Append(specs, first.spec)
  IN  IF ~first.ok THEN first
      ELSE IF Starts(first.rest, symbol) THEN Separated(rule, symbol, Tail(first.rest), all)
      ELSE Ok(all, first.rest)

handle_selector(rule, text) ==
  CASE rule = "OrSelector" ->
         LET specs == Separated("AndSelector", "||", text, <<>>)
         IN  IF specs.ok THEN Ok(map_multiple_or_inner("Or", specs.spec), specs.rest) ELSE specs
    [] rule = "AndSelector" ->
         LET specs == Separated("MaybeNotSelector", "&&", text, <<>>)
         IN  IF specs.ok THEN Ok(map_multiple_or_inner("And", specs.spec), specs.rest) ELSE specs
    [] rule = "MaybeNotSelector" ->
         IF Starts(text, "!")
         THEN LET inner == handle_selector("ParenthesisOrPath", Tail(text))
              IN  IF inner.ok THEN Ok(Not(inner.spec), inner.rest) ELSE inner
         ELSE handle_selector("ParenthesisOrPath", text)
    [] rule = "ParenthesisOrPath" ->
         IF Starts(text, "(")
         THEN LET inner == handle_selector("OrSelector", Tail(text))
              IN  IF ~inner.ok THEN inner
                  ELSE IF Starts(inner.rest, ")") THEN Ok(inner.spec, Tail(inner.rest)) ELSE Err("ParseError")
         ELSE SelectorPath(text)

(* Words of older configurations.                                          *)
LegacyWords == [freeform |-> "string", email |-> "string", sensitive |-> "string", text |-> "string",
                databag |-> "object", container |-> "object"]

from_str(text) ==
  IF Len(text) = 1 /\ text[1].is = "Name" /\ text[1].name \in DOMAIN LegacyWords
  THEN Ok(Path(<<[is |-> "Type", ty |-> LegacyWords[text[1].name]]>>), <<>>)
  ELSE LET read == handle_selector("OrSelector", text)
       IN  IF read.ok /\ read.rest # <<>> THEN Err("ParseError") ELSE read

=============================================================================
