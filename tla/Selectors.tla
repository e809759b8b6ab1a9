----------------------------- MODULE Selectors ------------------------------
(***************************************************************************)
(* Selectors of values for personal data rules: Path::matches_selector in  *)
(* relay-general/src/processor/attrs.rs and SelectorPathItem in            *)
(* selector.rs.                                                            *)
(*                                                                         *)
(* A path is the sequence of states from the root to a value, with the     *)
(* root, which has no name, first. The name of a state is its key or its   *)
(* index; types is the set of its value types. pii is that of the value.   *)
(***************************************************************************)
EXTENDS Integers, Sequences

CONSTANT BasicTypes       \* value types that are no part of a specific path

Wildcard == [is |-> "Wildcard"]
DeepWildcard == [is |-> "DeepWildcard"]
Name(name) == [is |-> "Name", name |-> name]
Type(ty) == [is |-> "Type", ty |-> ty]

Root == [name |-> {}, types |-> {}]

(* SelectorPathItem::matches_state, for the item at position i (from 1).   *)
matches_state(item, pii, i, state) ==
  /\ pii # "False"
  /\ CASE item.is = "Wildcard" -> TRUE
       [] item.is = "DeepWildcard" -> pii = "True"
       [] item.is = "Type" ->
            item.ty \in state.types /\ (pii = "Maybe" => item.ty \notin BasicTypes /\ i = 1)
       [] item.is = "Name" -> state.name = {item.name}

(* handle_selector accepts at most one deep wildcard and no lone wildcard. *)
Valid(selector) ==
  /\ selector # <<>> /\ selector # <<Wildcard>>
  /\ \A i, j \in DOMAIN selector : selector[i] = DeepWildcard /\ selector[j] = DeepWildcard => i = j

-----------------------------------------------------------------------------
(* The items after position n of the selector match the end of the path.   *)
TailMatches(path, selector, pii, n) ==
  \A i \in n + 1 .. Len(selector) :
    matches_state(selector[i], pii, i, path[Len(path) - Len(selector) + i])

(* The slow path: the items before the deep wildcard match the remaining   *)
(* states, from the first state on that matches the first item.            *)
HeadMatches_Anywhere(remaining, selector, pii, deep) ==
  \E k \in DOMAIN remaining :
    matches_state(selector[1], pii, 1, remaining[k])
      /\ \A i \in 2 .. deep - 1 : k + i - 1 \in DOMAIN remaining =>
           matches_state(selector[i], pii, i, remaining[k + i - 1])

HeadMatches(remaining, selector, pii, deep) ==
  LET hits == {k \in DOMAIN remaining : matches_state(selector[1], pii, 1, remaining[k])}
      first == CHOOSE k \in hits : \A l \in hits : k <= l
  IN  /\ hits # {}
      /\ \A i \in 2 .. deep - 1 :
           first + i - 1 \in DOMAIN remaining /\ matches_state(selector[i], pii, i, remaining[first + i - 1])

(* Path::matches_selector                                                  *)
matches_selector(path, selector, pii) ==
  LET depth == Len(path) - 1
      deeps == {i \in DOMAIN selector : selector[i] = DeepWildcard}
      deep == CHOOSE i \in deeps : TRUE
      at == Len(path) - Len(selector) + deep
      remaining == SubSeq(path, 1, at - 1)
  IN  /\ pii # "False"
      /\ Len(selector) <= depth
      /\ IF deeps = {} THEN TailMatches(path, selector, pii, 0)
         ELSE /\ TailMatches(path, selector, pii, deep - 1)
              /\ IF deep = 1 THEN remaining # <<>> ELSE HeadMatches(remaining, selector, pii, deep)

-----------------------------------------------------------------------------
(* What a selector stands for: its items name the end of the path, and a    *)
(* deep wildcard the states that it takes and one more.                     *)
Selects(path, selector, pii, taken) ==
  LET deeps == {i \in DOMAIN selector : selector[i] = DeepWildcard}
      start == Len(path) - Len(selector) - taken
      position(i) == IF \A d \in deeps : i < d THEN start + i ELSE start + taken + i
  IN  /\ deeps = {} => taken = 0
      /\ start + taken >= 1
      /\ \A i \in DOMAIN selector : matches_state(selector[i], pii, i, path[position(i)])

(* The search for items before a deep wildcard does not go back: they start *)
(* at the first state of the path that the first item matches.              *)
StartsFirst(path, selector, pii, taken) ==
  (\E d \in DOMAIN selector : d > 1 /\ selector[d] = DeepWildcard) =>
    \A k \in 1 .. Len(path) - Len(selector) - taken : ~matches_state(selector[1], pii, 1, path[k])

(* matches_selector finds what the selector stands for, all of it unless a  *)
(* deep wildcard follows on other items, and then what starts first.        *)
Exact(path, selector, pii) ==
  matches_selector(path, selector, pii) <=>
    \E taken \in 0 .. Len(path) - Len(selector) :
      Selects(path, selector, pii, taken) /\ StartsFirst(path, selector, pii, taken)

=============================================================================
