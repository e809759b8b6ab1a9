------------------------------ MODULE Trimming ------------------------------
(***************************************************************************)
(* TrimmingProcessor in relay-general/src/store/trimming.rs: databags with *)
(* a limit of depth and size, and the frames of long stacktraces.          *)
(*                                                                         *)
(* A value of a databag is nothing, a number or a string of a length, or   *)
(* an array of values; objects are trimmed like arrays, and their keys are *)
(* not counted. A value may have a limit of its own, bag, which is a set   *)
(* with at most one element. The characters of strings are left out: that  *)
(* part of trim_string is in Redaction.                                    *)
(***************************************************************************)
EXTENDS Integers, Sequences, SequencesExt, FiniteSetsExt

None == [t |-> "none", n |-> 0, items |-> <<>>, bag |-> {}]
Number(n) == [t |-> "number", n |-> n, items |-> <<>>, bag |-> {}]
StringOf(n) == [t |-> "string", n |-> n, items |-> <<>>, bag |-> {}]
ArrayOf(items) == [t |-> "array", n |-> 0, items |-> items, bag |-> {}]

Saturated(n) == IF n > 0 THEN n ELSE 0

(* The size of a value in JSON.                                            *)
RECURSIVE JsonSize(_)
JsonSize(v) ==
  CASE v.t = "none" -> 4
    [] v.t = "number" -> v.n
    [] v.t = "string" -> v.n + 2
    [] v.t = "array" -> 2 + Saturated(Len(v.items) - 1)
                          + FoldSeq(LAMBDA i, sum : JsonSize(i) + sum, 0, v.items)

(* estimate_size_flat does not look into arrays, but serialize_i64 counts  *)
(* its digits at every level.                                              *)
RECURSIVE Digits(_)
Digits(v) == IF v.t = "number" THEN v.n ELSE FoldSeq(LAMBDA i, sum : Digits(i) + sum, 0, v.items)

estimate_size_flat(v) ==
  CASE v.t = "none" -> 0
    [] v.t = "string" -> v.n + 2
    [] v.t = "number" -> v.n
    [] v.t = "array" -> 2 + Digits(v)

RECURSIVE DepthOf(_)
DepthOf(v) == IF v.items = <<>> THEN 1 ELSE 1 + Max({DepthOf(v.items[n]) : n \in DOMAIN v.items})

-----------------------------------------------------------------------------
(* bag_size_state is a stack; the bag that was entered last is its last.   *)

remaining_bag_size(bags) == Min({bags[n].size_remaining : n \in DOMAIN bags})

remaining_bag_depth_Reached(bags, depth) ==
  Min({Saturated(bags[n].max_depth - (depth - bags[n].at) + 1) : n \in DOMAIN bags})

remaining_bag_depth(bags, depth) ==
  Min({Saturated(bags[n].max_depth - (depth - bags[n].at)) : n \in DOMAIN bags})

(* trim_string with MaxChars::Hard, for the length of the string.          *)
TrimmedLength(n, limit) == IF n <= limit THEN n ELSE Max({limit, 3})

before_process(v, depth, bags) ==
  bags \o SetToSeq({[size_remaining |-> b.max_size, max_depth |-> b.max_depth, at |-> depth] : b \in v.bag})

after_process(v, depth, bags) ==
  LET popped == IF bags # <<>> /\ Last(bags).at = depth THEN Front(bags) ELSE bags
  IN  [n \in DOMAIN popped |->
         [popped[n] EXCEPT !.size_remaining = Saturated(@ - (estimate_size_flat(v) + 1))]]

(* process_value with TrimmingProcessor: the new value and the bags.       *)
RECURSIVE process_value(_, _, _), process_array(_, _, _, _)
process_value(v, depth, bags) ==
  LET entered == before_process(v, depth, bags)
      limited == entered # <<>>
      flat == v.t = "array" /\ limited /\ remaining_bag_depth(entered, depth) = 1
      new == IF v.t = "none" \/ (limited /\ 0 \in {remaining_bag_size(entered), remaining_bag_depth(entered, depth)})
             THEN [value |-> None, bags |-> entered]
             ELSE IF flat \/ v.t = "string"
             THEN [value |-> StringOf(TrimmedLength(
                                        IF flat THEN JsonSize(v) ELSE v.n,
                                        IF limited THEN Last(entered).size_remaining ELSE v.n)),
                   bags |-> entered]
             ELSE IF v.t = "array" THEN process_array(v.items, depth, entered, <<>>)
             ELSE [value |-> [v EXCEPT !.bag = {}], bags |-> entered]
  IN  [value |-> new.value, bags |-> after_process(new.value, depth, new.bags)]

(* The loop of process_array, which drops the rest when a bag is full.     *)
process_array(items, depth, bags, done) ==
  IF items = <<>> \/ (bags # <<>> /\ remaining_bag_size(bags) = 0)
  THEN [value |-> ArrayOf(done), bags |-> bags]
  ELSE LET item == process_value(Head(items), depth + 1, bags)
       IN  process_array(Tail(items), depth, item.bags, Append(done, item.value))

-----------------------------------------------------------------------------
(* Frames: "app" and "system" frames, and frames without a value.          *)

enforce_frame_hard_limit(frames, limit) ==
  IF Len(frames) < limit THEN frames
  ELSE Append(SubSeq(Front(frames), 1, limit - 1), Last(frames))

IndicesOf(frames, kind) == SelectSeq([n \in DOMAIN frames |-> n], LAMBDA n : frames[n] = kind)

(* The slice get(half .. len - half), or nothing if it is out of bounds.   *)
Middle(indices, half) ==
  IF half > Len(indices) - half THEN {} ELSE ToSet(SubSeq(indices, half + 1, Len(indices) - half))

SystemHalf_Whole(allowance, app_count) == Saturated(allowance - app_count)

SystemHalf(allowance, app_count) == Saturated(allowance - app_count) \div 2

(* slim_frame_data: the frames that lose their variables and context.      *)
Slimmed(frames, allowance) ==
  LET app == IndicesOf(frames, "app")
      system == Middle(IndicesOf(frames, "system"), SystemHalf(allowance, Len(app)))
      remaining == Saturated(Saturated(Len(frames) - allowance) - Cardinality(system))
  IN  IF Len(frames) <= allowance THEN {}
      ELSE system \cup Middle(app, Saturated(Len(app) - remaining) \div 2)

=============================================================================
