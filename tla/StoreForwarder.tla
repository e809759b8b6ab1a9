--------------------------- MODULE StoreForwarder ---------------------------
(***************************************************************************)
(* StoreForwarder in relay-server/src/actors/store.rs, which writes the    *)
(* items of an envelope to Kafka: the messages that one StoreEnvelope      *)
(* produces, in their order. The producer may fail at any message, and     *)
(* then the handler returns and the rest is not produced.                  *)
(*                                                                         *)
(* An item has the members that its type needs: the size of an attachment, *)
(* the update of a session, the aggregates of Sessions, the number of      *)
(* metric buckets. A session or aggregates that cannot be read are the     *)
(* empty set, any other the set of what was read; of metrics that cannot   *)
(* be read there are none.                                                 *)
(***************************************************************************)
EXTENDS Naturals, Sequences, SequencesExt, FiniteSetsExt

CONSTANTS
  AttachmentChunkSize,    \* config.attachment_chunk_size()
  MaxExplodedSessions     \* MAX_EXPLODED_SESSIONS

ASSUME ChunkAssumption == AttachmentChunkSize \in Nat \ {0}
ASSUME ExplodedAssumption == MaxExplodedSessions \in Nat \ {0}

(* What the handler produces in place of a message when it returns with    *)
(* StoreError::NoEventId.                                                  *)
NoEventId == [kind |-> "NoEventId"]

(* KafkaMessage. uuid is the id of the event or the session, or nil.       *)
Message(topic, kind, uuid, data) == [kind |-> kind, topic |-> topic, uuid |-> uuid, data |-> data]

(* KafkaMessage::key, which decides on the partition, for message k of the *)
(* log. In place of a nil id every message has a random key of its own.    *)
PartitionKey(log, k) == [uuid |-> log[k].uuid, random |-> IF log[k].uuid = "nil" THEN k ELSE 0]

-----------------------------------------------------------------------------
(* produce_attachment_chunks. The position of the item stands for its id.  *)

ChunkCount(size) == (size + AttachmentChunkSize - 1) \div AttachmentChunkSize

ChunkSize(size, index) ==
  LET rest == size - index * AttachmentChunkSize
  IN  IF rest < AttachmentChunkSize THEN rest ELSE AttachmentChunkSize

ChunkMessages(event_id, id, size) ==
  [n \in 1 .. ChunkCount(size) |->
     Message("Attachments", "AttachmentChunk", event_id,
             [id |-> id, index |-> n - 1, size |-> ChunkSize(size, n - 1)])]

ChunkedAttachment(item, id) ==
  [id |-> id, chunks |-> ChunkCount(item.size), size |-> item.size, rate_limited |-> item.rate_limited]

-----------------------------------------------------------------------------
(* produce_sessions                                                        *)

SessionMessage(uuid, status, quantity, errors) ==
  Message("Sessions", "Session", uuid, [status |-> status, quantity |-> quantity, errors |-> errors])

(* produce_session_update: errors is capped at the largest u16.            *)
SessionErrors(s) ==
  LET capped == IF s.errors < 65535 THEN s.errors ELSE 65535
  IN  IF s.status = "Crashed" /\ capped = 0 THEN 1 ELSE capped

produce_session_update(s) ==
  <<SessionMessage(s.id, IF s.status = "Errored" THEN "Exited" ELSE s.status, 1, SessionErrors(s))>>

Statuses == <<"Exited", "Errored", "Abnormal", "Crashed">>

(* The messages of one aggregate: one for each status that has sessions.   *)
Exploded(aggregate) ==
  FlattenSeq([n \in DOMAIN Statuses |->
    LET count == aggregate[Statuses[n]]
    IN  IF count = 0 THEN <<>>
        ELSE <<SessionMessage("nil", Statuses[n], count, IF Statuses[n] = "Exited" THEN 0 ELSE 1)>>])

Taken(aggregates) ==
  SubSeq(aggregates, 1, Min({Len(aggregates), MaxExplodedSessions}))

produce_sessions_from_aggregate(aggregates) ==
  FlattenSeq([n \in DOMAIN Taken(aggregates) |-> Exploded(aggregates[n])])

produce_sessions(item) ==
  LET read == IF item.ty = "Session" THEN item.session ELSE item.aggregates
      parsed == CHOOSE r \in read : TRUE
  IN  IF read = {} THEN <<>>
      ELSE IF item.ty = "Session" THEN produce_session_update(parsed)
      ELSE produce_sessions_from_aggregate(parsed)

produce_metrics(buckets) == [n \in 1 .. buckets |-> Message("Metrics", "Metric", "nil", [bucket |-> n])]

-----------------------------------------------------------------------------
(* Handler<StoreEnvelope>                                                  *)

is_slow_item(item) == item.ty \in {"Attachment", "UserReport"}

EventItems(items) == SelectSeq(items, LAMBDA i : i.ty \in {"Event", "Transaction", "Security"})

TopicOf_Transactions(items) ==
  IF EventItems(items) # <<>> /\ EventItems(items)[1].ty = "Transaction" THEN "Transactions"
  ELSE IF \E n \in DOMAIN items : is_slow_item(items[n]) THEN "Attachments"
  ELSE "Events"

TopicOf(items) ==
  IF \E n \in DOMAIN items : is_slow_item(items[n]) THEN "Attachments"
  ELSE IF EventItems(items) # <<>> /\ EventItems(items)[1].ty = "Transaction" THEN "Transactions"
  ELSE "Events"

(* The messages of an item. event_id is a set with at most one element.    *)
ItemMessages(items, n, event_id) ==
  LET item == items[n]
      id == CHOOSE e \in event_id : TRUE
  IN  CASE is_slow_item(item) /\ event_id = {} -> <<NoEventId>>
        [] item.ty = "Attachment" /\ event_id # {} -> ChunkMessages(id, n, item.size)
        [] item.ty = "UserReport" /\ event_id # {} ->
             <<Message("Attachments", "UserReport", id, [id |-> n])>>
        [] item.ty \in {"Session", "Sessions"} -> produce_sessions(item)
        [] item.ty = "MetricBuckets" -> produce_metrics(item.buckets)
        [] OTHER -> <<>>

Attachments(items) ==
  FlattenSeq([n \in DOMAIN items |->
    IF items[n].ty = "Attachment" THEN <<ChunkedAttachment(items[n], n)>> ELSE <<>>])

(* The last messages: the event with its attachments, or the attachments   *)
(* alone.                                                                  *)
FinalMessages(items, event_id) ==
  LET attachments == Attachments(items)
      id == CHOOSE e \in event_id : TRUE
  IN  IF EventItems(items) = <<>> /\ attachments = <<>> THEN <<>>
      ELSE IF event_id = {} THEN <<NoEventId>>
      ELSE IF EventItems(items) # <<>>
      THEN <<Message(TopicOf(items), "Event", id, [attachments |-> attachments])>>
      ELSE [n \in DOMAIN attachments |->
              Message(TopicOf(items), "Attachment", id, [attachments |-> <<attachments[n]>>])]

StoreEnvelope(items, event_id) ==
  FlattenSeq([n \in DOMAIN items |-> ItemMessages(items, n, event_id)]) \o FinalMessages(items, event_id)

(* What is in Kafka if the producer fails after a number of messages.      *)
Produced(items, event_id, fails) ==
  LET messages == StoreEnvelope(items, event_id)
      stops == {n \in DOMAIN messages : messages[n] = NoEventId} \cup {fails + 1, Len(messages) + 1}
  IN  SubSeq(messages, 1, Min(stops) - 1)

-----------------------------------------------------------------------------
(* The positions of the chunks of an attachment that were produced before  *)
(* message m.                                                              *)
ChunksBefore(log, m, id) ==
  {k \in 1 .. m - 1 : log[k].kind = "AttachmentChunk" /\ log[k].data.id = id}

(* Kafka keeps the order only of messages with the same topic and key. No  *)
(* two messages with a nil id have the same key.                           *)
InOrderWith(log, m, seen) ==
  \A k \in seen : log[k].topic = log[m].topic /\ (log[m].uuid # "nil" => PartitionKey(log, k) = PartitionKey(log, m))

(* Their bytes.                                                            *)
BytesSeen(log, seen) == UNION {{k} \X (1 .. log[k].data.size) : k \in seen}

(* These are all chunks of the attachment, as many as it says, in their    *)
(* order and with all bytes.                                               *)
IsWhole(log, seen, attachment) ==
  /\ Cardinality(seen) = attachment.chunks
  /\ \A k \in seen : log[k].data.index = Cardinality({l \in seen : l < k})
  /\ Cardinality(BytesSeen(log, seen)) = attachment.size

(* All chunks of an event or an attachment are produced before it, and,    *)
(* but for a nil id, a consumer that reads it has read them.               *)
Reassembles(log) ==
  \A m \in DOMAIN log : log[m].kind \in {"Event", "Attachment"} =>
    \A a \in ToSet(log[m].data.attachments) :
      IsWhole(log, ChunksBefore(log, m, a.id), a) /\ InOrderWith(log, m, ChunksBefore(log, m, a.id))

=============================================================================
