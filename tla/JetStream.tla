----------------------------- MODULE JetStream ------------------------------
(***************************************************************************)
(* A NATS JetStream stream read through one durable queue consumer with    *)
(* manual acks, as the scheduler (INTENTS), the execution engine (TASKS)   *)
(* and the validator (EXECUTIONS) use it.  External: modelled from these   *)
(* uses.  A stream is the sequence of its messages; a message carries an   *)
(* intent and is "ready" to be delivered, "out" with a subscriber until it *)
(* answers or AckWait expires, or "acked" for good.                        *)
(***************************************************************************)
EXTENDS Naturals, Sequences

MessageState == {"ready", "out", "acked"}

Message(Intent) == [intent : Intent, state : MessageState]

Publish(stream, i) == Append(stream, [intent |-> i, state |-> "ready"])

(* A publish whose answer is an error may have stored the message or not. *)
PublishFails(stream, i) == {stream, Publish(stream, i)}

Ready(stream) == {m \in DOMAIN stream : stream[m].state = "ready"}

Deliver(stream, m) == [stream EXCEPT ![m].state = "out"]

(* An Ack ends the message, whichever delivery of it is acknowledged. *)
Ack(stream, m) == [stream EXCEPT ![m].state = "acked"]

(* A Nak, or the expiry of AckWait, makes an unacknowledged message        *)
(* deliverable again.                                                      *)
Redeliver(stream, m) ==
  [stream EXCEPT ![m].state = IF @ = "out" THEN "ready" ELSE @]

(* Some message of intent i is still to be acknowledged. *)
Pending(stream, i) ==
  \E m \in DOMAIN stream : stream[m].intent = i /\ stream[m].state # "acked"

(* A message of intent i was stored, acknowledged since or not. *)
Stored(stream, i) == \E m \in DOMAIN stream : stream[m].intent = i

=============================================================================
