---------------------------- MODULE EventStream ----------------------------
(***************************************************************************)
(* One durable consumer on the event stream (internal/kernel/events): what   *)
(* JetStream does with a message, and the callback Subscribe installs.  The  *)
(* workers are the processes that share the durable name.                    *)
(*                                                                           *)
(* The handler is a parameter of Subscribe; the modules that use this one    *)
(* run theirs between Deliver and the acknowledgement.                       *)
(***************************************************************************)
CONSTANTS
    Messages,
    Parseable,      \* the messages whose subject deliveryFrom accepts
    Workers,
    NoMessage

VARIABLES
    message,        \* where each message stands with the consumer
    holding         \* the message each worker's callback is running for

MessageState == {"unpublished", "waiting", "out", "acked", "terminated"}

TypeOK ==
    /\ message \in [Messages -> MessageState]
    /\ holding \in [Workers -> Messages \cup {NoMessage}]

Init ==
    /\ message = [m \in Messages |-> "unpublished"]
    /\ holding = [w \in Workers |-> NoMessage]

\* NATSPublisher.Publish: the stream has stored the message.
Publish(m) ==
    /\ message[m] = "unpublished"
    /\ message' = [message EXCEPT ![m] = "waiting"]
    /\ UNCHANGED holding

\* The server hands the message to one member of the queue group.
Deliver(w, m) ==
    /\ message[m] = "waiting" /\ holding[w] = NoMessage
    /\ message' = [message EXCEPT ![m] = "out"]
    /\ holding' = [holding EXCEPT ![w] = m]

\* consumerAckWait passes without an acknowledgement.  The callback may still be
\* running, or may have died.
AckWait(m) ==
    /\ message[m] = "out"
    /\ message' = [message EXCEPT ![m] = "waiting"]
    /\ UNCHANGED holding

\* The callback returns with the message in the state it settled for.
Return(w, settled) ==
    /\ holding[w] # NoMessage
    /\ message' = [message EXCEPT ![holding[w]] = settled]
    /\ holding' = [holding EXCEPT ![w] = NoMessage]

\* The subject does not parse: redelivering will not make it parse.
Term(w) == holding[w] \notin Parseable /\ Return(w, "terminated")

\* The handler returned nil.
Ack(w) == Return(w, "acked")

\* Mutant: an event its handler refuses is terminated like one that does not
\* parse (breaks PromiseSpec).
NakTerminates(w) == Return(w, "terminated")

\* The handler returned an error.  A negative acknowledgement of a message that
\* another delivery settled in the meantime is ignored.
Nak(w) ==
    LET now == message[holding[w]]
    IN  Return(w, IF now = "out" THEN "waiting" ELSE now)

\* The process dies, or its acknowledgement is lost (Subscribe drops the error).
Crash(w) ==
    /\ holding[w] # NoMessage
    /\ holding' = [holding EXCEPT ![w] = NoMessage]
    /\ UNCHANGED message
=============================================================================
