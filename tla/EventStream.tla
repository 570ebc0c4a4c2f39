----------------------------- MODULE EventStream -----------------------------
(***************************************************************************)
(* The events of one project on their way to a browser: the handlers append *)
(* to a Redis stream, the SSE endpoint tails it for each connection, and    *)
(* EventSource reconnects when the transport drops.  An event is its         *)
(* position in the stream.                                                   *)
(***************************************************************************)
EXTENDS Integers, Sequences

CONSTANTS
    MaxEvents,   \* bound: events published
    MaxConnects, \* bound: connections of the browser
    MaxHiccups,  \* bound: calls to Redis that fail
    BatchSize    \* XREAD's COUNT: 50

ASSUME EventBoundsAssumption ==
    MaxEvents \in Nat \ {0} /\ MaxConnects \in Nat /\ MaxHiccups \in Nat /\ BatchSize \in Nat \ {0}

VARIABLES
    stream,     \* length of project:events:{id}
    connection, \* the generator: closed, between two reads, or in one
    lastId,     \* its cursor: 0 is `$`
    from,       \* where the pending XREAD reads from
    wire,       \* events written to this connection
    missed,     \* events that came while the generator was not reading at `$`
    connects, hiccups

eventVars == <<stream, connection, lastId, from, wire, missed, connects, hiccups>>

EventStreamTypeOK ==
    /\ stream \in 0 .. MaxEvents
    /\ connection \in {"closed", "between", "reading"}
    /\ lastId \in 0 .. MaxEvents /\ from \in 0 .. MaxEvents
    /\ wire \in Seq(1 .. MaxEvents)
    /\ missed \subseteq 1 .. MaxEvents
    /\ connects \in 0 .. MaxConnects /\ hiccups \in 0 .. MaxHiccups

EventStreamInit ==
    /\ stream \in {0, 1}
    /\ connection = "closed"
    /\ lastId = 0 /\ from = 0
    /\ wire = <<>> /\ missed = {}
    /\ connects = 0 /\ hiccups = 0

\* publish_project_event.
PublishProjectEvent ==
    /\ stream < MaxEvents
    /\ stream' = stream + 1
    /\ missed' = IF connection = "between" /\ lastId = 0 THEN missed \cup {stream + 1} ELSE missed
    /\ UNCHANGED <<connection, lastId, from, wire, connects, hiccups>>

\* retry, ready, and a cursor that only looks ahead: a reconnection forgets.
StreamProjectEvents ==
    /\ connection = "closed"
    /\ connects < MaxConnects
    /\ connects' = connects + 1
    /\ connection' = "between"
    /\ lastId' = 0 /\ from' = 0
    /\ wire' = <<>> /\ missed' = {}
    /\ UNCHANGED <<stream, hiccups>>

\* XREAD from the cursor, `$` being the end of the stream as it is now.
TailStream ==
    /\ connection = "between"
    /\ connection' = "reading"
    /\ from' = IF lastId = 0 THEN stream ELSE lastId
    /\ UNCHANGED <<stream, lastId, wire, missed, connects, hiccups>>

\* Messages: each is written, and the cursor goes along.
Messages ==
    LET upTo == IF stream - from > BatchSize THEN from + BatchSize ELSE stream
    IN  /\ connection = "reading"
        /\ stream > from
        /\ wire' = wire \o [i \in 1 .. upTo - from |-> from + i]
        /\ lastId' = upTo
        /\ connection' = "between"
        /\ UNCHANGED <<stream, from, missed, connects, hiccups>>

\* The block timeout, after which a heartbeat is written.
Heartbeat ==
    /\ connection = "reading"
    /\ stream = from
    /\ connection' = "between"
    /\ UNCHANGED <<stream, lastId, from, wire, missed, connects, hiccups>>

(* Mutant: a failed read starts over at `$`.                                *)
HiccupForgetting ==
    /\ connection = "reading"
    /\ hiccups < MaxHiccups
    /\ hiccups' = hiccups + 1
    /\ connection' = "between"
    /\ lastId' = 0
    /\ missed' = missed \cup from + 1 .. stream
    /\ UNCHANGED <<stream, from, wire, connects>>

\* An error of Redis is a heartbeat as well; what came during the read may have
\* been in the reply that was lost, and at `$` it is not asked for again.
Hiccup ==
    /\ connection = "reading"
    /\ hiccups < MaxHiccups
    /\ hiccups' = hiccups + 1
    /\ connection' = "between"
    /\ missed' = IF lastId = 0 THEN missed \cup from + 1 .. stream ELSE missed
    /\ UNCHANGED <<stream, lastId, from, wire, connects>>

\* The client is gone: noticed between two reads, or the task is cancelled.
Disconnected ==
    /\ connection # "closed"
    /\ connects < MaxConnects
    /\ connection' = "closed"
    /\ UNCHANGED <<stream, lastId, from, wire, missed, connects, hiccups>>

EventStreamNext ==
    \/ PublishProjectEvent \/ StreamProjectEvents \/ TailStream \/ Messages
    \/ Heartbeat \/ Hiccup \/ Disconnected

EventStreamSpec == EventStreamInit /\ [][EventStreamNext]_eventVars

\* A connection that has seen its first event misses none after it and gets
\* each once and in order, through failed reads and full batches: the wire has
\* no gap but for what came before a read at `$` saw anything.
NoGapAfterTheFirst ==
    /\ \A i \in 1 .. Len(wire) - 1 : wire[i + 1] = wire[i] + 1
    /\ wire # <<>> => wire[Len(wire)] = lastId /\ \A n \in missed : n < wire[1]

=============================================================================
