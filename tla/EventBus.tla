------------------------------ MODULE EventBus ------------------------------
(***************************************************************************)
(* The in-process event bus (app/engine/event_bus.py): one bounded queue    *)
(* per subscription, the oldest event making room for the newest, a         *)
(* heartbeat, and a close that wakes nobody.                                *)
(***************************************************************************)
EXTENDS Naturals, Sequences, SequencesExt

CONSTANTS
  Subscribers, Topics,
  Matches(_, _),  \* fnmatch of a topic and a subscriber's pattern
  HeartbeatTopic,
  QueueSize, MaxEvents  \* MaxEvents: a bound

VARIABLES
  mem,   \* stream: "none", "open" or "left" for each subscriber; listed: does
         \* the bus know its queue; queue; closed; heartbeat: is its task there
  hist   \* log: topics published; since: where in it a stream began; read: the
         \* events a stream yielded

vars == <<mem, hist>>

Init ==
  /\ mem = [stream |-> [s \in Subscribers |-> "none"], listed |-> {},
            queue |-> [s \in Subscribers |-> <<>>], closed |-> FALSE, heartbeat |-> FALSE]
  /\ hist = [log |-> <<>>, since |-> [s \in Subscribers |-> 0], read |-> [s \in Subscribers |-> <<>>]]

\* Mutant: a full queue drops the event that arrives.
PutDropsNewest(q, e) == IF Len(q) < QueueSize THEN Append(q, e) ELSE q

\* _put_loss_tolerant
Put(q, e) == IF Len(q) < QueueSize THEN Append(q, e) ELSE Append(Tail(q), e)

\* subscribe runs to its first queue.get; it starts the heartbeat.
Subscribe(s) ==
  /\ mem.stream[s] = "none" /\ ~mem.closed
  /\ mem' = [mem EXCEPT !.stream[s] = "open", !.listed = @ \cup {s}, !.heartbeat = TRUE]
  /\ hist' = [hist EXCEPT !.since[s] = Len(hist.log)]

Deliver(topic) ==
  LET e == Len(hist.log) + 1 IN
  /\ Len(hist.log) < MaxEvents
  /\ mem' = [mem EXCEPT !.queue = [s \in Subscribers |->
       IF s \in mem.listed /\ Matches(topic, s) THEN Put(mem.queue[s], e) ELSE mem.queue[s]]]
  /\ hist' = [hist EXCEPT !.log = Append(@, topic)]

Publish(topic) == ~mem.closed /\ Deliver(topic)

Heartbeat == mem.heartbeat /\ ~mem.closed /\ Deliver(HeartbeatTopic)

Receive(s) ==
  /\ mem.stream[s] = "open" /\ mem.queue[s] # <<>>
  /\ mem' = [mem EXCEPT !.queue[s] = Tail(@)]
  /\ hist' = [hist EXCEPT !.read[s] = Append(@, Head(mem.queue[s]))]

\* The generator is closed or cancelled.
Leave(s) ==
  /\ mem.stream[s] = "open"
  /\ mem' = [mem EXCEPT !.stream[s] = "left", !.listed = @ \ {s}, !.queue[s] = <<>>]
  /\ UNCHANGED hist

\* The flag, the cancelled heartbeat, and after that task's end the table.
Close ==
  /\ ~mem.closed
  /\ mem' = [mem EXCEPT !.closed = TRUE, !.heartbeat = FALSE] /\ UNCHANGED hist

Forget ==
  /\ mem.closed /\ mem.listed # {}
  /\ mem' = [mem EXCEPT !.listed = {}] /\ UNCHANGED hist

Next ==
  \/ \E s \in Subscribers : Subscribe(s) \/ Receive(s) \/ Leave(s)
  \/ \E t \in Topics : Publish(t)
  \/ Heartbeat \/ Close \/ Forget

Spec == Init /\ [][Next]_vars

------------------------------------------------------------------------------

Ascending(q) == \A i, j \in 1 .. Len(q) : i < j => q[i] < q[j]

\* The events that matched since subscriber s began.
Due(s) == {i \in 1 .. Len(hist.log) : i > hist.since[s] /\ Matches(hist.log[i], s)}

\* Of the events due, r was read and q waits: both in order, and q follows r; q
\* has every event since its first, and the newest event is there or was read.
AreNewest(r, q, due) ==
  /\ Ascending(r) /\ Ascending(q)
  /\ Range(r) \cup Range(q) \subseteq due
  /\ \A d \in Range(r), e \in Range(q) : d < e
  /\ \A d \in due \ Range(q), e \in Range(q) : d < e
  /\ \A d \in due : \E e \in Range(r) \cup Range(q) : d <= e

\* A slow subscriber loses only what is oldest: what waits in its queue is the
\* newest of the events that matched since it subscribed, in order, without a
\* gap, and follows everything it has read.
NewestWait ==
  \A s \in Subscribers : mem.stream[s] = "open" => AreNewest(hist.read[s], mem.queue[s], Due(s))
=============================================================================
