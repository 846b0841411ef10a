----------------------------- MODULE Forwarding -----------------------------
(***************************************************************************)
(* The task that serves one subscriber of a broadcast channel.  The code   *)
(* has it twice, as forward_group_updates (src/services/group.rs) and as   *)
(* forward_simulation_updates (src/services/simulation.rs): it sends a     *)
(* snapshot, then the channel's events that are newer, through a bounded   *)
(* queue to the client.  Everybody else runs in between its awaits.        *)
(*                                                                         *)
(* The queue's messages keep the sequence number of what they carry, which *)
(* the wire does not: no action here looks at it.                          *)
(***************************************************************************)
EXTENDS Naturals, Sequences, FiniteSets

CONSTANTS
  Subscribers,
  BroadcastCapacity,    \* BROADCAST_CAPACITY
  QueueCapacity,        \* SUBSCRIBER_CHANNEL_CAPACITY
  Aborted,              \* Err(Status::aborted), as a queued message
  None

VARIABLES
  updates, tail,  \* every event of the channel, how many of them were sent
  cacheDropped,   \* the StateCache, and so the channel's sender, is gone
  task,           \* the call and then the forwarding task of each subscriber
  queue,          \* its mpsc channel
  client          \* the reader of the response stream

\* pc: "idle" before the call, "subscribed" with a receiver but no snapshot,
\* "forwarding" while it sends the rest of the snapshot and then waits in
\* select!, "sending" an event, "aborting" after a lag, "done".  `received`
\* counts the events of the channel the receiver is past.
Task(Message) ==
  [pc : {"idle", "subscribed", "forwarding", "sending", "aborting", "done"},
   received : Nat, snapshot : SUBSET Message, snapshot_sequence : Nat,
   update : Message \cup {None}]

Client == [connected : BOOLEAN, aborted : BOOLEAN]

TypeOK(Message) ==
  /\ cacheDropped \in BOOLEAN
  /\ task \in [Subscribers -> Task(Message)]
  /\ queue \in [Subscribers -> Seq({Aborted} \cup Message)]
  /\ client \in [Subscribers -> Client]
  /\ \A s \in Subscribers : Len(queue[s]) <= QueueCapacity

Init ==
  /\ cacheDropped = FALSE
  /\ task = [s \in Subscribers |->
       [pc |-> "idle", received |-> 0, snapshot |-> {}, snapshot_sequence |-> 0,
        update |-> None]]
  /\ queue = [s \in Subscribers |-> <<>>]
  /\ client = [s \in Subscribers |-> [connected |-> TRUE, aborted |-> FALSE]]

-----------------------------------------------------------------------------
(* The call *)

\* The cache's subscribe_*_updates takes its receiver: it will get what is sent
\* from now on, in the middle of a write too.
Subscribe(s) ==
  /\ task[s].pc = "idle" /\ ~cacheDropped
  /\ task' = [task EXCEPT ![s].pc = "subscribed", ![s].received = tail]
  /\ UNCHANGED <<cacheDropped, queue, client>>

\* ... and then a snapshot, numbered n, under the read lock.
ReadSnapshot(s, messages, n) ==
  /\ task[s].pc = "subscribed"
  /\ task' = [task EXCEPT ![s].pc = "forwarding", ![s].snapshot = messages,
                          ![s].snapshot_sequence = n]
  /\ UNCHANGED <<cacheDropped, queue, client>>

-----------------------------------------------------------------------------
(* The task *)

(* Mutants *)
CanSendUnbounded(s) == client[s].connected

\* tx.send: needs a client and a free slot.
CanSend(s) == client[s].connected /\ Len(queue[s]) < QueueCapacity
Enqueue(s, message) == queue' = [queue EXCEPT ![s] = Append(@, message)]

\* The snapshot goes out in a HashMap's order.
SendSnapshot(s) ==
  /\ task[s].pc = "forwarding" /\ CanSend(s)
  /\ \E m \in task[s].snapshot :
       Enqueue(s, m) /\ task' = [task EXCEPT ![s].snapshot = @ \ {m}]
  /\ UNCHANGED <<cacheDropped, client>>

\* The receiver waits in select!, past the snapshot.
Receiving(s) == task[s].pc = "forwarding" /\ task[s].snapshot = {}

\* The channel has overwritten an event that the receiver is not past.
Lagged(s) == tail - task[s].received > BroadcastCapacity

NextUpdate(s) == updates[task[s].received + 1]

(* Mutants *)
NeverInSnapshot(s, e) == FALSE

\* The event is already part of the snapshot, or older.
InSnapshot(s, e) == e.sequence <= task[s].snapshot_sequence

\* updates.recv(); `passes` tells whether the subscriber's filter lets the
\* event through.
Receive(s, passes) ==
  /\ Receiving(s) /\ ~Lagged(s) /\ task[s].received < tail
  /\ task' = IF InSnapshot(s, NextUpdate(s)) \/ ~passes
             THEN [task EXCEPT ![s].received = @ + 1]
             ELSE [task EXCEPT ![s].received = @ + 1, ![s].pc = "sending",
                               ![s].update = NextUpdate(s)]
  /\ UNCHANGED <<cacheDropped, queue, client>>

SendUpdate(s) ==
  /\ task[s].pc = "sending" /\ CanSend(s)
  /\ Enqueue(s, task[s].update)
  /\ task' = [task EXCEPT ![s].pc = "forwarding", ![s].update = None]
  /\ UNCHANGED <<cacheDropped, client>>

(* Mutants *)
\* Resynchronising silently, as a receiver that goes on after Lagged would.
SkipMissed(s) ==
  /\ Receiving(s) /\ Lagged(s)
  /\ task' = [task EXCEPT ![s].received = tail - BroadcastCapacity]
  /\ UNCHANGED <<cacheDropped, queue, client>>

\* RecvError::Lagged: the channel dropped events this receiver did not get.
Lag(s) ==
  /\ Receiving(s) /\ Lagged(s)
  /\ task' = [task EXCEPT ![s].pc = "aborting"]
  /\ UNCHANGED <<cacheDropped, queue, client>>

SendAborted(s) ==
  /\ task[s].pc = "aborting" /\ CanSend(s)
  /\ Enqueue(s, Aborted)
  /\ task' = [task EXCEPT ![s].pc = "done"]
  /\ UNCHANGED <<cacheDropped, client>>

\* RecvError::Closed, after the last event.
Closed(s) ==
  /\ Receiving(s) /\ ~Lagged(s)
  /\ task[s].received = tail /\ cacheDropped
  /\ task' = [task EXCEPT ![s].pc = "done"]
  /\ UNCHANGED <<cacheDropped, queue, client>>

(* Mutants *)
\* Without the race against tx.closed() only a send notices.
FailedSend(s) ==
  /\ task[s].pc \in {"sending", "aborting"} /\ ~client[s].connected
  /\ task' = [task EXCEPT ![s].pc = "done"]
  /\ UNCHANGED <<cacheDropped, queue, client>>

\* The client is gone: a send fails, or tx.closed() wins the select!.
ClientGone(s) ==
  /\ task[s].pc \in {"forwarding", "sending", "aborting"}
  /\ ~client[s].connected
  /\ task' = [task EXCEPT ![s].pc = "done"]
  /\ UNCHANGED <<cacheDropped, queue, client>>

\* The steps of the task that are the same whatever it forwards.
ForwardStep(s) ==
  \/ SendSnapshot(s) \/ SendUpdate(s) \/ Lag(s)
  \/ SendAborted(s) \/ Closed(s) \/ ClientGone(s)

-----------------------------------------------------------------------------
(* The client, and who else holds the cache *)

ClientReceives(s) ==
  /\ client[s].connected /\ queue[s] # <<>>
  /\ queue' = [queue EXCEPT ![s] = Tail(@)]
  /\ client' = [client EXCEPT ![s].aborted = @ \/ Head(queue[s]) = Aborted]
  /\ UNCHANGED <<cacheDropped, task>>

\* The response stream, and with it the queue, is dropped.
Disconnect(s) ==
  /\ client[s].connected
  /\ task[s].pc \notin {"idle", "subscribed"}
  /\ client' = [client EXCEPT ![s].connected = FALSE]
  /\ queue' = [queue EXCEPT ![s] = <<>>]
  /\ UNCHANGED <<cacheDropped, task>>

\* The handler's call borrows the cache until it has its snapshot.
DropCache ==
  /\ ~cacheDropped
  /\ \A s \in Subscribers : task[s].pc # "subscribed"
  /\ cacheDropped' = TRUE
  /\ UNCHANGED <<task, queue, client>>

-----------------------------------------------------------------------------
(* Parts of properties *)

Served(s) ==
  /\ task[s].pc \in {"forwarding", "sending"}
  /\ client[s].connected /\ ~Lagged(s)

\* A client that left, or was told that it must subscribe again.
Excused(s) == client[s].aborted \/ ~client[s].connected

\* A subscriber that lags hears so, unless it leaves first.
LagIsTold ==
  \A s \in Subscribers : task[s].pc = "forwarding" /\ Lagged(s) ~> Excused(s)

\* The task of a client that left ends.
TaskEnds ==
  \A s \in Subscribers : ~client[s].connected ~> task[s].pc = "done"
=============================================================================
