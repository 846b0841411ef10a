----------------------- MODULE SimulationUpdatesProofs -----------------------
(***************************************************************************)
(* Proofs about the simulation subscriptions: no state is missed, whatever *)
(* is queued, in the task's hand or still in the channel, and the client   *)
(* follows a feed of the simulation's state.  The argument is that of      *)
(* GroupUpdatesProofs, for one thing instead of many and no filter.        *)
(***************************************************************************)
EXTENDS SimulationUpdates, EventLogProofs

-----------------------------------------------------------------------------
(* The inductive invariant, of one subscriber. *)

\* A message says what the state was when the counter stood at its number.
Truthful(m) ==
  /\ m \in SimulationEvent /\ m.sequence \in 1..sequence
  /\ m.state = StateAt(m.sequence)

\* Whatever is still to be forwarded is newer than m.
Older(s, m) ==
  \A i \in task[s].received+1 .. Len(simulationUpdates) :
    ~Forward!InSnapshot(s, simulationUpdates[i])
      => m.sequence < simulationUpdates[i].sequence

Sound(s, m) == Truthful(m) /\ Older(s, m)

\* What the program counter, the queue and the client say of each other.
Shape(s) ==
  /\ task[s].pc \in {"idle", "subscribed"} =>
       /\ client[s] = [connected |-> TRUE, aborted |-> FALSE]
       /\ queue[s] = <<>> /\ task[s].snapshot = {} /\ task[s].update = None
       /\ view[s] = None
  /\ task[s].pc = "sending" => task[s].update # None
  /\ task[s].update # None =>
       task[s].pc = "sending" \/ (task[s].pc = "done" /\ ~client[s].connected)
  /\ task[s].pc \in {"sending", "aborting"} => task[s].snapshot = {}
  /\ \A i \in DOMAIN queue[s] :
       queue[s][i] = Aborted => i = Len(queue[s]) /\ task[s].pc = "done"
  /\ client[s].aborted => queue[s] = <<>> /\ task[s].pc = "done"
  /\ task[s].received <= simulationTail /\ task[s].snapshot_sequence <= sequence

\* The messages es come in the order of their numbers, after the shown one w,
\* and only once nothing is left of the snapshot sn.
InOrder(es, w, sn) ==
  \A j \in DOMAIN es : es[j] # Aborted =>
    /\ w # None => w.sequence < es[j].sequence
    /\ \A i \in 1..j-1 : es[i].sequence < es[j].sequence
    /\ sn = {}

Shows(w, sn, v) ==
  \/ \E m \in sn : m.state = v
  \/ sn = {} /\ v = IF w = None THEN None ELSE w.state

\* The last of the events of es at the places K carries v.
LastAt(es, K, v) == \E i \in K : es[i].state = v /\ \A j \in K : j <= i

Ends(es, v) == es # <<>> /\ es[Len(es)].state = v

\* The client will show v once everything is through.
OnItsWay(s, v) ==
  \/ LastAt(simulationUpdates, ToCome(s), v)
  \/ ToCome(s) = {} /\ Ends(Pending(s), v)
  \/ ToCome(s) = {} /\ Pending(s) = <<>> /\ Shows(view[s], task[s].snapshot, v)

Delivers(s) ==
  /\ \A m \in SimulationEvent : view[s] = m => Sound(s, m)
  /\ \A m \in task[s].snapshot :
       /\ Sound(s, m) /\ view[s] = None
       /\ \A n \in task[s].snapshot : n = m
  /\ client[s].connected =>
       /\ \A i \in DOMAIN Pending(s), m \in SimulationEvent :
            Pending(s)[i] = m => Sound(s, m)
       /\ InOrder(Pending(s), view[s], task[s].snapshot)

UpToDate(s) ==
  task[s].pc \in {"forwarding", "sending"} /\ client[s].connected =>
    OnItsWay(s, simulation_state)

SubscriberInv(s) == Shape(s) /\ Delivers(s) /\ UpToDate(s)

SimulationUpdatesInv ==
  LogInv /\ SubscriberTypeOK /\ \A s \in Subscribers : SubscriberInv(s)

-----------------------------------------------------------------------------
(* What each step of a subscriber does, field by field. *)

\* The other subscribers do not notice.
OthersStill(s) ==
  \A t \in Subscribers : t # s =>
    /\ task'[t] = task[t] /\ queue'[t] = queue[t]
    /\ client'[t] = client[t] /\ view'[t] = view[t]

\* The step is one of the task that leaves the queue alone.
QueueStill(s) ==
  /\ OthersStill(s)
  /\ queue'[s] = queue[s] /\ client'[s] = client[s] /\ view'[s] = view[s]

\* The task only goes on to another program counter.
Proceeds(s) ==
  /\ QueueStill(s)
  /\ task'[s].received = task[s].received
  /\ task'[s].snapshot = task[s].snapshot
  /\ task'[s].snapshot_sequence = task[s].snapshot_sequence
  /\ task'[s].update = task[s].update

LEMMA TaskType ==
  ASSUME SubscriberTypeOK, NEW s \in Subscribers
  PROVE  /\ task \in [Subscribers -> Forward!Task(SimulationEvent)]
         /\ task[s] \in
              [pc : {"idle", "subscribed", "forwarding", "sending", "aborting",
                     "done"},
               received : Nat, snapshot : SUBSET SimulationEvent,
               snapshot_sequence : Nat, update : SimulationEvent \cup {None}]
         /\ queue \in [Subscribers -> Seq({Aborted} \cup SimulationEvent)]
         /\ client \in [Subscribers -> [connected : BOOLEAN, aborted : BOOLEAN]]
         /\ queue[s] \in Seq({Aborted} \cup SimulationEvent)
         /\ view \in [Subscribers -> SimulationEvent \cup {None}]
BY DEF SubscriberTypeOK, Forward!TypeOK, Forward!Task, Forward!Client

TasksOK ==
  \A s \in Subscribers :
    /\ task[s].received \in Nat
    /\ task[s].update \in SimulationEvent \cup {None}
    /\ queue[s] \in Seq({Aborted} \cup SimulationEvent)
    /\ view[s] \in SimulationEvent \cup {None}

LEMMA TaskTypeNext == SubscriberTypeOK' => TasksOK'
<1>1. SubscriberTypeOK => TasksOK
  BY TaskType DEF TasksOK
<1> QED BY <1>1, PTL

LEMMA SubscribeDoes ==
  ASSUME SubscriberTypeOK, NEW s \in Subscribers,
         Forward!Subscribe(s), UNCHANGED view
  PROVE  /\ task[s].pc = "idle" /\ task'[s].pc = "subscribed"
         /\ QueueStill(s)
         /\ task'[s].received = simulationTail
         /\ task'[s].snapshot = task[s].snapshot
         /\ task'[s].snapshot_sequence = task[s].snapshot_sequence
         /\ task'[s].update = task[s].update
BY TaskType DEF Forward!Subscribe, Forward!Task, QueueStill, OthersStill

LEMMA ReadSnapshotDoes ==
  ASSUME SubscriberTypeOK, NEW s \in Subscribers,
         ReadSnapshot(s), UNCHANGED view
  PROVE  /\ task[s].pc = "subscribed" /\ task'[s].pc = "forwarding"
         /\ QueueStill(s)
         /\ task'[s].received = task[s].received
         /\ task'[s].snapshot = Snapshot
         /\ task'[s].snapshot_sequence = sequence
         /\ task'[s].update = task[s].update
BY TaskType DEF ReadSnapshot, Forward!ReadSnapshot, Forward!Task, QueueStill,
                OthersStill

LEMMA ReceiveDoes ==
  ASSUME SubscriberTypeOK, NEW s \in Subscribers,
         Receive(s), UNCHANGED view
  PROVE  /\ task[s].pc = "forwarding" /\ task[s].snapshot = {}
         /\ task[s].received < simulationTail
         /\ QueueStill(s)
         /\ task'[s].received = task[s].received + 1
         /\ task'[s].snapshot = {}
         /\ task'[s].snapshot_sequence = task[s].snapshot_sequence
         /\ \/ /\ Forward!InSnapshot(s, Forward!NextUpdate(s))
               /\ task'[s].pc = "forwarding" /\ task'[s].update = task[s].update
            \/ /\ ~Forward!InSnapshot(s, Forward!NextUpdate(s))
               /\ task'[s].pc = "sending"
               /\ task'[s].update = Forward!NextUpdate(s)
<1>1. CASE Forward!InSnapshot(s, Forward!NextUpdate(s))
  BY <1>1, TaskType DEF Receive, Forward!Receive, Forward!Receiving,
     Forward!Task, QueueStill, OthersStill
<1>2. CASE ~Forward!InSnapshot(s, Forward!NextUpdate(s))
  BY <1>2, TaskType DEF Receive, Forward!Receive, Forward!Receiving,
     Forward!Task, QueueStill, OthersStill
<1> QED BY <1>1, <1>2

LEMMA SendSnapshotDoes ==
  ASSUME SubscriberTypeOK, NEW s \in Subscribers,
         Forward!SendSnapshot(s), UNCHANGED view
  PROVE  /\ task[s].pc = "forwarding" /\ client[s].connected
         /\ Len(queue[s]) < QueueCapacity
         /\ OthersStill(s) /\ client'[s] = client[s] /\ view'[s] = view[s]
         /\ task'[s].pc = "forwarding"
         /\ task'[s].received = task[s].received
         /\ task'[s].snapshot_sequence = task[s].snapshot_sequence
         /\ task'[s].update = task[s].update
         /\ \E m \in task[s].snapshot :
              /\ task'[s].snapshot = task[s].snapshot \ {m}
              /\ queue'[s] = Append(queue[s], m)
<1>1. PICK m \in task[s].snapshot :
        /\ queue' = [queue EXCEPT ![s] = Append(@, m)]
        /\ task' = [task EXCEPT ![s].snapshot = @ \ {m}]
  BY DEF Forward!SendSnapshot, Forward!Enqueue
<1>2. /\ task'[s].snapshot = task[s].snapshot \ {m}
      /\ task'[s].pc = task[s].pc
      /\ task'[s].received = task[s].received
      /\ task'[s].snapshot_sequence = task[s].snapshot_sequence
      /\ task'[s].update = task[s].update
  BY <1>1, TaskType DEF Forward!Task
<1>3. OthersStill(s) /\ queue'[s] = Append(queue[s], m)
  BY <1>1, TaskType DEF Forward!SendSnapshot, Forward!Task, OthersStill
<1> QED BY <1>1, <1>2, <1>3 DEF Forward!SendSnapshot, Forward!CanSend

LEMMA SendUpdateDoes ==
  ASSUME SubscriberTypeOK, NEW s \in Subscribers,
         Forward!SendUpdate(s), UNCHANGED view
  PROVE  /\ task[s].pc = "sending" /\ client[s].connected
         /\ Len(queue[s]) < QueueCapacity
         /\ OthersStill(s) /\ client'[s] = client[s] /\ view'[s] = view[s]
         /\ task'[s].pc = "forwarding"
         /\ task'[s].received = task[s].received
         /\ task'[s].snapshot = task[s].snapshot
         /\ task'[s].snapshot_sequence = task[s].snapshot_sequence
         /\ task'[s].update = None
         /\ queue'[s] = Append(queue[s], task[s].update)
BY TaskType DEF Forward!SendUpdate, Forward!CanSend, Forward!Enqueue,
                Forward!Task, OthersStill

LEMMA SendAbortedDoes ==
  ASSUME SubscriberTypeOK, NEW s \in Subscribers,
         Forward!SendAborted(s), UNCHANGED view
  PROVE  /\ task[s].pc = "aborting" /\ client[s].connected
         /\ Len(queue[s]) < QueueCapacity
         /\ OthersStill(s) /\ client'[s] = client[s] /\ view'[s] = view[s]
         /\ task'[s].pc = "done"
         /\ task'[s].received = task[s].received
         /\ task'[s].snapshot = task[s].snapshot
         /\ task'[s].snapshot_sequence = task[s].snapshot_sequence
         /\ task'[s].update = task[s].update
         /\ queue'[s] = Append(queue[s], Aborted)
BY TaskType DEF Forward!SendAborted, Forward!CanSend, Forward!Enqueue,
                Forward!Task, OthersStill

LEMMA StopDoes ==
  ASSUME SubscriberTypeOK, NEW s \in Subscribers,
         Forward!Lag(s) \/ Forward!Closed(s) \/ Forward!ClientGone(s),
         UNCHANGED view
  PROVE  /\ Proceeds(s)
         /\ \/ /\ task[s].pc = "forwarding" /\ task[s].snapshot = {}
               /\ task'[s].pc \in {"aborting", "done"}
            \/ /\ task[s].pc \in {"forwarding", "sending", "aborting"}
               /\ ~client[s].connected /\ task'[s].pc = "done"
<1>1. CASE Forward!Lag(s)
  BY <1>1, TaskType DEF Forward!Lag, Forward!Receiving, Forward!Task, Proceeds,
                        QueueStill, OthersStill
<1>2. CASE Forward!Closed(s)
  BY <1>2, TaskType DEF Forward!Closed, Forward!Receiving, Forward!Task,
                        Proceeds, QueueStill, OthersStill
<1>3. CASE Forward!ClientGone(s)
  BY <1>3, TaskType DEF Forward!ClientGone, Forward!Task, Proceeds, QueueStill,
                        OthersStill
<1> QED BY <1>1, <1>2, <1>3

LEMMA ClientReceivesDoes ==
  ASSUME SubscriberTypeOK, NEW s \in Subscribers, ClientReceives(s)
  PROVE  /\ client[s].connected /\ queue[s] # <<>>
         /\ OthersStill(s) /\ task'[s] = task[s]
         /\ queue'[s] = Tail(queue[s])
         /\ client'[s].connected
         /\ client'[s].aborted = (client[s].aborted \/ Head(queue[s]) = Aborted)
         /\ Head(queue[s]) = Aborted => view'[s] = view[s]
         /\ Head(queue[s]) # Aborted =>
              view'[s] = Head(queue[s])
<1>1. CASE Head(queue[s]) = Aborted
  BY <1>1, TaskType DEF ClientReceives, Forward!ClientReceives, OthersStill
<1>2. CASE Head(queue[s]) # Aborted
  BY <1>2, TaskType DEF ClientReceives, Forward!ClientReceives, OthersStill
<1> QED BY <1>1, <1>2

LEMMA DisconnectDoes ==
  ASSUME SubscriberTypeOK, NEW s \in Subscribers,
         Forward!Disconnect(s), UNCHANGED view
  PROVE  /\ client[s].connected /\ task[s].pc \notin {"idle", "subscribed"}
         /\ OthersStill(s) /\ task'[s] = task[s] /\ view'[s] = view[s]
         /\ queue'[s] = <<>>
         /\ ~client'[s].connected /\ client'[s].aborted = client[s].aborted
BY TaskType DEF Forward!Disconnect, OthersStill

-----------------------------------------------------------------------------
(* Types *)

LEMMA SnapshotType ==
  ASSUME TypeOK
  PROVE  /\ Snapshot \subseteq SimulationEvent
         /\ \A m \in Snapshot : m.sequence = sequence /\ m.state = simulation_state
         /\ \A m, n \in Snapshot : m = n
         /\ Snapshot = {} <=> simulation_state = None
<1>1. sequence \in Nat /\ simulation_state \in SimulationStates \cup {None}
  BY DEF TypeOK
<1>2. CASE simulation_state = None
  BY <1>2 DEF Snapshot
<1>3. CASE simulation_state # None
  <2> DEFINE e == [sequence |-> sequence, state |-> simulation_state]
  <2>1. e \in SimulationEvent /\ e.sequence = sequence /\ e.state = simulation_state
    BY <1>1 DEF SimulationEvent
  <2>2. Snapshot = {e}
    BY <1>3 DEF Snapshot
  <2> HIDE DEF e
  <2> QED BY <1>3, <2>1, <2>2
<1> QED BY <1>2, <1>3

LEMMA NextUpdateType ==
  ASSUME TypeOK, SubscriberTypeOK, NEW s \in Subscribers,
         task[s].received < simulationTail
  PROVE  /\ task[s].received + 1 \in 1..Len(simulationUpdates)
         /\ Forward!NextUpdate(s) = simulationUpdates[task[s].received + 1]
         /\ Forward!NextUpdate(s) \in SimulationEvent
<1>1. /\ simulationUpdates \in Seq(SimulationEvent) /\ simulationTail \in 0..Len(simulationUpdates)
      /\ task[s].received \in Nat /\ Len(simulationUpdates) \in Nat
  BY TaskType, LenProperties DEF TypeOK
<1>2. task[s].received + 1 \in 1..Len(simulationUpdates)
  BY <1>1
<1> QED BY <1>1, <1>2, ElementOfSeq DEF Forward!NextUpdate

\* Tasks stay tasks, whichever field of one changes.
LEMMA TaskFields ==
  ASSUME NEW T \in [Subscribers -> Forward!Task(SimulationEvent)],
         NEW s \in Subscribers, NEW x
  PROVE  /\ x \in {"subscribed", "forwarding", "sending", "aborting", "done"} =>
              [T EXCEPT ![s].pc = x] \in [Subscribers -> Forward!Task(SimulationEvent)]
         /\ x \in Nat =>
              /\ [T EXCEPT ![s].received = x]
                   \in [Subscribers -> Forward!Task(SimulationEvent)]
              /\ [T EXCEPT ![s].snapshot_sequence = x]
                   \in [Subscribers -> Forward!Task(SimulationEvent)]
         /\ x \subseteq SimulationEvent =>
              [T EXCEPT ![s].snapshot = x]
                \in [Subscribers -> Forward!Task(SimulationEvent)]
         /\ x \in SimulationEvent \cup {None} =>
              [T EXCEPT ![s].update = x]
                \in [Subscribers -> Forward!Task(SimulationEvent)]
<1>1. x \in {"subscribed", "forwarding", "sending", "aborting", "done"} =>
        [T EXCEPT ![s].pc = x] \in [Subscribers -> Forward!Task(SimulationEvent)]
  BY DEF Forward!Task
<1>2. x \in Nat =>
        /\ [T EXCEPT ![s].received = x]
             \in [Subscribers -> Forward!Task(SimulationEvent)]
        /\ [T EXCEPT ![s].snapshot_sequence = x]
             \in [Subscribers -> Forward!Task(SimulationEvent)]
  BY DEF Forward!Task
<1>3. x \subseteq SimulationEvent =>
        [T EXCEPT ![s].snapshot = x]
          \in [Subscribers -> Forward!Task(SimulationEvent)]
  BY DEF Forward!Task
<1>4. x \in SimulationEvent \cup {None} =>
        [T EXCEPT ![s].update = x]
          \in [Subscribers -> Forward!Task(SimulationEvent)]
  BY DEF Forward!Task
<1> QED BY <1>1, <1>2, <1>3, <1>4

LEMMA SubscriberStepType ==
  ASSUME TypeOK, SubscriberTypeOK, NEW s \in Subscribers, Shape(s), SubscriberStep(s)
  PROVE  SubscriberTypeOK'
<1> DEFINE Message == {Aborted} \cup SimulationEvent
<1>0. /\ task \in [Subscribers -> Forward!Task(SimulationEvent)]
      /\ queue \in [Subscribers -> Seq(Message)]
      /\ client \in [Subscribers -> Forward!Client]
      /\ \A t \in Subscribers : Len(queue[t]) <= QueueCapacity
      /\ view \in [Subscribers -> SimulationEvent \cup {None}]
      /\ cacheDropped \in BOOLEAN
  BY DEF SubscriberTypeOK, Forward!TypeOK
<1>q. queue[s] \in Seq(Message) /\ Len(queue[s]) \in Nat
  BY <1>0, LenProperties
<1> SUFFICES /\ task' \in [Subscribers -> Forward!Task(SimulationEvent)]
             /\ queue' \in [Subscribers -> Seq(Message)]
             /\ client' \in [Subscribers -> Forward!Client]
             /\ \A t \in Subscribers : Len(queue'[t]) <= QueueCapacity
             /\ view' \in [Subscribers -> SimulationEvent \cup {None}]
             /\ cacheDropped' = cacheDropped
  BY <1>0 DEF SubscriberTypeOK, Forward!TypeOK
<1>1. CASE Forward!Subscribe(s) /\ UNCHANGED view
  <2>1. simulationTail \in Nat
    BY DEF TypeOK
  <2>2. task' = [task EXCEPT ![s].pc = "subscribed", ![s].received = simulationTail]
    BY <1>1 DEF Forward!Subscribe
  <2>3. task' \in [Subscribers -> Forward!Task(SimulationEvent)]
    BY <1>0, <2>1, <2>2 DEF Forward!Task
  <2> QED BY <1>0, <1>1, <2>3 DEF Forward!Subscribe
<1>2. CASE ReadSnapshot(s) /\ UNCHANGED view
  <2>1. Snapshot \subseteq SimulationEvent /\ sequence \in Nat
    BY SnapshotType DEF TypeOK
  <2> DEFINE t1 == [task EXCEPT ![s].pc = "forwarding"]
             t2 == [t1 EXCEPT ![s].snapshot = Snapshot]
  <2>2. task' = [t2 EXCEPT ![s].snapshot_sequence = sequence]
    BY <1>2 DEF ReadSnapshot, Forward!ReadSnapshot
  <2>3. task' \in [Subscribers -> Forward!Task(SimulationEvent)]
    <3>1. t1 \in [Subscribers -> Forward!Task(SimulationEvent)]
      BY <1>0, TaskFields
    <3> HIDE DEF t1
    <3>2. t2 \in [Subscribers -> Forward!Task(SimulationEvent)]
      BY <3>1, <2>1, TaskFields
    <3> HIDE DEF t2
    <3> QED BY <3>2, <2>1, <2>2, TaskFields
  <2> QED BY <1>0, <1>2, <2>3 DEF ReadSnapshot, Forward!ReadSnapshot
<1>3. CASE Receive(s) /\ UNCHANGED view
  <2>1. Forward!NextUpdate(s) \in SimulationEvent
    BY <1>3, NextUpdateType DEF Receive, Forward!Receive
  <2>2. task' \in [Subscribers -> Forward!Task(SimulationEvent)]
    <3> DEFINE t1 == [task EXCEPT ![s].received = task[s].received + 1]
               t2 == [t1 EXCEPT ![s].pc = "sending"]
    <3>1. task' = t1 \/ task' = [t2 EXCEPT ![s].update = Forward!NextUpdate(s)]
      BY <1>3 DEF Receive, Forward!Receive
    <3>2. task[s].received + 1 \in Nat
      BY <1>0 DEF Forward!Task
    <3>3. t1 \in [Subscribers -> Forward!Task(SimulationEvent)]
      BY <1>0, <3>2, TaskFields
    <3> HIDE DEF t1
    <3>4. t2 \in [Subscribers -> Forward!Task(SimulationEvent)]
      BY <3>3, TaskFields
    <3> HIDE DEF t2
    <3>5. [t2 EXCEPT ![s].update = Forward!NextUpdate(s)]
            \in [Subscribers -> Forward!Task(SimulationEvent)]
      BY <3>4, <2>1, TaskFields
    <3> QED BY <3>1, <3>3, <3>5
  <2> QED BY <1>0, <1>3, <2>2 DEF Receive, Forward!Receive
<1>4. CASE Forward!SendSnapshot(s) /\ UNCHANGED view
  <2>1. PICK m \in task[s].snapshot :
          /\ queue' = [queue EXCEPT ![s] = Append(@, m)]
          /\ task' = [task EXCEPT ![s].snapshot = @ \ {m}]
    BY <1>4 DEF Forward!SendSnapshot, Forward!Enqueue
  <2>2. m \in SimulationEvent
    BY <1>0 DEF Forward!Task
  <2>3. task' \in [Subscribers -> Forward!Task(SimulationEvent)]
    BY <1>0, <2>1 DEF Forward!Task
  <2>4. Append(queue[s], m) \in Seq(Message)
        /\ Len(Append(queue[s], m)) = Len(queue[s]) + 1
    BY <1>q, <2>2, AppendProperties
  <2>5. Len(queue[s]) + 1 <= QueueCapacity
    BY <1>q, <1>4, SimulationUpdatesAssumption DEF Forward!SendSnapshot, Forward!CanSend
  <2> QED BY <1>0, <1>4, <2>1, <2>3, <2>4, <2>5 DEF Forward!SendSnapshot
<1>5. CASE Forward!SendUpdate(s) /\ UNCHANGED view
  <2>1. task[s].update \in SimulationEvent
    BY <1>0, <1>5 DEF Shape, Forward!SendUpdate, Forward!Task
  <2>2. task' \in [Subscribers -> Forward!Task(SimulationEvent)]
    BY <1>0, <1>5 DEF Forward!SendUpdate, Forward!Task
  <2>3. Append(queue[s], task[s].update) \in Seq(Message)
        /\ Len(Append(queue[s], task[s].update)) = Len(queue[s]) + 1
    BY <1>q, <2>1, AppendProperties
  <2>4. Len(queue[s]) + 1 <= QueueCapacity
    BY <1>q, <1>5, SimulationUpdatesAssumption DEF Forward!SendUpdate, Forward!CanSend
  <2> QED BY <1>0, <1>5, <2>2, <2>3, <2>4 DEF Forward!SendUpdate, Forward!Enqueue
<1>6. CASE (Forward!Lag(s) \/ Forward!Closed(s) \/ Forward!ClientGone(s))
             /\ UNCHANGED view
  <2>1. /\ UNCHANGED <<cacheDropped, queue, client>>
        /\ \/ task' = [task EXCEPT ![s].pc = "aborting"]
           \/ task' = [task EXCEPT ![s].pc = "done"]
    BY <1>6 DEF Forward!Lag, Forward!Closed, Forward!ClientGone
  <2>2. [task EXCEPT ![s].pc = "aborting"]
          \in [Subscribers -> Forward!Task(SimulationEvent)]
    BY <1>0, TaskFields
  <2>3. [task EXCEPT ![s].pc = "done"]
          \in [Subscribers -> Forward!Task(SimulationEvent)]
    BY <1>0, TaskFields
  <2> QED BY <1>0, <1>6, <2>1, <2>2, <2>3
<1>7. CASE Forward!SendAborted(s) /\ UNCHANGED view
  <2>1. task' \in [Subscribers -> Forward!Task(SimulationEvent)]
    BY <1>0, <1>7 DEF Forward!SendAborted, Forward!Task
  <2>2. Append(queue[s], Aborted) \in Seq(Message)
        /\ Len(Append(queue[s], Aborted)) = Len(queue[s]) + 1
    BY <1>q, AppendProperties
  <2>3. Len(queue[s]) + 1 <= QueueCapacity
    BY <1>q, <1>7, SimulationUpdatesAssumption DEF Forward!SendAborted, Forward!CanSend
  <2> QED BY <1>0, <1>7, <2>1, <2>2, <2>3 DEF Forward!SendAborted, Forward!Enqueue
<1>8. CASE Forward!Disconnect(s) /\ UNCHANGED view
  <2>1. <<>> \in Seq(Message) /\ Len(<<>>) = 0 /\ 0 <= QueueCapacity
    BY SimulationUpdatesAssumption
  <2>2. queue' = [queue EXCEPT ![s] = <<>>]
    BY <1>8 DEF Forward!Disconnect
  <2>3. /\ queue' \in [Subscribers -> Seq(Message)]
        /\ \A t \in Subscribers : Len(queue'[t]) <= QueueCapacity
    BY <1>0, <2>1, <2>2
  <2> QED BY <1>0, <1>8, <2>3 DEF Forward!Disconnect, Forward!Client
<1>9. CASE ClientReceives(s)
  <2>1. /\ Tail(queue[s]) \in Seq(Message) /\ Len(Tail(queue[s])) = Len(queue[s]) - 1
        /\ Head(queue[s]) \in Message
    BY <1>q, <1>9, HeadTailProperties DEF ClientReceives, Forward!ClientReceives
  <2>2. view' \in [Subscribers -> SimulationEvent \cup {None}]
    <3>1. CASE Head(queue[s]) = Aborted
      BY <1>0, <1>9, <3>1 DEF ClientReceives
    <3>2. CASE Head(queue[s]) # Aborted
      <4>1. Head(queue[s]) \in SimulationEvent
        BY <2>1, <3>2
      <4> QED BY <1>0, <1>9, <3>2, <4>1 DEF ClientReceives
    <3> QED BY <3>1, <3>2
  <2>3. client' \in [Subscribers -> Forward!Client]
    BY <1>0, <1>9 DEF ClientReceives, Forward!ClientReceives, Forward!Client
  <2>4. \A t \in Subscribers : Len(queue'[t]) <= QueueCapacity
    <3>1. \A t \in Subscribers : Len(queue[t]) \in Nat
      BY <1>0, LenProperties
    <3>2. Len(Tail(queue[s])) <= QueueCapacity
      BY <1>0, <1>q, <2>1, SimulationUpdatesAssumption
    <3> QED BY <1>0, <1>9, <3>2 DEF ClientReceives, Forward!ClientReceives
  <2> QED BY <1>0, <1>9, <2>1, <2>2, <2>3, <2>4
          DEF ClientReceives, Forward!ClientReceives
<1> QED BY <1>1, <1>2, <1>3, <1>4, <1>5, <1>6, <1>7, <1>8, <1>9
        DEF SubscriberStep, TaskStep, Forward!ForwardStep

-----------------------------------------------------------------------------
(* The shape is kept. *)

LEMMA ShapeKept ==
  ASSUME TypeOK, SubscriberTypeOK, NEW s \in Subscribers, Shape(s),
         SubscriberStep(s), UNCHANGED cacheVars
  PROVE  Shape(s)'
<1> DEFINE Message == {Aborted} \cup SimulationEvent
<1>0. /\ queue[s] \in Seq(Message) /\ simulationTail' = simulationTail /\ sequence' = sequence
      /\ simulationTail \in Nat /\ sequence \in Nat /\ task[s].received \in Nat
      /\ task[s].snapshot_sequence \in Nat
      /\ Aborted \notin SimulationEvent /\ None \in SimulationEvent \cup {None}
  BY TaskType, SimulationUpdatesAssumption DEF cacheVars, TypeOK
<1>q. /\ Len(queue[s]) \in Nat /\ DOMAIN queue[s] = 1..Len(queue[s])
  BY <1>0, LenProperties
\* A message that is no abort is appended while the task goes on.
<1>a. ASSUME NEW m \in SimulationEvent, queue'[s] = Append(queue[s], m),
             task[s].pc \in {"forwarding", "sending"}
      PROVE  \A i \in DOMAIN queue'[s] : queue'[s][i] # Aborted
  <2>1. m \in Message
    OBVIOUS
  <2>2. /\ DOMAIN queue'[s] = 1..Len(queue[s])+1
        /\ \A i \in 1..Len(queue[s]) : queue'[s][i] = queue[s][i]
        /\ queue'[s][Len(queue[s]) + 1] = m
    BY <1>0, <1>a, <2>1, AppendElements
  <2>3. \A i \in 1..Len(queue[s]) : queue[s][i] # Aborted
    BY <1>q, <1>a DEF Shape
  <2>4. m # Aborted
    BY <1>0
  <2> QED BY <1>q, <2>2, <2>3, <2>4
<1>1. CASE Forward!Subscribe(s) /\ UNCHANGED view
  <2>1. /\ task[s].pc = "idle" /\ task'[s].pc = "subscribed"
        /\ QueueStill(s) /\ task'[s].received = simulationTail
        /\ task'[s].snapshot = task[s].snapshot
        /\ task'[s].snapshot_sequence = task[s].snapshot_sequence
        /\ task'[s].update = task[s].update
    BY <1>1, SubscribeDoes
  <2> QED BY <1>0, <2>1 DEF Shape, QueueStill
<1>2. CASE ReadSnapshot(s) /\ UNCHANGED view
  <2>1. /\ task[s].pc = "subscribed" /\ task'[s].pc = "forwarding"
        /\ QueueStill(s) /\ task'[s].received = task[s].received
        /\ task'[s].snapshot_sequence = sequence
        /\ task'[s].update = task[s].update
    BY <1>2, ReadSnapshotDoes
  <2> QED BY <1>0, <2>1 DEF Shape, QueueStill
<1>3. CASE Receive(s) /\ UNCHANGED view
  <2>1. /\ task[s].pc = "forwarding" /\ task[s].snapshot = {}
        /\ task[s].received < simulationTail /\ QueueStill(s)
        /\ task'[s].received = task[s].received + 1 /\ task'[s].snapshot = {}
        /\ task'[s].snapshot_sequence = task[s].snapshot_sequence
        /\ \/ task'[s].pc = "forwarding" /\ task'[s].update = task[s].update
           \/ /\ task'[s].pc = "sending"
              /\ task'[s].update = Forward!NextUpdate(s)
    BY <1>3, ReceiveDoes
  <2>2. Forward!NextUpdate(s) # None
    <3>1. Forward!NextUpdate(s) \in SimulationEvent
      BY <2>1, NextUpdateType
    <3> QED BY <3>1, SimulationUpdatesAssumption
  <2> QED BY <1>0, <2>1, <2>2 DEF Shape, QueueStill
<1>4. CASE Forward!SendSnapshot(s) /\ UNCHANGED view
  <2>1. /\ task[s].pc = "forwarding" /\ client[s].connected
        /\ client'[s] = client[s] /\ task'[s].pc = "forwarding"
        /\ task'[s].received = task[s].received
        /\ task'[s].snapshot_sequence = task[s].snapshot_sequence
        /\ task'[s].update = task[s].update
        /\ \E m \in task[s].snapshot : queue'[s] = Append(queue[s], m)
    BY <1>4, SendSnapshotDoes
  <2>2. \A i \in DOMAIN queue'[s] : queue'[s][i] # Aborted
    BY <1>a, <2>1, TaskType
  <2> QED BY <1>0, <2>1, <2>2 DEF Shape
<1>5. CASE Forward!SendUpdate(s) /\ UNCHANGED view
  <2>1. /\ task[s].pc = "sending" /\ client[s].connected
        /\ client'[s] = client[s] /\ task'[s].pc = "forwarding"
        /\ task'[s].received = task[s].received
        /\ task'[s].snapshot_sequence = task[s].snapshot_sequence
        /\ task'[s].update = None
        /\ queue'[s] = Append(queue[s], task[s].update)
    BY <1>5, SendUpdateDoes
  <2>2. task[s].update \in SimulationEvent
    BY <2>1, TaskType DEF Shape
  <2>3. \A i \in DOMAIN queue'[s] : queue'[s][i] # Aborted
    BY <1>a, <2>1, <2>2
  <2> QED BY <1>0, <2>1, <2>3 DEF Shape
<1>6. CASE (Forward!Lag(s) \/ Forward!Closed(s) \/ Forward!ClientGone(s))
             /\ UNCHANGED view
  <2>1. /\ Proceeds(s)
        /\ \/ /\ task[s].pc = "forwarding" /\ task[s].snapshot = {}
              /\ task'[s].pc \in {"aborting", "done"}
           \/ /\ task[s].pc \in {"forwarding", "sending", "aborting"}
              /\ ~client[s].connected /\ task'[s].pc = "done"
    BY <1>6, StopDoes
  <2> QED BY <1>0, <2>1 DEF Shape, Proceeds, QueueStill
<1>7. CASE Forward!SendAborted(s) /\ UNCHANGED view
  <2>1. /\ task[s].pc = "aborting" /\ client[s].connected
        /\ client'[s] = client[s] /\ task'[s].pc = "done"
        /\ task'[s].received = task[s].received
        /\ task'[s].snapshot = task[s].snapshot
        /\ task'[s].snapshot_sequence = task[s].snapshot_sequence
        /\ task'[s].update = task[s].update
        /\ queue'[s] = Append(queue[s], Aborted)
    BY <1>7, SendAbortedDoes
  <2>2. Aborted \in Message
    OBVIOUS
  <2>3. /\ DOMAIN queue'[s] = 1..Len(queue[s])+1 /\ Len(queue'[s]) = Len(queue[s]) + 1
        /\ \A i \in 1..Len(queue[s]) : queue'[s][i] = queue[s][i]
    BY <1>0, <2>1, <2>2, AppendElements
  <2>4. \A i \in 1..Len(queue[s]) : queue[s][i] # Aborted
    BY <1>q, <2>1 DEF Shape
  <2>5. \A i \in DOMAIN queue'[s] : queue'[s][i] = Aborted => i = Len(queue'[s])
    BY <1>q, <2>3, <2>4
  <2> QED BY <1>0, <2>1, <2>5 DEF Shape
<1>8. CASE Forward!Disconnect(s) /\ UNCHANGED view
  <2>1. /\ client[s].connected /\ task[s].pc \notin {"idle", "subscribed"}
        /\ task'[s] = task[s] /\ queue'[s] = <<>>
        /\ ~client'[s].connected /\ client'[s].aborted = client[s].aborted
    BY <1>8, DisconnectDoes
  <2> QED BY <1>0, <2>1 DEF Shape
<1>9. CASE ClientReceives(s)
  <2>1. /\ client[s].connected /\ queue[s] # <<>>
        /\ task'[s] = task[s] /\ queue'[s] = Tail(queue[s])
        /\ client'[s].connected
        /\ client'[s].aborted = (client[s].aborted \/ Head(queue[s]) = Aborted)
    BY <1>9, ClientReceivesDoes
  <2>2. /\ Len(queue[s]) > 0 /\ Len(queue'[s]) = Len(queue[s]) - 1
        /\ DOMAIN queue'[s] = 1..Len(queue[s])-1
        /\ \A i \in 1..Len(queue[s])-1 :
             queue'[s][i] = queue[s][i + 1] /\ i + 1 \in 1..Len(queue[s])
        /\ Head(queue[s]) = queue[s][1] /\ queue'[s] \in Seq(Message)
    BY <1>0, <2>1, TailElements
  <2>3. task[s].pc \notin {"idle", "subscribed"}
    BY <2>1 DEF Shape
  <2>4. \A i \in DOMAIN queue'[s] :
          queue'[s][i] = Aborted => i = Len(queue'[s]) /\ task'[s].pc = "done"
    <3> SUFFICES ASSUME NEW i \in 1..Len(queue[s])-1, queue'[s][i] = Aborted
                 PROVE  i = Len(queue'[s]) /\ task'[s].pc = "done"
      BY <2>2
    <3>1. i + 1 \in DOMAIN queue[s] /\ queue[s][i + 1] = Aborted
      BY <1>q, <2>2
    <3>2. i + 1 = Len(queue[s]) /\ task[s].pc = "done"
      BY <3>1 DEF Shape
    <3> QED BY <1>q, <2>1, <2>2, <3>2
  <2>5. client'[s].aborted => queue'[s] = <<>> /\ task'[s].pc = "done"
    <3>1. CASE client[s].aborted
      BY <2>1, <3>1 DEF Shape
    <3>2. CASE Head(queue[s]) = Aborted
      <4>1. 1 = Len(queue[s]) /\ task[s].pc = "done"
        <5>1. 1 \in DOMAIN queue[s] /\ queue[s][1] = Aborted
          BY <1>q, <2>2, <3>2
        <5> QED BY <5>1 DEF Shape
      <4>2. Len(queue'[s]) = 0
        BY <2>2, <4>1
      <4> QED BY <2>1, <2>2, <4>1, <4>2, EmptySeq
    <3> QED BY <2>1, <3>1, <3>2
  <2> QED BY <1>0, <2>1, <2>3, <2>4, <2>5 DEF Shape
<1> QED BY <1>1, <1>2, <1>3, <1>4, <1>5, <1>6, <1>7, <1>8, <1>9
        DEF SubscriberStep, TaskStep, Forward!ForwardStep


-----------------------------------------------------------------------------
(* A queue at its ends. *)

LEMMA AppendInOrder ==
  ASSUME NEW S, NEW q \in Seq(S), NEW e \in S, NEW w, NEW sn, NEW less,
         InOrder(q, w, sn), less \subseteq sn,
         e # Aborted =>
           /\ w # None => w.sequence < e.sequence
           /\ \A i \in 1..Len(q) : q[i].sequence < e.sequence
           /\ less = {}
  PROVE  InOrder(Append(q, e), w, less)
<1> DEFINE qe == Append(q, e)
<1>1. /\ Len(q) \in Nat /\ DOMAIN q = 1..Len(q) /\ DOMAIN qe = 1..Len(q)+1
      /\ \A i \in 1..Len(q) : qe[i] = q[i]
      /\ qe[Len(q) + 1] = e
  BY AppendElements
<1> HIDE DEF qe
<1> SUFFICES ASSUME NEW j \in 1..Len(q)+1, qe[j] # Aborted
             PROVE  /\ w # None => w.sequence < qe[j].sequence
                    /\ \A i \in 1..j-1 : qe[i].sequence < qe[j].sequence
                    /\ less = {}
  BY <1>1 DEF InOrder, qe
<1>2. \A i \in 1..j-1 : i \in 1..Len(q)
  BY <1>1
<1>3. CASE j = Len(q) + 1
  BY <1>1, <1>2, <1>3
<1>4. CASE j \in 1..Len(q)
  <2>1. /\ w # None => w.sequence < q[j].sequence
        /\ \A i \in 1..j-1 : q[i].sequence < q[j].sequence
        /\ sn = {}
    BY <1>1, <1>4 DEF InOrder
  <2> QED BY <1>1, <1>2, <1>4, <2>1
<1> QED BY <1>1, <1>3, <1>4

LEMMA TailInOrder ==
  ASSUME NEW S, NEW q \in Seq(S), q # <<>>, NEW w, NEW sn, InOrder(q, w, sn)
  PROVE  InOrder(Tail(q), Head(q), sn)
<1> DEFINE tq == Tail(q)
<1>1. /\ Len(q) \in Nat /\ Len(q) > 0
      /\ DOMAIN q = 1..Len(q) /\ DOMAIN tq = 1..Len(q)-1
      /\ \A i \in 1..Len(q)-1 : tq[i] = q[i + 1] /\ i + 1 \in 1..Len(q)
      /\ Head(q) = q[1]
  BY TailElements
<1> HIDE DEF tq
<1> SUFFICES ASSUME NEW j \in 1..Len(q)-1, tq[j] # Aborted
             PROVE  /\ Head(q).sequence < tq[j].sequence
                    /\ \A i \in 1..j-1 : tq[i].sequence < tq[j].sequence
                    /\ sn = {}
  BY <1>1 DEF InOrder, tq
<1>2. j + 1 \in DOMAIN q /\ tq[j] = q[j + 1] /\ 1 \in 1..(j+1)-1
      /\ \A i \in 1..j-1 : tq[i] = q[i + 1] /\ i + 1 \in 1..(j+1)-1
  BY <1>1
<1>3. /\ \A i \in 1..(j+1)-1 : q[i].sequence < q[j+1].sequence
      /\ sn = {}
  BY <1>2 DEF InOrder
<1> QED BY <1>1, <1>2, <1>3

-----------------------------------------------------------------------------
(* What the cache's channel holds, and what state it tells. *)

LEMMA NumbersOfEvents ==
  ASSUME LogInv
  PROVE  /\ Len(simulationUpdates) \in Nat /\ sequence \in Nat
         /\ DOMAIN simulationUpdates = 1..Len(simulationUpdates)
         /\ \A i \in 1..Len(simulationUpdates) :
              /\ simulationUpdates[i] \in SimulationEvent
              /\ simulationUpdates[i].sequence \in 1..sequence
              /\ \A j \in i+1..Len(simulationUpdates) :
                   simulationUpdates[i].sequence < simulationUpdates[j].sequence
<1>1. simulationUpdates \in Seq(SimulationEvent) /\ sequence \in Nat
  BY DEF LogInv, IInv, TypeOK
<1>2. /\ Len(simulationUpdates) \in Nat
      /\ DOMAIN simulationUpdates = 1..Len(simulationUpdates)
  BY <1>1, LenProperties
<1>3. Ordered(groupUpdates, simulationUpdates, sequence)
  BY SequenceOrderedIs DEF LogInv
<1>4. ASSUME NEW i \in 1..Len(simulationUpdates)
      PROVE  /\ simulationUpdates[i] \in SimulationEvent
             /\ simulationUpdates[i].sequence \in 1..sequence
  <2>1. simulationUpdates[i] \in SimulationEvent
    BY <1>1, ElementOfSeq
  <2>2. simulationUpdates[i].sequence \in Numbers(simulationUpdates)
    BY <1>2 DEF Numbers
  <2>3. simulationUpdates[i].sequence \in 1..sequence
    BY <2>2, <1>3 DEF Ordered
  <2> QED BY <2>1, <2>3
<1>5. ASSUME NEW i \in 1..Len(simulationUpdates),
             NEW j \in i+1..Len(simulationUpdates)
      PROVE  simulationUpdates[i].sequence < simulationUpdates[j].sequence
  <2>1. j \in DOMAIN simulationUpdates /\ i \in 1..j-1
    BY <1>2
  <2> QED BY <2>1, <1>3 DEF Ordered, Increasing
<1> QED BY <1>1, <1>2, <1>4, <1>5

LEMMA SimulationTypesNext ==
  ASSUME LogInv, [Next]_cacheVars
  PROVE  /\ Len(simulationUpdates') \in Nat /\ sequence' \in Nat
         /\ DOMAIN simulationUpdates' = 1..Len(simulationUpdates')
         /\ \A i \in 1..Len(simulationUpdates') :
              simulationUpdates'[i].sequence \in Nat
<1>1. simulationUpdates' \in Seq(SimulationEvent) /\ sequence' \in Nat
  BY NextLogInv DEF LogInv, IInv, TypeOK
<1>2. \A i \in 1..Len(simulationUpdates') : simulationUpdates'[i] \in SimulationEvent
  BY <1>1, ElementOfSeq
<1> QED BY <1>1, <1>2, LenProperties DEF SimulationEvent

EventsUntil(n) ==
  {i \in DOMAIN simulationUpdates : simulationUpdates[i].sequence <= n}

LEMMA StateIs ==
  ASSUME LogInv, NEW n, NEW i \in EventsUntil(n), \A j \in EventsUntil(n) : j <= i
  PROVE  StateAt(n) = simulationUpdates[i].state
<1>1. /\ EventsUntil(n) \subseteq 1..Len(simulationUpdates)
      /\ Len(simulationUpdates) \in Nat
  BY NumbersOfEvents DEF EventsUntil
<1>2. Max(EventsUntil(n)) = i
  BY <1>1, LastPlaceIs
<1> QED BY <1>2 DEF StateAt, EventsUntil

LEMMA StateOfEvent ==
  ASSUME LogInv, NEW i \in 1..Len(simulationUpdates)
  PROVE  StateAt(simulationUpdates[i].sequence) = simulationUpdates[i].state
<1> DEFINE n == simulationUpdates[i].sequence
<1>1. i \in EventsUntil(n)
  BY NumbersOfEvents DEF EventsUntil
<1>2. ASSUME NEW j \in EventsUntil(n) PROVE j <= i
  <2>1. j \in 1..Len(simulationUpdates) /\ simulationUpdates[j].sequence <= n
    BY NumbersOfEvents DEF EventsUntil
  <2>2. CASE j > i
    <3>1. j \in i+1..Len(simulationUpdates)
      BY <2>1, <2>2, NumbersOfEvents
    <3>2. n < simulationUpdates[j].sequence
      BY <3>1, NumbersOfEvents
    <3>3. n \in Nat /\ simulationUpdates[j].sequence \in Nat
      BY <2>1, NumbersOfEvents
    <3> QED BY <2>1, <3>2, <3>3
  <2> QED BY <2>1, <2>2, NumbersOfEvents
<1> HIDE DEF n
<1>3. StateAt(n) = simulationUpdates[i].state
  BY <1>1, <1>2, StateIs
<1> QED BY <1>3 DEF n

LEMMA StateNow ==
  ASSUME LogInv
  PROVE  StateAt(sequence) = simulation_state
<1>1. /\ EventsUntil(sequence) = 1..Len(simulationUpdates)
      /\ Len(simulationUpdates) \in Nat
      /\ simulationUpdates \in Seq(SimulationEvent)
  BY NumbersOfEvents DEF EventsUntil, LogInv, IInv, TypeOK
<1>2. CASE simulationUpdates = <<>>
  BY <1>1, <1>2 DEF StateAt, EventsUntil, LogInv, SimulationEventsTellState
<1>3. CASE simulationUpdates # <<>>
  <2>1. Len(simulationUpdates) > 0
    BY <1>1, <1>3, EmptySeq
  <2>2. StateAt(sequence) = simulationUpdates[Len(simulationUpdates)].state
    BY <1>1, <2>1, StateIs
  <2> QED BY <1>3, <2>2 DEF LogInv, SimulationEventsTellState, Last
<1> QED BY <1>2, <1>3

\* What a step of the cache leaves as it was.
LEMMA StateKept ==
  ASSUME LogInv, [Next]_cacheVars, NEW n \in Nat, n <= sequence
  PROVE  StateAt(n)' = StateAt(n)
<1>1. /\ Len(simulationUpdates) \in Nat
      /\ DOMAIN simulationUpdates = 1..Len(simulationUpdates)
      /\ sequence \in Nat
  BY NumbersOfEvents
<1>2. /\ Len(simulationUpdates') \in Nat
      /\ DOMAIN simulationUpdates' = 1..Len(simulationUpdates')
      /\ \A i \in 1..Len(simulationUpdates') : simulationUpdates'[i].sequence \in Nat
  BY SimulationTypesNext
<1>3. /\ Len(simulationUpdates) <= Len(simulationUpdates')
      /\ \A i \in 1..Len(simulationUpdates) :
           simulationUpdates'[i] = simulationUpdates[i]
      /\ \A i \in Len(simulationUpdates)+1..Len(simulationUpdates') :
           simulationUpdates'[i].sequence > sequence
  BY LogsGrow DEF Grows
<1>4. EventsUntil(n)' = EventsUntil(n)
  <2>1. ASSUME NEW i \in EventsUntil(n)' PROVE i \in EventsUntil(n)
    <3>1. i \in 1..Len(simulationUpdates') /\ simulationUpdates'[i].sequence <= n
      BY <1>2 DEF EventsUntil
    <3>2. i \notin Len(simulationUpdates)+1..Len(simulationUpdates')
      BY <3>1, <1>1, <1>2, <1>3
    <3>3. i \in 1..Len(simulationUpdates)
      BY <3>1, <3>2, <1>1, <1>2
    <3> QED BY <3>1, <3>3, <1>1, <1>3 DEF EventsUntil
  <2>2. ASSUME NEW i \in EventsUntil(n) PROVE i \in EventsUntil(n)'
    <3>1. i \in 1..Len(simulationUpdates) /\ i \in 1..Len(simulationUpdates')
      BY <1>1, <1>2, <1>3 DEF EventsUntil
    <3> QED BY <3>1, <1>2, <1>3 DEF EventsUntil
  <2> QED BY <2>1, <2>2
<1>5. CASE EventsUntil(n) = {}
  BY <1>4, <1>5 DEF StateAt, EventsUntil
<1>6. CASE EventsUntil(n) # {}
  <2> DEFINE k == Max(EventsUntil(n))
  <2>1. k \in 1..Len(simulationUpdates)
    <3>1. EventsUntil(n) \subseteq 1..Len(simulationUpdates)
      BY <1>1 DEF EventsUntil
    <3>2. k \in EventsUntil(n)
      BY <1>1, <1>6, <3>1, LastPlace
    <3> QED BY <3>1, <3>2
  <2>2. k' = k
    BY <1>4
  <2>3. simulationUpdates'[k] = simulationUpdates[k]
    BY <1>3, <2>1
  <2>4. simulationUpdates'[k'] = simulationUpdates[k]
    BY <2>2, <2>3
  <2>5. StateAt(n) = simulationUpdates[k].state
    BY <1>6 DEF StateAt, EventsUntil
  <2>6. StateAt(n)' = simulationUpdates'[k'].state
    BY <1>4, <1>6 DEF StateAt, EventsUntil
  <2> HIDE DEF k
  <2> QED BY <2>4, <2>5, <2>6
<1> QED BY <1>5, <1>6

-----------------------------------------------------------------------------
(* A step of the cache, or of another subscriber. *)

LEMMA CacheStepTells ==
  ASSUME LogInv, [Next]_cacheVars
  PROVE  \/ UNCHANGED <<simulation_state, simulationUpdates>>
         \/ LET n == Len(simulationUpdates)
            IN  /\ Len(simulationUpdates') = n + 1
                /\ simulationUpdates'[n + 1].state = simulation_state'
<1>1. CASE \E n : PublishSimulation(n, simulation_state')
  <2>1. PICK n : PublishSimulation(n, simulation_state')
    BY <1>1
  <2> DEFINE e == [sequence |-> n, state |-> simulation_state']
  <2>2. simulationUpdates' = Append(simulationUpdates, e) /\ e.state = simulation_state'
    BY <2>1 DEF PublishSimulation
  <2> HIDE DEF e
  <2>3. simulationUpdates \in Seq(SimulationEvent \cup {e})
    BY DEF LogInv, IInv, TypeOK
  <2> QED BY <2>2, <2>3, AppendElements
<1>2. CASE Write
  BY <1>1, <1>2, WriteSaysState
<1>3. CASE ~Write
  BY <1>3 DEF Next, SendGroupUpdate, SendSimulationUpdate, cacheVars, simulationVars
<1> QED BY <1>2, <1>3

\* The step is none of this subscriber's.
SubscriberStill(s) ==
  /\ task'[s] = task[s] /\ queue'[s] = queue[s] /\ client'[s] = client[s]
  /\ view'[s] = view[s]

LEMMA SoundKept ==
  ASSUME LogInv, [Next]_cacheVars, SubscriberTypeOK, NEW s \in Subscribers,
         SubscriberStill(s), NEW m, Sound(s, m)
  PROVE  Sound(s, m)'
<1>1. /\ m \in SimulationEvent /\ m.sequence \in 1..sequence
      /\ m.state = StateAt(m.sequence)
  BY DEF Sound, Truthful
<1>2. sequence \in Nat /\ sequence' \in Nat /\ sequence <= sequence'
  BY NumbersOfEvents, SimulationTypesNext, LogsGrow
<1>3. StateAt(m.sequence)' = StateAt(m.sequence)
  <2>1. m.sequence \in Nat /\ m.sequence <= sequence
    BY <1>1, <1>2
  <2> QED BY <2>1, StateKept
<1>4. Truthful(m)'
  BY <1>1, <1>2, <1>3 DEF Truthful
<1>5. Older(s, m)'
  <2> SUFFICES ASSUME NEW i \in task[s].received+1 .. Len(simulationUpdates'),
                      ~(simulationUpdates'[i].sequence <= task[s].snapshot_sequence)
               PROVE  m.sequence < simulationUpdates'[i].sequence
    BY DEF Older, Forward!InSnapshot, SubscriberStill
  <2>1. /\ Len(simulationUpdates) \in Nat /\ Len(simulationUpdates') \in Nat
        /\ Len(simulationUpdates) <= Len(simulationUpdates')
        /\ \A k \in 1..Len(simulationUpdates) :
             simulationUpdates'[k] = simulationUpdates[k]
        /\ \A k \in Len(simulationUpdates)+1..Len(simulationUpdates') :
             simulationUpdates'[k].sequence > sequence
    BY NumbersOfEvents, SimulationTypesNext, LogsGrow DEF Grows
  <2>2. task[s].received \in Nat /\ i \in 1..Len(simulationUpdates')
    BY TaskType, <2>1
  <2>3. CASE i \in 1..Len(simulationUpdates)
    <3>1. i \in task[s].received+1 .. Len(simulationUpdates)
      BY <2>3, <2>2
    <3> QED BY <2>1, <2>3, <3>1 DEF Sound, Older, Forward!InSnapshot
  <2>4. CASE i \in Len(simulationUpdates)+1..Len(simulationUpdates')
    <3>1. /\ simulationUpdates'[i].sequence > sequence
          /\ simulationUpdates'[i].sequence \in Nat
      BY <2>1, <2>2, <2>4, SimulationTypesNext
    <3> QED BY <1>1, <1>2, <3>1
  <2> QED BY <2>1, <2>2, <2>3, <2>4
<1> QED BY <1>4, <1>5 DEF Sound

\* Which events are still to come.
LEMMA ToComeGrows ==
  ASSUME LogInv, [Next]_cacheVars, SubscriberTypeOK, NEW s \in Subscribers,
         Shape(s), SubscriberStill(s)
  PROVE  /\ \A i \in 1..Len(simulationUpdates) : i \in ToCome(s)' <=> i \in ToCome(s)
         /\ Len(simulationUpdates)+1..Len(simulationUpdates') \subseteq ToCome(s)'
         /\ ToCome(s) \subseteq 1..Len(simulationUpdates)
         /\ ToCome(s)' \subseteq 1..Len(simulationUpdates')
<1>1. /\ Len(simulationUpdates) \in Nat /\ Len(simulationUpdates') \in Nat
      /\ Len(simulationUpdates) <= Len(simulationUpdates')
      /\ sequence \in Nat
      /\ \A k \in 1..Len(simulationUpdates) :
           simulationUpdates'[k] = simulationUpdates[k]
      /\ \A k \in Len(simulationUpdates)+1..Len(simulationUpdates') :
           simulationUpdates'[k].sequence > sequence
      /\ \A k \in 1..Len(simulationUpdates') : simulationUpdates'[k].sequence \in Nat
  BY NumbersOfEvents, SimulationTypesNext, LogsGrow DEF Grows
<1>2. /\ task[s].received \in Nat /\ task[s].snapshot_sequence \in Nat
      /\ task[s].received <= Len(simulationUpdates)
      /\ task[s].snapshot_sequence <= sequence
  BY TaskType, <1>1 DEF Shape, LogInv, IInv, TypeOK
<1>3. ToCome(s) = {i \in task[s].received+1 .. Len(simulationUpdates) :
                     ~(simulationUpdates[i].sequence <= task[s].snapshot_sequence)}
  BY DEF ToCome, Forward!InSnapshot
<1>4. ToCome(s)' = {i \in task[s].received+1 .. Len(simulationUpdates') :
                      ~(simulationUpdates'[i].sequence <= task[s].snapshot_sequence)}
  BY DEF ToCome, Forward!InSnapshot, SubscriberStill
<1>5. ASSUME NEW i \in 1..Len(simulationUpdates)
      PROVE  i \in ToCome(s)' <=> i \in ToCome(s)
  BY <1>1, <1>2, <1>3, <1>4
<1>6. ASSUME NEW i \in Len(simulationUpdates)+1..Len(simulationUpdates')
      PROVE  i \in ToCome(s)'
  <2>1. /\ i \in task[s].received+1 .. Len(simulationUpdates')
        /\ ~(simulationUpdates'[i].sequence <= task[s].snapshot_sequence)
    BY <1>1, <1>2
  <2> QED BY <2>1, <1>4
<1>7. ToCome(s) \subseteq 1..Len(simulationUpdates)
  BY <1>1, <1>2, <1>3
<1>8. ToCome(s)' \subseteq 1..Len(simulationUpdates')
  BY <1>1, <1>2, <1>4
<1> QED BY <1>5, <1>6, <1>7, <1>8

\* What is on its way after a step, in terms of rigid values.
LEMMA OnItsWayNext ==
  ASSUME NEW s, NEW v, NEW es, es = simulationUpdates',
         NEW K, K = ToCome(s)', NEW q, q = Pending(s)',
         NEW w, w = view'[s], NEW sn, sn = task'[s].snapshot
  PROVE  /\ LastAt(es, K, v) => OnItsWay(s, v)'
         /\ K = {} /\ Ends(q, v) => OnItsWay(s, v)'
         /\ K = {} /\ q = <<>> /\ Shows(w, sn, v) => OnItsWay(s, v)'
<1>1. LastAt(simulationUpdates, ToCome(s), v)' <=> LastAt(es, K, v)
  BY DEF LastAt
<1>2. Ends(Pending(s), v)' <=> Ends(q, v)
  BY DEF Ends
<1>3. Shows(view[s], task[s].snapshot, v)' <=> Shows(w, sn, v)
  BY DEF Shows
<1> QED BY <1>1, <1>2, <1>3 DEF OnItsWay

LEMMA StaysOnItsWay ==
  ASSUME LogInv, [Next]_cacheVars, SubscriberTypeOK, NEW s \in Subscribers,
         Shape(s), SubscriberStill(s), NEW v, OnItsWay(s, v),
         simulationUpdates' = simulationUpdates
  PROVE  OnItsWay(s, v)'
<1>1. ToCome(s)' = ToCome(s)
  BY DEF ToCome, Forward!InSnapshot, SubscriberStill
<1>2. Pending(s)' = Pending(s) /\ view'[s] = view[s] /\ task'[s] = task[s]
  BY DEF Pending, SubscriberStill
<1> QED BY <1>1, <1>2 DEF OnItsWay, LastAt, Ends, Shows

LEMMA ToldOnItsWay ==
  ASSUME LogInv, [Next]_cacheVars, SubscriberTypeOK, NEW s \in Subscribers,
         Shape(s), SubscriberStill(s), NEW v,
         Len(simulationUpdates') = Len(simulationUpdates) + 1,
         simulationUpdates'[Len(simulationUpdates) + 1].state = v
  PROVE  OnItsWay(s, v)'
<1>1. PICK n \in Nat : n = Len(simulationUpdates)
  BY NumbersOfEvents
<1>2. PICK es : es = simulationUpdates'
  OBVIOUS
<1>3. PICK K : K = ToCome(s)'
  OBVIOUS
<1>4. n + 1 \in K /\ K \subseteq 1..n+1 /\ es[n + 1].state = v
  <2>1. n+1..n+1 \subseteq K /\ K \subseteq 1..n+1
    BY <1>1, <1>3, ToComeGrows
  <2> QED BY <1>1, <1>2, <2>1
<1>5. LastAt(es, K, v)
  BY <1>4 DEF LastAt
<1> QED BY <1>2, <1>3, <1>5, OnItsWayNext

LEMMA TailGrows ==
  ASSUME LogInv, [Next]_cacheVars
  PROVE  simulationTail <= simulationTail'
<1>1. simulationTail \in Nat
  BY DEF LogInv, IInv, TypeOK
<1>2. CASE Write
  BY <1>1, <1>2, WriteTells DEF LogInv, IInv, GroupsTold, GroupsUntouched
<1>3. CASE ~Write
  BY <1>1, <1>3 DEF Next, SendGroupUpdate, SendSimulationUpdate, cacheVars
<1> QED BY <1>2, <1>3

LEMMA StillKeeps ==
  ASSUME LogInv, [Next]_cacheVars, SubscriberTypeOK, NEW s \in Subscribers,
         SubscriberInv(s), SubscriberStill(s)
  PROVE  SubscriberInv(s)'
<1>1. Shape(s) /\ Delivers(s) /\ UpToDate(s)
  BY DEF SubscriberInv
<1>2. Shape(s)'
  <2>1. simulationTail <= simulationTail' /\ sequence <= sequence'
    BY TailGrows, LogsGrow
  <2>2. /\ task[s].received \in Nat /\ task[s].snapshot_sequence \in Nat
        /\ simulationTail \in Nat /\ simulationTail' \in Nat
        /\ sequence \in Nat /\ sequence' \in Nat
    <3>1. TypeOK /\ TypeOK'
      BY NextLogInv DEF LogInv, IInv
    <3> QED BY <3>1, TaskType DEF TypeOK
  <2>3. task[s].received <= simulationTail' /\ task[s].snapshot_sequence <= sequence'
    BY <1>1, <2>1, <2>2 DEF Shape
  <2> QED BY <1>1, <2>3 DEF Shape, SubscriberStill
<1>3. Delivers(s)'
  <2>1. \A m : Sound(s, m) => Sound(s, m)'
    BY SoundKept
  <2>2. Pending(s)' = Pending(s)
    BY DEF Pending, SubscriberStill
  <2> QED BY <1>1, <2>1, <2>2 DEF Delivers, SubscriberStill
<1>4. UpToDate(s)'
  <2> SUFFICES ASSUME task'[s].pc \in {"forwarding", "sending"},
                      client'[s].connected
               PROVE  OnItsWay(s, simulation_state)'
    BY DEF UpToDate
  <2>1. OnItsWay(s, simulation_state)
    BY <1>1 DEF UpToDate, SubscriberStill
  <2>2. PICK v : v = simulation_state'
    OBVIOUS
  <2>3. CASE UNCHANGED <<simulation_state, simulationUpdates>>
    <3>1. OnItsWay(s, v)'
      BY <1>1, <2>1, <2>2, <2>3, StaysOnItsWay
    <3> QED BY <2>2, <3>1
  <2>4. CASE /\ Len(simulationUpdates') = Len(simulationUpdates) + 1
             /\ simulationUpdates'[Len(simulationUpdates) + 1].state
                  = simulation_state'
    <3>1. OnItsWay(s, v)'
      BY <1>1, <2>2, <2>4, ToldOnItsWay
    <3> QED BY <2>2, <3>1
  <2> QED BY <2>3, <2>4, CacheStepTells
<1> QED BY <1>2, <1>3, <1>4 DEF SubscriberInv

-----------------------------------------------------------------------------
(* A step of the subscriber's own: its messages. *)

PendingOK ==
  \A s \in Subscribers :
    /\ Pending(s) \in Seq({Aborted} \cup SimulationEvent)
    /\ task[s].update = None => Pending(s) = queue[s]
    /\ task[s].update # None => Pending(s) = Append(queue[s], task[s].update)

LEMMA PendingIs == SubscriberTypeOK => PendingOK
<1> SUFFICES ASSUME SubscriberTypeOK, NEW s \in Subscribers
             PROVE  /\ Pending(s) \in Seq({Aborted} \cup SimulationEvent)
                    /\ task[s].update = None => Pending(s) = queue[s]
                    /\ task[s].update # None =>
                         Pending(s) = Append(queue[s], task[s].update)
  BY DEF PendingOK
<1> DEFINE Message == {Aborted} \cup SimulationEvent
<1>1. queue[s] \in Seq(Message) /\ task[s].update \in SimulationEvent \cup {None}
  BY TaskType
<1>2. CASE task[s].update = None
  BY <1>1, <1>2, ConcatEmptySeq DEF Pending
<1>3. CASE task[s].update # None
  <2>1. task[s].update \in Message
    BY <1>1, <1>3
  <2>2. Append(queue[s], task[s].update) = queue[s] \o <<task[s].update>>
    BY <1>1, <2>1, AppendIsConcat
  <2>3. Pending(s) = Append(queue[s], task[s].update)
    BY <2>2, <1>3 DEF Pending
  <2> QED BY <1>1, <1>3, <2>1, <2>3, AppendProperties
<1> QED BY <1>2, <1>3

LEMMA PendingIsNext == SubscriberTypeOK' => PendingOK'
BY PendingIs, PTL

\* The subscriber moves on, the cache does not.
OwnStep(s) ==
  /\ UNCHANGED cacheVars
  /\ task'[s].received >= task[s].received
  /\ task'[s].snapshot_sequence = task[s].snapshot_sequence

LEMMA OwnSound ==
  ASSUME SubscriberTypeOK, SubscriberTypeOK', NEW s \in Subscribers, OwnStep(s),
         NEW m, Sound(s, m)
  PROVE  Sound(s, m)'
<1>1. UNCHANGED <<simulationUpdates, sequence>>
  BY DEF OwnStep, cacheVars
<1>2. StateAt(m.sequence)' = StateAt(m.sequence)
  BY <1>1 DEF StateAt
<1>3. Truthful(m)'
  BY <1>1, <1>2 DEF Sound, Truthful
<1>4. Older(s, m)'
  <2>1. task[s].received \in Nat /\ task'[s].received \in Nat
    BY TaskType, TaskTypeNext DEF TasksOK
  <2>2. \A i \in task'[s].received+1 .. Len(simulationUpdates) :
          i \in task[s].received+1 .. Len(simulationUpdates)
    BY <2>1 DEF OwnStep
  <2> QED BY <1>1, <2>2 DEF Sound, Older, Forward!InSnapshot, OwnStep
<1> QED BY <1>3, <1>4 DEF Sound

LEMMA QuietDelivers ==
  ASSUME SubscriberTypeOK, SubscriberTypeOK', NEW s \in Subscribers, OwnStep(s),
         Delivers(s), view'[s] = view[s], task'[s].snapshot = task[s].snapshot,
         client'[s].connected =>
           client[s].connected /\ Pending(s)' \in {Pending(s), <<>>}
  PROVE  Delivers(s)'
<1>1. \A m : Sound(s, m) => Sound(s, m)'
  BY OwnSound
<1>2. \A m \in SimulationEvent : view'[s] = m => Sound(s, m)'
  BY <1>1 DEF Delivers
<1>3. \A m \in task'[s].snapshot :
        /\ Sound(s, m)' /\ view'[s] = None
        /\ \A n \in task'[s].snapshot : n = m
  BY <1>1 DEF Delivers
<1>4. CASE client'[s].connected
  <2>1. CASE Pending(s)' = Pending(s)
    BY <1>1, <1>2, <1>3, <1>4, <2>1 DEF Delivers
  <2>2. CASE Pending(s)' = <<>>
    <3>1. DOMAIN <<>> = {}
      OBVIOUS
    <3> QED BY <1>2, <1>3, <2>2, <3>1 DEF Delivers, InOrder
  <2> QED BY <1>4, <2>1, <2>2
<1>5. CASE ~client'[s].connected
  BY <1>2, <1>3, <1>5 DEF Delivers
<1> QED BY <1>4, <1>5

LEMMA AppendDelivers ==
  ASSUME SubscriberTypeOK, SubscriberTypeOK', NEW s \in Subscribers, OwnStep(s),
         Delivers(s), client[s].connected, view'[s] = view[s],
         task'[s].snapshot \subseteq task[s].snapshot,
         NEW e \in {Aborted} \cup SimulationEvent,
         Pending(s)' = Append(Pending(s), e),
         e # Aborted => Sound(s, e)' /\ task'[s].snapshot = {},
         e # Aborted => \A m \in SimulationEvent :
           /\ view[s] = m => m.sequence < e.sequence
           /\ \A i \in DOMAIN Pending(s) :
                Pending(s)[i] = m => m.sequence < e.sequence,
         \A i \in DOMAIN Pending(s) : Pending(s)[i] # Aborted
  PROVE  Delivers(s)'
<1> DEFINE Message == {Aborted} \cup SimulationEvent
<1>1. \A m : Sound(s, m) => Sound(s, m)'
  BY OwnSound
<1>2. PICK q \in Seq(Message) : q = Pending(s)
  BY PendingIs DEF PendingOK
<1>3. /\ Len(q) \in Nat /\ DOMAIN q = 1..Len(q)
      /\ DOMAIN Append(q, e) = 1..Len(q)+1
      /\ \A i \in 1..Len(q) : Append(q, e)[i] = q[i] /\ q[i] \in Message
      /\ Append(q, e)[Len(q) + 1] = e
  BY AppendElements, ElementOfSeq
<1>4. \A i \in 1..Len(q) : \A m \in SimulationEvent : q[i] = m => Sound(s, m)'
  BY <1>1, <1>2, <1>3 DEF Delivers
<1>5. e \in SimulationEvent => Sound(s, e)'
  BY SimulationUpdatesAssumption
<1>6. \A i \in 1..Len(q)+1 : \A m \in SimulationEvent :
        Append(q, e)[i] = m => Sound(s, m)'
  <2> SUFFICES ASSUME NEW i \in 1..Len(q)+1, NEW m \in SimulationEvent,
                      Append(q, e)[i] = m
               PROVE  Sound(s, m)'
    OBVIOUS
  <2>1. CASE i \in 1..Len(q)
    BY <1>3, <1>4, <2>1
  <2>2. CASE i = Len(q) + 1
    <3>1. m = e
      BY <1>3, <2>2
    <3> QED BY <1>5, <3>1
  <2> QED BY <1>3, <2>1, <2>2
<1>7. InOrder(Append(q, e), view[s], task'[s].snapshot)
  <2>1. InOrder(q, view[s], task[s].snapshot)
    BY <1>2 DEF Delivers
  <2>2. e # Aborted => /\ task'[s].snapshot = {}
                       /\ \A i \in 1..Len(q) : q[i].sequence < e.sequence
    <3>1. \A i \in 1..Len(q) : q[i] \in SimulationEvent
      BY <1>2, <1>3
    <3> QED BY <1>2, <1>3, <3>1
  <2>3. e # Aborted /\ view[s] # None => view[s].sequence < e.sequence
    BY TaskType
  <2> QED BY <2>1, <2>2, <2>3, AppendInOrder
<1>8. Pending(s)' = Append(q, e)
  BY <1>2
<1>9. InOrder(Pending(s), view[s], task[s].snapshot)'
  <2>1. InOrder(Pending(s), view[s], task[s].snapshot)'
          <=> InOrder(Append(q, e), view[s], task'[s].snapshot)
    BY <1>8 DEF InOrder
  <2> QED BY <1>7, <2>1
<1>10. \A m \in SimulationEvent : view'[s] = m => Sound(s, m)'
  BY <1>1 DEF Delivers
<1>11. \A m \in task'[s].snapshot :
         /\ Sound(s, m)' /\ view'[s] = None
         /\ \A n \in task'[s].snapshot : n = m
  BY <1>1 DEF Delivers
<1>12. \A i \in DOMAIN Pending(s)', m \in SimulationEvent :
         Pending(s)'[i] = m => Sound(s, m)'
  BY <1>3, <1>6, <1>8
<1> QED BY <1>9, <1>10, <1>11, <1>12 DEF Delivers

\* The client takes the first message.
LEMMA TailDelivers ==
  ASSUME SubscriberTypeOK, SubscriberTypeOK', NEW s \in Subscribers, OwnStep(s),
         Delivers(s), client[s].connected,
         task'[s].snapshot = task[s].snapshot,
         Pending(s) # <<>>, Pending(s)' = Tail(Pending(s)),
         NEW h, h = Head(Pending(s)), h # Aborted,
         view'[s] = h
  PROVE  Delivers(s)'
<1> DEFINE Message == {Aborted} \cup SimulationEvent
<1>1. \A m : Sound(s, m) => Sound(s, m)'
  BY OwnSound
<1>2. PICK q \in Seq(Message) : q = Pending(s)
  BY PendingIs DEF PendingOK
<1>3. /\ Len(q) \in Nat /\ Len(q) > 0 /\ DOMAIN q = 1..Len(q)
      /\ DOMAIN Tail(q) = 1..Len(q)-1
      /\ \A i \in 1..Len(q)-1 : Tail(q)[i] = q[i + 1] /\ i + 1 \in 1..Len(q)
      /\ h = q[1] /\ h \in Message
      /\ \A i \in 1..Len(q) : q[i] \in Message
  BY <1>2, TailElements, ElementOfSeq
<1>4. h \in SimulationEvent /\ 1 \in 1..Len(q)
  BY <1>3
<1>5. Sound(s, h)
  BY <1>2, <1>3, <1>4 DEF Delivers
<1>6. task[s].snapshot = {}
  <2>1. 1 \in DOMAIN Pending(s) /\ Pending(s)[1] = h
    BY <1>2, <1>3
  <2> QED BY <2>1 DEF Delivers, InOrder
<1>7. \A m \in SimulationEvent : view'[s] = m => Sound(s, m)'
  BY <1>1, <1>5
<1>9. ASSUME NEW i \in 1..Len(q)-1, NEW m \in SimulationEvent, Tail(q)[i] = m
      PROVE  Sound(s, m)'
  <2>1. i + 1 \in DOMAIN Pending(s) /\ Pending(s)[i + 1] = m
    BY <1>2, <1>3, <1>9
  <2>2. Sound(s, m)
    BY <2>1 DEF Delivers
  <2> QED BY <1>1, <2>2
<1>10. InOrder(Tail(q), h, task[s].snapshot)
  <2>1. InOrder(q, view[s], task[s].snapshot)
    BY <1>2 DEF Delivers
  <2>2. q # <<>> /\ h = Head(q)
    BY <1>2
  <2> QED BY <2>1, <2>2, TailInOrder
<1>11. InOrder(Pending(s), view[s], task[s].snapshot)'
  <2>1. InOrder(Pending(s), view[s], task[s].snapshot)'
          <=> InOrder(Tail(q), h, task[s].snapshot)
    BY <1>2 DEF InOrder
  <2> QED BY <1>10, <2>1
<1>12. \A i \in DOMAIN Pending(s)', m \in SimulationEvent :
         Pending(s)'[i] = m => Sound(s, m)'
  BY <1>2, <1>3, <1>9
<1> QED BY <1>6, <1>7, <1>11, <1>12 DEF Delivers

\* A snapshot is the state of the cache right then.
LEMMA SnapshotDelivers ==
  ASSUME LogInv, SubscriberTypeOK, SubscriberTypeOK', NEW s \in Subscribers,
         UNCHANGED cacheVars, view'[s] = None, queue'[s] = <<>>,
         task'[s].update = None, task'[s].snapshot = Snapshot,
         task'[s].snapshot_sequence = sequence
  PROVE  Delivers(s)'
<1>0. UNCHANGED <<simulationUpdates, sequence>>
  BY DEF cacheVars
<1>1. /\ Snapshot \subseteq SimulationEvent
      /\ \A m \in Snapshot : m.sequence = sequence /\ m.state = simulation_state
      /\ \A m, n \in Snapshot : m = n
      /\ Snapshot = {} <=> simulation_state = None
  BY SnapshotType DEF LogInv, IInv
<1>2. ASSUME NEW m \in Snapshot PROVE Sound(s, m)'
  <2>1. StateAt(m.sequence) = m.state
    BY <1>1, StateNow
  <2>2. StateAt(m.sequence)' = StateAt(m.sequence)
    BY <1>0 DEF StateAt
  <2>3. sequence \in 1..sequence
    <3>1. simulation_state # None
      BY <1>1
    <3>2. simulationUpdates # <<>>
      BY <3>1 DEF LogInv, SimulationEventsTellState
    <3>3. PICK i \in 1..Len(simulationUpdates) : TRUE
      <4>1. simulationUpdates \in Seq(SimulationEvent)
        BY DEF LogInv, IInv, TypeOK
      <4> QED BY <3>2, <4>1, EmptySeq, NumbersOfEvents
    <3>4. simulationUpdates[i].sequence \in 1..sequence /\ sequence \in Nat
      BY NumbersOfEvents
    <3> QED BY <3>4
  <2>4. Truthful(m)'
    BY <1>0, <1>1, <2>1, <2>2, <2>3 DEF Truthful
  <2>5. Older(s, m)'
    <3>1. task'[s].received \in Nat
      BY TaskTypeNext DEF TasksOK
    <3>2. \A i \in task'[s].received+1 .. Len(simulationUpdates) :
            simulationUpdates[i].sequence <= sequence
      BY <3>1, NumbersOfEvents
    <3> QED BY <1>0, <3>2 DEF Older, Forward!InSnapshot
  <2> QED BY <2>4, <2>5 DEF Sound
<1>3. \A m \in SimulationEvent : view'[s] # m
  BY SimulationUpdatesAssumption
<1>4. Pending(s)' = <<>>
  BY PendingIsNext DEF PendingOK
<1>5. DOMAIN <<>> = {}
  OBVIOUS
<1> QED BY <1>1, <1>2, <1>3, <1>4, <1>5 DEF Delivers, InOrder

\* The event that the task takes from the channel.
LEMMA EventSound ==
  ASSUME LogInv, SubscriberTypeOK, SubscriberTypeOK', NEW s \in Subscribers,
         UNCHANGED cacheVars,
         NEW k \in 1..Len(simulationUpdates), task'[s].received = k,
         NEW e, e = simulationUpdates[k]
  PROVE  Sound(s, e)'
<1>0. UNCHANGED <<simulationUpdates, sequence>>
  BY DEF cacheVars
<1>1. /\ e \in SimulationEvent /\ e.sequence \in 1..sequence
      /\ \A j \in k+1..Len(simulationUpdates) : e.sequence < simulationUpdates[j].sequence
  BY NumbersOfEvents
<1>2. StateAt(e.sequence) = e.state
  BY StateOfEvent
<1>3. StateAt(e.sequence)' = StateAt(e.sequence)
  BY <1>0 DEF StateAt
<1>4. Truthful(e)'
  BY <1>0, <1>1, <1>2, <1>3 DEF Truthful
<1>5. Older(s, e)'
  BY <1>0, <1>1 DEF Older
<1> QED BY <1>4, <1>5 DEF Sound

LEMMA ReceivingMoves ==
  ASSUME SubscriberTypeOK, SubscriberTypeOK', NEW s \in Subscribers,
         queue[s] # <<>>, queue'[s] = Tail(queue[s]), task'[s] = task[s]
  PROVE  /\ Pending(s) # <<>> /\ Pending(s)' = Tail(Pending(s))
         /\ Head(Pending(s)) = Head(queue[s])
<1> DEFINE Message == {Aborted} \cup SimulationEvent
<1>1. queue[s] \in Seq(Message)
  BY TaskType
<1>2. CASE task[s].update = None
  <2>1. Pending(s) = queue[s] /\ Pending(s)' = queue'[s]
    BY <1>2, PendingIs, PendingIsNext DEF PendingOK
  <2> QED BY <2>1
<1>3. CASE task[s].update # None
  <2>1. PICK u \in Message : u = task[s].update
    BY <1>3, TaskType
  <2>2. Pending(s) = Append(queue[s], u) /\ Pending(s)' = Append(Tail(queue[s]), u)
    BY <1>3, <2>1, PendingIs, PendingIsNext DEF PendingOK
  <2>3. /\ Head(Append(queue[s], u)) = Head(queue[s])
        /\ Tail(Append(queue[s], u)) = Append(Tail(queue[s]), u)
        /\ Append(queue[s], u) # <<>>
    BY <1>1, HeadTailAppend, AppendProperties
  <2> QED BY <2>2, <2>3
<1> QED BY <1>2, <1>3

\* Nothing follows an abort.
LEMMA AbortedIsLast ==
  ASSUME SubscriberTypeOK, SubscriberTypeOK', NEW s \in Subscribers, Shape(s),
         client[s].connected, queue[s] # <<>>, Head(queue[s]) = Aborted,
         queue'[s] = Tail(queue[s]), task'[s] = task[s]
  PROVE  Pending(s)' = <<>>
<1> DEFINE Message == {Aborted} \cup SimulationEvent
<1>1. queue[s] \in Seq(Message)
  BY TaskType
<1>2. /\ Len(queue[s]) \in Nat /\ Len(queue[s]) > 0
      /\ DOMAIN queue[s] = 1..Len(queue[s]) /\ Head(queue[s]) = queue[s][1]
      /\ Tail(queue[s]) \in Seq(Message) /\ Len(Tail(queue[s])) = Len(queue[s]) - 1
  BY <1>1, TailElements
<1>3. 1 \in DOMAIN queue[s] /\ queue[s][1] = Aborted
  BY <1>2
<1>4. 1 = Len(queue[s]) /\ task[s].pc = "done"
  BY <1>3 DEF Shape
<1>5. task[s].update = None
  BY <1>4 DEF Shape
<1>6. queue'[s] = <<>>
  <2>1. Len(Tail(queue[s])) = 0
    BY <1>2, <1>4
  <2> QED BY <1>2, <2>1, EmptySeq
<1> QED BY <1>5, <1>6, PendingIsNext DEF PendingOK

LEMMA DeliversKept ==
  ASSUME LogInv, SubscriberTypeOK, SubscriberTypeOK', NEW s \in Subscribers,
         Shape(s), Shape(s)', Delivers(s), SubscriberStep(s),
         UNCHANGED cacheVars
  PROVE  Delivers(s)'
<1> DEFINE Message == {Aborted} \cup SimulationEvent
<1>0. /\ task[s].received \in Nat /\ simulationTail \in Nat
      /\ task[s].received <= simulationTail
  BY TaskType DEF Shape, LogInv, IInv, TypeOK
<1>p. /\ Pending(s) \in Seq(Message)
      /\ task[s].update = None => Pending(s) = queue[s]
      /\ task[s].update # None => Pending(s) = Append(queue[s], task[s].update)
      /\ task'[s].update = None => Pending(s)' = queue'[s]
      /\ task'[s].update # None => Pending(s)' = Append(queue'[s], task'[s].update)
  BY PendingIs, PendingIsNext DEF PendingOK
\* Before an abort, all that is pending are events.
<1>a. ASSUME task[s].pc \in {"forwarding", "aborting"}
      PROVE  /\ task[s].update = None /\ Pending(s) = queue[s]
             /\ \A i \in DOMAIN Pending(s) : Pending(s)[i] # Aborted
  BY <1>a, <1>p DEF Shape
<1>1. CASE Forward!Subscribe(s) /\ UNCHANGED view
  <2>1. /\ task'[s].received = simulationTail /\ QueueStill(s)
        /\ task'[s].snapshot = task[s].snapshot
        /\ task'[s].snapshot_sequence = task[s].snapshot_sequence
        /\ task'[s].update = task[s].update
    BY <1>1, SubscribeDoes
  <2>2. OwnStep(s) /\ Pending(s)' = Pending(s)
    BY <1>0, <2>1 DEF OwnStep, Pending, QueueStill
  <2> QED BY <2>1, <2>2, QuietDelivers DEF QueueStill
<1>2. CASE ReadSnapshot(s) /\ UNCHANGED view
  <2>1. /\ task[s].pc = "subscribed" /\ QueueStill(s)
        /\ task'[s].snapshot = Snapshot
        /\ task'[s].snapshot_sequence = sequence
        /\ task'[s].update = task[s].update
    BY <1>2, ReadSnapshotDoes
  <2>2. /\ view'[s] = None /\ queue'[s] = <<>>
        /\ task'[s].update = None
    BY <2>1 DEF Shape, QueueStill
  <2> QED BY <2>1, <2>2, SnapshotDelivers
<1>3. CASE Receive(s) /\ UNCHANGED view
  <2>e. PICK e : e = Forward!NextUpdate(s)
    OBVIOUS
  <2>k. PICK k \in Nat : k = task[s].received + 1
    BY <1>0
  <2>1. /\ task[s].pc = "forwarding" /\ task[s].snapshot = {}
        /\ task[s].received < simulationTail /\ QueueStill(s)
        /\ task'[s].received = k /\ task'[s].snapshot = {}
        /\ task'[s].snapshot_sequence = task[s].snapshot_sequence
        /\ \/ task'[s].update = task[s].update
           \/ /\ ~Forward!InSnapshot(s, e)
              /\ task'[s].update = e
    BY <1>3, <2>e, <2>k, ReceiveDoes
  <2>2. OwnStep(s)
    BY <1>0, <2>k, <2>1 DEF OwnStep
  <2>3. CASE task'[s].update = task[s].update \/ ~client[s].connected
    BY <2>1, <2>2, <2>3, QuietDelivers DEF QueueStill, Pending
  <2>4. CASE /\ client[s].connected
             /\ ~Forward!InSnapshot(s, e)
             /\ task'[s].update = e
    <3>1. k \in 1..Len(simulationUpdates) /\ e = simulationUpdates[k] /\ e \in SimulationEvent
      BY <2>e, <2>k, <2>1, NextUpdateType DEF LogInv, IInv
    <3>2. Sound(s, e)'
      BY <2>1, <2>4, <3>1, EventSound
    <3>3. ASSUME NEW m, Sound(s, m) PROVE m.sequence < e.sequence
      <4>1. k \in task[s].received+1 .. Len(simulationUpdates)
        BY <1>0, <2>k, <3>1
      <4> QED BY <2>4, <3>1, <3>3, <4>1 DEF Sound, Older
    <3>4. Pending(s)' = Append(Pending(s), e)
      BY <1>a, <1>p, <2>1, <2>4, <3>1, SimulationUpdatesAssumption DEF QueueStill
    <3>5. \A m \in SimulationEvent :
            /\ view[s] = m => m.sequence < e.sequence
            /\ \A i \in DOMAIN Pending(s) :
                 Pending(s)[i] = m => m.sequence < e.sequence
      BY <2>4, <3>3 DEF Delivers
    <3>6. /\ e \in {Aborted} \cup SimulationEvent /\ view'[s] = view[s]
          /\ task'[s].snapshot \subseteq task[s].snapshot /\ task'[s].snapshot = {}
      BY <2>1, <3>1 DEF QueueStill
    <3>7. \A i \in DOMAIN Pending(s) : Pending(s)[i] # Aborted
      BY <1>a, <2>1
    <3> QED BY <2>2, <2>4, <3>2, <3>4, <3>5, <3>6, <3>7, AppendDelivers
  <2> QED BY <2>1, <2>3, <2>4
<1>4. CASE Forward!SendSnapshot(s) /\ UNCHANGED view
  <2>1. /\ task[s].pc = "forwarding" /\ client[s].connected
        /\ view'[s] = view[s] /\ task'[s].received = task[s].received
        /\ task'[s].snapshot_sequence = task[s].snapshot_sequence
        /\ task'[s].update = task[s].update
    BY <1>4, SendSnapshotDoes
  <2>2. PICK m \in task[s].snapshot :
          /\ task'[s].snapshot = task[s].snapshot \ {m}
          /\ queue'[s] = Append(queue[s], m)
    BY <1>4, SendSnapshotDoes
  <2>3. OwnStep(s)
    BY <1>0, <2>1 DEF OwnStep
  <2>4. /\ m \in SimulationEvent /\ Sound(s, m) /\ view[s] = None
        /\ \A n \in task[s].snapshot : n = m
    BY TaskType DEF Delivers
  <2>5. Sound(s, m)' /\ task'[s].snapshot = {}
    BY <2>2, <2>3, <2>4, OwnSound
  <2>6. Pending(s)' = Append(Pending(s), m)
    BY <1>a, <1>p, <2>1, <2>2
  <2>7. \A n \in SimulationEvent :
          /\ view[s] = n => n.sequence < m.sequence
          /\ \A i \in DOMAIN Pending(s) : Pending(s)[i] = n => n.sequence < m.sequence
    <3>1. \A n \in SimulationEvent : view[s] # n
      BY <2>4, SimulationUpdatesAssumption
    <3>2. \A i \in DOMAIN Pending(s) : Pending(s)[i] = Aborted
      BY <2>1 DEF Delivers, InOrder
    <3> QED BY <1>a, <2>1, <3>1, <3>2
  <2>8. task'[s].snapshot \subseteq task[s].snapshot /\ m \in Message
    BY <2>2, <2>4
  <2> QED BY <1>a, <2>1, <2>3, <2>5, <2>6, <2>7, <2>8, AppendDelivers
<1>5. CASE Forward!SendUpdate(s) /\ UNCHANGED view
  <2>1. /\ task[s].pc = "sending" /\ client[s].connected
        /\ view'[s] = view[s] /\ task'[s].received = task[s].received
        /\ task'[s].snapshot = task[s].snapshot
        /\ task'[s].snapshot_sequence = task[s].snapshot_sequence
        /\ task'[s].update = None
        /\ queue'[s] = Append(queue[s], task[s].update)
    BY <1>5, SendUpdateDoes
  <2>2. OwnStep(s)
    BY <1>0, <2>1 DEF OwnStep
  <2>3. Pending(s)' = Pending(s)
    BY <1>p, <2>1 DEF Shape
  <2> QED BY <2>1, <2>2, <2>3, QuietDelivers
<1>6. CASE (Forward!Lag(s) \/ Forward!Closed(s) \/ Forward!ClientGone(s))
             /\ UNCHANGED view
  <2>1. Proceeds(s)
    BY <1>6, StopDoes
  <2>2. OwnStep(s) /\ Pending(s)' = Pending(s)
    BY <1>0, <2>1 DEF OwnStep, Proceeds, QueueStill, Pending
  <2> QED BY <2>1, <2>2, QuietDelivers DEF Proceeds, QueueStill
<1>7. CASE Forward!SendAborted(s) /\ UNCHANGED view
  <2>1. /\ task[s].pc = "aborting" /\ client[s].connected
        /\ view'[s] = view[s] /\ task'[s].received = task[s].received
        /\ task'[s].snapshot = task[s].snapshot
        /\ task'[s].snapshot_sequence = task[s].snapshot_sequence
        /\ task'[s].update = task[s].update
        /\ queue'[s] = Append(queue[s], Aborted)
    BY <1>7, SendAbortedDoes
  <2>2. OwnStep(s)
    BY <1>0, <2>1 DEF OwnStep
  <2>3. Pending(s)' = Append(Pending(s), Aborted)
    BY <1>a, <1>p, <2>1
  <2> QED BY <1>a, <2>1, <2>2, <2>3, AppendDelivers
<1>8. CASE Forward!Disconnect(s) /\ UNCHANGED view
  <2>1. task'[s] = task[s] /\ view'[s] = view[s] /\ ~client'[s].connected
    BY <1>8, DisconnectDoes
  <2>2. OwnStep(s)
    BY <1>0, <2>1 DEF OwnStep
  <2> QED BY <2>1, <2>2, QuietDelivers
<1>9. CASE ClientReceives(s)
  <2>1. /\ client[s].connected /\ queue[s] # <<>> /\ task'[s] = task[s]
        /\ queue'[s] = Tail(queue[s])
        /\ Head(queue[s]) = Aborted => view'[s] = view[s]
        /\ Head(queue[s]) # Aborted =>
             view'[s] = Head(queue[s])
    BY <1>9, ClientReceivesDoes
  <2>2. OwnStep(s)
    BY <1>0, <2>1 DEF OwnStep
  <2>3. /\ Pending(s) # <<>> /\ Pending(s)' = Tail(Pending(s))
        /\ Head(Pending(s)) = Head(queue[s])
    BY <2>1, ReceivingMoves
  <2>4. CASE Head(queue[s]) = Aborted
    <3>1. Pending(s)' = <<>>
      BY <2>1, <2>4, AbortedIsLast
    <3> QED BY <2>1, <2>2, <2>4, <3>1, QuietDelivers
  <2>5. CASE Head(queue[s]) # Aborted
    BY <2>1, <2>2, <2>3, <2>5, TailDelivers
  <2> QED BY <2>4, <2>5
<1> QED BY <1>1, <1>2, <1>3, <1>4, <1>5, <1>6, <1>7, <1>8, <1>9
        DEF SubscriberStep, TaskStep, Forward!ForwardStep

-----------------------------------------------------------------------------
(* A step of the subscriber's own: what is on its way to the client. *)

LEMMA ToComeMoves ==
  ASSUME LogInv, SubscriberTypeOK, NEW s \in Subscribers, OwnStep(s)
  PROVE  /\ task'[s].received = task[s].received => ToCome(s)' = ToCome(s)
         /\ task'[s].received = task[s].received + 1 =>
              ToCome(s)' = ToCome(s) \ {task[s].received + 1}
         /\ \A i \in ToCome(s) :
              i \in 1..Len(simulationUpdates) /\ i >= task[s].received + 1
<1>1. UNCHANGED <<simulationUpdates, sequence>>
  BY DEF OwnStep, cacheVars
<1>2. task[s].received \in Nat /\ Len(simulationUpdates) \in Nat
  BY TaskType, NumbersOfEvents
<1>3. PICK n \in Nat : n = task[s].received
  BY <1>2
<1> DEFINE Comes(i) == ~(simulationUpdates[i].sequence <= task[s].snapshot_sequence)
<1>4. ToCome(s) = {i \in n+1 .. Len(simulationUpdates) : Comes(i)}
  BY <1>3 DEF ToCome, Forward!InSnapshot
<1>5. ASSUME NEW k \in Nat, k = task'[s].received
      PROVE  ToCome(s)' = {i \in k+1 .. Len(simulationUpdates) : Comes(i)}
  BY <1>1, <1>5 DEF ToCome, Forward!InSnapshot, OwnStep
<1> HIDE DEF Comes
<1>6. task'[s].received = n => ToCome(s)' = ToCome(s)
  BY <1>4, <1>5
<1>7. ASSUME task'[s].received = n + 1
      PROVE  ToCome(s)' = ToCome(s) \ {n + 1}
  <2>1. ToCome(s)' = {i \in n+1+1 .. Len(simulationUpdates) : Comes(i)}
    BY <1>5, <1>7
  <2>2. n+1+1 .. Len(simulationUpdates) = (n+1 .. Len(simulationUpdates)) \ {n + 1}
    BY <1>2
  <2> QED BY <1>4, <2>1, <2>2
<1>8. \A i \in ToCome(s) : i \in 1..Len(simulationUpdates) /\ i >= n + 1
  BY <1>2, <1>4
<1> QED BY <1>3, <1>6, <1>7, <1>8

LEMMA AppendEnds ==
  ASSUME NEW S, NEW q \in Seq(S), NEW e \in S
  PROVE  Ends(Append(q, e), e.state)
BY AppendElements, AppendProperties DEF Ends

LEMMA TailEnds ==
  ASSUME NEW S, NEW q \in Seq(S), q # <<>>, NEW v, Ends(q, v)
  PROVE  Ends(Tail(q), v) \/ (Tail(q) = <<>> /\ Head(q).state = v)
<1> DEFINE tq == Tail(q)
<1>1. /\ tq \in Seq(S) /\ Len(q) \in Nat /\ Len(q) > 0 /\ Len(tq) = Len(q) - 1
      /\ \A i \in 1..Len(q)-1 : tq[i] = q[i + 1]
      /\ Head(q) = q[1]
  BY TailElements
<1> HIDE DEF tq
<1>2. q[Len(q)].state = v
  BY DEF Ends
<1>3. CASE Len(q) = 1
  <2>1. Len(tq) = 0 /\ Head(q).state = v
    BY <1>1, <1>2, <1>3
  <2>2. tq = <<>>
    BY <1>1, <2>1, EmptySeq
  <2> QED BY <2>1, <2>2 DEF tq
<1>4. CASE Len(q) > 1
  <2>1. tq[Len(tq)] = q[Len(q)] /\ Len(tq) # 0
    BY <1>1, <1>4
  <2>2. tq # <<>>
    BY <2>1
  <2> QED BY <1>2, <2>1, <2>2 DEF Ends, tq
<1> QED BY <1>1, <1>3, <1>4

LEMMA QuietOnItsWay ==
  ASSUME NEW s \in Subscribers, NEW v, OnItsWay(s, v),
         simulationUpdates' = simulationUpdates, ToCome(s)' = ToCome(s),
         Pending(s)' = Pending(s), view'[s] = view[s],
         task'[s].snapshot = task[s].snapshot
  PROVE  OnItsWay(s, v)'
BY DEF OnItsWay, LastAt, Ends, Shows

\* The task takes the next event in its hand.
LEMMA TakeOnItsWay ==
  ASSUME SubscriberTypeOK, NEW s \in Subscribers, NEW v, OnItsWay(s, v),
         simulationUpdates' = simulationUpdates,
         NEW k \in ToCome(s), NEW e \in SimulationEvent, e = simulationUpdates[k],
         \A i \in ToCome(s) : i >= k, ToCome(s) \subseteq Nat,
         ToCome(s)' = ToCome(s) \ {k}, Pending(s)' = Append(Pending(s), e)
  PROVE  OnItsWay(s, v)'
<1>1. PICK q \in Seq({Aborted} \cup SimulationEvent) : q = Pending(s)
  BY PendingIs DEF PendingOK
<1>2. PICK K : K = ToCome(s)
  OBVIOUS
<1>3. ToCome(s)' = K \ {k} /\ Pending(s)' = Append(q, e)
  BY <1>1, <1>2
<1>4. /\ LastAt(simulationUpdates, K \ {k}, v) => OnItsWay(s, v)'
      /\ K \ {k} = {} /\ Ends(Append(q, e), v) => OnItsWay(s, v)'
  BY <1>3, OnItsWayNext
<1>5. Ends(Append(q, e), e.state)
  BY <1>1, AppendEnds
<1>6. LastAt(simulationUpdates, K, v)
  BY <1>2 DEF OnItsWay
<1>7. PICK i \in K : simulationUpdates[i].state = v /\ \A j \in K : j <= i
  BY <1>6 DEF LastAt
<1>8. CASE i = k
  <2>1. K \ {k} = {}
    <3>1. \A j \in K : j = k
      <4>1. \A j \in K : j \in Nat /\ j >= k /\ j <= k
        BY <1>2, <1>7, <1>8
      <4> QED BY <1>2, <4>1
    <3> QED BY <3>1
  <2> QED BY <1>4, <1>5, <1>7, <1>8, <2>1
<1>9. CASE i # k
  BY <1>4, <1>7, <1>9 DEF LastAt
<1> QED BY <1>8, <1>9

\* The task sends the message of the snapshot.
LEMMA SendOnItsWay ==
  ASSUME SubscriberTypeOK, NEW s \in Subscribers, Delivers(s),
         NEW v, OnItsWay(s, v), client[s].connected,
         simulationUpdates' = simulationUpdates, ToCome(s)' = ToCome(s),
         NEW m \in task[s].snapshot, Pending(s)' = Append(Pending(s), m),
         \A i \in DOMAIN Pending(s) : Pending(s)[i] # Aborted
  PROVE  OnItsWay(s, v)'
<1>1. PICK q \in Seq({Aborted} \cup SimulationEvent) : q = Pending(s)
  BY PendingIs DEF PendingOK
<1>2. m \in {Aborted} \cup SimulationEvent /\ Pending(s)' = Append(q, m)
  BY <1>1, TaskType
<1>3. /\ LastAt(simulationUpdates, ToCome(s), v) => OnItsWay(s, v)'
      /\ ToCome(s) = {} /\ Ends(Append(q, m), v) => OnItsWay(s, v)'
  BY <1>2, OnItsWayNext
<1>4. Ends(Append(q, m), m.state)
  BY <1>1, <1>2, AppendEnds
<1>5. ~Ends(q, v)
  <2>1. DOMAIN q = 1..Len(q) /\ Len(q) \in Nat
    BY <1>1, LenProperties
  <2>2. \A i \in DOMAIN q : FALSE
    BY <1>1 DEF Delivers, InOrder
  <2>3. q = <<>>
    <3>1. Len(q) = 0
      BY <2>1, <2>2
    <3> QED BY <1>1, <3>1, EmptySeq
  <2> QED BY <2>3 DEF Ends
<1>6. Shows(view[s], task[s].snapshot, v) => m.state = v
  BY DEF Shows, Delivers
<1> QED BY <1>1, <1>3, <1>4, <1>5, <1>6 DEF OnItsWay

\* The client takes the first message.
LEMMA ReceiveOnItsWay ==
  ASSUME SubscriberTypeOK, NEW s \in Subscribers, Delivers(s),
         NEW v, OnItsWay(s, v), client[s].connected,
         simulationUpdates' = simulationUpdates, ToCome(s)' = ToCome(s),
         task'[s].snapshot = task[s].snapshot,
         Pending(s) # <<>>, Pending(s)' = Tail(Pending(s)),
         NEW h, h = Head(Pending(s)), h # Aborted, view'[s] = h
  PROVE  OnItsWay(s, v)'
<1>1. PICK q \in Seq({Aborted} \cup SimulationEvent) : q = Pending(s)
  BY PendingIs DEF PendingOK
<1>2. /\ Pending(s)' = Tail(q) /\ q # <<>> /\ h = Head(q)
      /\ 1 \in DOMAIN q /\ q[1] = h /\ h \in SimulationEvent
  BY <1>1, TailElements
<1>3. /\ LastAt(simulationUpdates, ToCome(s), v) => OnItsWay(s, v)'
      /\ ToCome(s) = {} /\ Ends(Tail(q), v) => OnItsWay(s, v)'
      /\ ToCome(s) = {} /\ Tail(q) = <<>> /\ Shows(h, task[s].snapshot, v)
           => OnItsWay(s, v)'
  BY <1>2, OnItsWayNext
<1>4. Ends(q, v) => Ends(Tail(q), v) \/ (Tail(q) = <<>> /\ h.state = v)
  BY <1>1, <1>2, TailEnds
<1>5. h.state = v => Shows(h, task[s].snapshot, v)
  <2>1. task[s].snapshot = {}
    BY <1>1, <1>2 DEF Delivers, InOrder
  <2>2. h # None
    BY <1>2, SimulationUpdatesAssumption
  <2> QED BY <2>1, <2>2 DEF Shows
<1> QED BY <1>1, <1>2, <1>3, <1>4, <1>5 DEF OnItsWay

\* A snapshot is all that is on its way at first.
LEMMA SnapshotOnItsWay ==
  ASSUME LogInv, SubscriberTypeOK, SubscriberTypeOK', NEW s \in Subscribers,
         UNCHANGED cacheVars, view'[s] = None, queue'[s] = <<>>,
         task'[s].update = None, task'[s].snapshot = Snapshot,
         task'[s].snapshot_sequence = sequence
  PROVE  OnItsWay(s, simulation_state)'
<1>0. UNCHANGED <<simulationUpdates, sequence, simulation_state>>
  BY DEF cacheVars, simulationVars
<1>1. PICK v : v = simulation_state
  OBVIOUS
<1>2. ToCome(s)' = {}
  <2>1. task'[s].received \in Nat
    BY TaskTypeNext DEF TasksOK
  <2>2. \A i \in task'[s].received+1 .. Len(simulationUpdates) :
          simulationUpdates[i].sequence <= sequence
    BY <2>1, NumbersOfEvents
  <2> QED BY <1>0, <2>2 DEF ToCome, Forward!InSnapshot
<1>3. Pending(s)' = <<>>
  BY PendingIsNext DEF PendingOK
<1>4. Shows(None, Snapshot, v)
  BY <1>1, SnapshotType DEF Shows, LogInv, IInv
<1>5. PICK w : w = view'[s] /\ w = None
  OBVIOUS
<1>6. PICK sn : sn = task'[s].snapshot /\ sn = Snapshot
  OBVIOUS
<1>7. Shows(w, sn, v)
  BY <1>4, <1>5, <1>6
<1>8. OnItsWay(s, v)'
  BY <1>2, <1>3, <1>5, <1>6, <1>7, OnItsWayNext
<1> QED BY <1>0, <1>1, <1>8

LEMMA UpToDateKept ==
  ASSUME LogInv, SubscriberTypeOK, SubscriberTypeOK', NEW s \in Subscribers,
         Shape(s), Shape(s)', Delivers(s), UpToDate(s), SubscriberStep(s),
         UNCHANGED cacheVars
  PROVE  UpToDate(s)'
<1> SUFFICES ASSUME task'[s].pc \in {"forwarding", "sending"},
                    client'[s].connected
             PROVE  OnItsWay(s, simulation_state)'
  BY DEF UpToDate
<1> DEFINE Message == {Aborted} \cup SimulationEvent
<1>0. /\ task[s].received \in Nat /\ simulationTail \in Nat
      /\ task[s].received <= simulationTail
  BY TaskType DEF Shape, LogInv, IInv, TypeOK
<1>g. simulationUpdates' = simulationUpdates
  BY DEF cacheVars
<1>p. /\ task[s].update = None => Pending(s) = queue[s]
      /\ task[s].update # None => Pending(s) = Append(queue[s], task[s].update)
      /\ task'[s].update = None => Pending(s)' = queue'[s]
      /\ task'[s].update # None => Pending(s)' = Append(queue'[s], task'[s].update)
  BY PendingIs, PendingIsNext DEF PendingOK
<1>a. ASSUME task[s].pc = "forwarding"
      PROVE  /\ task[s].update = None /\ Pending(s) = queue[s]
             /\ \A i \in DOMAIN Pending(s) : Pending(s)[i] # Aborted
  BY <1>a, <1>p DEF Shape
<1>v. PICK v : v = simulation_state
  OBVIOUS
<1>w. simulation_state' = v
  BY <1>v DEF cacheVars, simulationVars
<1>b. task[s].pc \in {"forwarding", "sending"} /\ client[s].connected
        => OnItsWay(s, v)
  BY <1>v DEF UpToDate
<1>1. CASE Forward!Subscribe(s) /\ UNCHANGED view
  BY <1>1, SubscribeDoes
<1>2. CASE ReadSnapshot(s) /\ UNCHANGED view
  <2>1. /\ task[s].pc = "subscribed" /\ QueueStill(s)
        /\ task'[s].snapshot = Snapshot
        /\ task'[s].snapshot_sequence = sequence
        /\ task'[s].update = task[s].update
    BY <1>2, ReadSnapshotDoes
  <2>2. /\ view'[s] = None /\ queue'[s] = <<>>
        /\ task'[s].update = None
    BY <2>1 DEF Shape, QueueStill
  <2> QED BY <2>1, <2>2, SnapshotOnItsWay
<1>3. CASE Receive(s) /\ UNCHANGED view
  <2>e. PICK e : e = Forward!NextUpdate(s)
    OBVIOUS
  <2>k. PICK k \in Nat : k = task[s].received + 1
    BY <1>0
  <2>1. /\ task[s].pc = "forwarding" /\ task[s].snapshot = {}
        /\ task[s].received < simulationTail /\ QueueStill(s)
        /\ task'[s].received = task[s].received + 1 /\ task'[s].snapshot = {}
        /\ task'[s].snapshot_sequence = task[s].snapshot_sequence
        /\ \/ /\ Forward!InSnapshot(s, e)
              /\ task'[s].update = task[s].update
           \/ /\ ~Forward!InSnapshot(s, e)
              /\ task'[s].update = e
    BY <1>3, <2>e, ReceiveDoes
  <2>2. OwnStep(s)
    BY <1>0, <2>1 DEF OwnStep
  <2>3. k \in 1..Len(simulationUpdates) /\ e = simulationUpdates[k] /\ e \in SimulationEvent
    BY <2>e, <2>k, <2>1, NextUpdateType DEF LogInv, IInv
  <2>4. /\ ToCome(s)' = ToCome(s) \ {k}
        /\ \A i \in ToCome(s) : i \in 1..Len(simulationUpdates) /\ i >= k
    BY <2>1, <2>2, <2>k, ToComeMoves
  <2>5. k \in ToCome(s) <=> ~Forward!InSnapshot(s, e)
    <3>1. k \in task[s].received+1 .. Len(simulationUpdates)
      BY <1>0, <2>k, <2>3
    <3> QED BY <2>3, <3>1 DEF ToCome
  <2>6. client[s].connected /\ view'[s] = view[s]
    BY <2>1 DEF QueueStill
  <2>7. OnItsWay(s, v)
    BY <1>b, <2>1, <2>6
  <2>8. CASE Forward!InSnapshot(s, e) /\ task'[s].update = task[s].update
    <3>1. ToCome(s)' = ToCome(s)
      BY <2>4, <2>5, <2>8
    <3>2. Pending(s)' = Pending(s)
      BY <2>1, <2>8 DEF Pending, QueueStill
    <3>3. OnItsWay(s, v)'
      BY <1>g, <2>1, <2>6, <2>7, <3>1, <3>2, QuietOnItsWay
    <3> QED BY <1>w, <3>3
  <2>9. CASE /\ ~Forward!InSnapshot(s, e)
             /\ task'[s].update = e
    <3>1. Pending(s)' = Append(Pending(s), e)
      BY <1>a, <1>p, <2>1, <2>9, <2>3, SimulationUpdatesAssumption DEF QueueStill
    <3>2. k \in ToCome(s)
      BY <2>5, <2>9
    <3>3. (\A i \in ToCome(s) : i >= k) /\ ToCome(s) \subseteq Nat
      BY <2>4
    <3>4. OnItsWay(s, v)'
      BY <1>g, <2>1, <2>3, <2>4, <2>6, <2>7, <3>1, <3>2, <3>3, TakeOnItsWay
    <3> QED BY <1>w, <3>4
  <2> QED BY <2>1, <2>8, <2>9
<1>4. CASE Forward!SendSnapshot(s) /\ UNCHANGED view
  <2>1. /\ task[s].pc = "forwarding" /\ client[s].connected
        /\ view'[s] = view[s] /\ task'[s].received = task[s].received
        /\ task'[s].snapshot_sequence = task[s].snapshot_sequence
        /\ task'[s].update = task[s].update
    BY <1>4, SendSnapshotDoes
  <2>2. PICK m \in task[s].snapshot :
          /\ task'[s].snapshot = task[s].snapshot \ {m}
          /\ queue'[s] = Append(queue[s], m)
    BY <1>4, SendSnapshotDoes
  <2>3. OwnStep(s)
    BY <1>0, <2>1 DEF OwnStep
  <2>4. ToCome(s)' = ToCome(s)
    BY <2>1, <2>3, ToComeMoves
  <2>5. Pending(s)' = Append(Pending(s), m)
    BY <1>a, <1>p, <2>1, <2>2
  <2>6. OnItsWay(s, v)
    BY <1>b, <2>1
  <2>7. OnItsWay(s, v)'
    BY <1>a, <1>g, <2>1, <2>2, <2>4, <2>5, <2>6, SendOnItsWay
  <2> QED BY <1>w, <2>7
<1>5. CASE Forward!SendUpdate(s) /\ UNCHANGED view
  <2>1. /\ task[s].pc = "sending" /\ client[s].connected
        /\ view'[s] = view[s] /\ task'[s].received = task[s].received
        /\ task'[s].snapshot = task[s].snapshot
        /\ task'[s].snapshot_sequence = task[s].snapshot_sequence
        /\ task'[s].update = None
        /\ queue'[s] = Append(queue[s], task[s].update)
    BY <1>5, SendUpdateDoes
  <2>2. OwnStep(s)
    BY <1>0, <2>1 DEF OwnStep
  <2>3. Pending(s)' = Pending(s) /\ ToCome(s)' = ToCome(s)
    BY <1>p, <2>1, <2>2, ToComeMoves DEF Shape
  <2>4. OnItsWay(s, v)'
    BY <1>b, <1>g, <2>1, <2>3, QuietOnItsWay
  <2> QED BY <1>w, <2>4
<1>6. CASE (Forward!Lag(s) \/ Forward!Closed(s) \/ Forward!ClientGone(s))
             /\ UNCHANGED view
  BY <1>6, StopDoes
<1>7. CASE Forward!SendAborted(s) /\ UNCHANGED view
  BY <1>7, SendAbortedDoes
<1>8. CASE Forward!Disconnect(s) /\ UNCHANGED view
  BY <1>8, DisconnectDoes
<1>9. CASE ClientReceives(s)
  <2>1. /\ client[s].connected /\ queue[s] # <<>> /\ task'[s] = task[s]
        /\ queue'[s] = Tail(queue[s])
        /\ Head(queue[s]) # Aborted =>
             view'[s] = Head(queue[s])
    BY <1>9, ClientReceivesDoes
  <2>2. OwnStep(s)
    BY <1>0, <2>1 DEF OwnStep
  <2>3. /\ Pending(s) # <<>> /\ Pending(s)' = Tail(Pending(s))
        /\ Head(Pending(s)) = Head(queue[s])
    BY <2>1, ReceivingMoves
  <2>4. Head(queue[s]) # Aborted
    <3>1. 1 \in DOMAIN queue[s] /\ Head(queue[s]) = queue[s][1]
      BY <2>1, TaskType, TailElements
    <3> QED BY <2>1, <3>1 DEF Shape
  <2>5. ToCome(s)' = ToCome(s)
    BY <2>1, <2>2, ToComeMoves
  <2>6. OnItsWay(s, v)
    BY <1>b, <2>1
  <2>7. OnItsWay(s, v)'
    BY <1>g, <2>1, <2>3, <2>4, <2>5, <2>6, ReceiveOnItsWay
  <2> QED BY <1>w, <2>7
<1> QED BY <1>1, <1>2, <1>3, <1>4, <1>5, <1>6, <1>7, <1>8, <1>9
        DEF SubscriberStep, TaskStep, Forward!ForwardStep

LEMMA SubscriberStepOthers ==
  ASSUME SubscriberTypeOK, NEW s \in Subscribers, SubscriberStep(s)
  PROVE  OthersStill(s)
<1>1. CASE Forward!Subscribe(s) /\ UNCHANGED view
  BY <1>1, SubscribeDoes DEF QueueStill
<1>2. CASE ReadSnapshot(s) /\ UNCHANGED view
  BY <1>2, ReadSnapshotDoes DEF QueueStill
<1>3. CASE Receive(s) /\ UNCHANGED view
  BY <1>3, ReceiveDoes DEF QueueStill
<1>4. CASE Forward!SendSnapshot(s) /\ UNCHANGED view
  BY <1>4, SendSnapshotDoes
<1>5. CASE Forward!SendUpdate(s) /\ UNCHANGED view
  BY <1>5, SendUpdateDoes
<1>6. CASE (Forward!Lag(s) \/ Forward!Closed(s) \/ Forward!ClientGone(s))
             /\ UNCHANGED view
  BY <1>6, StopDoes DEF Proceeds, QueueStill
<1>7. CASE Forward!SendAborted(s) /\ UNCHANGED view
  BY <1>7, SendAbortedDoes
<1>8. CASE Forward!Disconnect(s) /\ UNCHANGED view
  BY <1>8, DisconnectDoes
<1>9. CASE ClientReceives(s)
  BY <1>9, ClientReceivesDoes
<1> QED BY <1>1, <1>2, <1>3, <1>4, <1>5, <1>6, <1>7, <1>8, <1>9
        DEF SubscriberStep, TaskStep, Forward!ForwardStep

-----------------------------------------------------------------------------
(* The invariant holds. *)

LEMMA InitSimulationUpdatesInv == SimulationUpdatesInit => SimulationUpdatesInv
<1> SUFFICES ASSUME SimulationUpdatesInit PROVE SimulationUpdatesInv
  OBVIOUS
<1>1. LogInv
  BY InitLogInv DEF SimulationUpdatesInit
<1>2. SubscriberTypeOK
  <2>1. \A s \in Subscribers : queue[s] = <<>> /\ Len(queue[s]) <= QueueCapacity
    BY SimulationUpdatesAssumption DEF SimulationUpdatesInit, Forward!Init
  <2>2. task \in [Subscribers -> Forward!Task(SimulationEvent)]
    BY DEF SimulationUpdatesInit, Forward!Init, Forward!Task
  <2>3. queue \in [Subscribers -> Seq({Aborted} \cup SimulationEvent)]
    <3>1. <<>> \in Seq({Aborted} \cup SimulationEvent)
      OBVIOUS
    <3> QED BY <3>1 DEF SimulationUpdatesInit, Forward!Init
  <2>4. client \in [Subscribers -> Forward!Client] /\ cacheDropped \in BOOLEAN
    BY DEF SimulationUpdatesInit, Forward!Init, Forward!Client
  <2>5. view \in [Subscribers -> SimulationEvent \cup {None}]
    BY DEF SimulationUpdatesInit
  <2> QED BY <2>1, <2>2, <2>3, <2>4, <2>5 DEF SubscriberTypeOK, Forward!TypeOK
<1>3. ASSUME NEW s \in Subscribers PROVE SubscriberInv(s)
  <2>1. /\ task[s] = [pc |-> "idle", received |-> 0, snapshot |-> {},
                      snapshot_sequence |-> 0, update |-> None]
        /\ queue[s] = <<>>
        /\ client[s] = [connected |-> TRUE, aborted |-> FALSE]
        /\ view[s] = None
    BY <1>2 DEF SimulationUpdatesInit, Forward!Init
  <2>2. sequence = 0 /\ simulationTail = 0
    BY DEF SimulationUpdatesInit, Init
  <2>3. Shape(s)
    BY <2>1, <2>2 DEF Shape
  <2>4. Pending(s) = <<>>
    BY <1>2, <2>1, PendingIs DEF PendingOK
  <2>5. \A m \in SimulationEvent : view[s] # m
    BY <2>1, SimulationUpdatesAssumption
  <2>6. Delivers(s)
    BY <2>1, <2>4, <2>5 DEF Delivers, InOrder
  <2> QED BY <2>1, <2>3, <2>6 DEF SubscriberInv, UpToDate
<1> QED BY <1>1, <1>2, <1>3 DEF SimulationUpdatesInv

LEMMA StepSimulationUpdatesInv ==
  ASSUME SimulationUpdatesInv, SimulationUpdatesNext
  PROVE  SimulationUpdatesInv'
<1>1. /\ LogInv /\ SubscriberTypeOK
      /\ \A s \in Subscribers : SubscriberInv(s)
  BY DEF SimulationUpdatesInv
<1>2. [Next]_cacheVars
  BY DEF SimulationUpdatesNext, CacheWrite, CacheSend, Next
<1>3. LogInv'
  BY <1>1, <1>2, NextLogInv
<1>4. CASE UNCHANGED subscriberVars
  <2>1. SubscriberTypeOK'
    BY <1>1, <1>4 DEF SubscriberTypeOK, Forward!TypeOK, subscriberVars
  <2>2. \A s \in Subscribers : SubscriberStill(s)
    BY <1>4 DEF SubscriberStill, subscriberVars
  <2> QED BY <1>1, <1>2, <1>3, <2>1, <2>2, StillKeeps DEF SimulationUpdatesInv
<1>5. CASE DropCache /\ UNCHANGED cacheVars
  <2>1. SubscriberTypeOK'
    BY <1>1, <1>5
    DEF SubscriberTypeOK, Forward!TypeOK, DropCache, Forward!DropCache
  <2>2. \A s \in Subscribers : SubscriberStill(s)
    BY <1>5 DEF SubscriberStill, DropCache, Forward!DropCache
  <2> QED BY <1>1, <1>2, <1>3, <2>1, <2>2, StillKeeps DEF SimulationUpdatesInv
<1>6. ASSUME NEW s \in Subscribers, SubscriberStep(s), UNCHANGED cacheVars
      PROVE  SimulationUpdatesInv'
  <2>1. Shape(s) /\ Delivers(s) /\ UpToDate(s)
    BY <1>1 DEF SubscriberInv
  <2>2. SubscriberTypeOK'
    BY <1>1, <1>6, <2>1, SubscriberStepType DEF LogInv, IInv
  <2>3. Shape(s)'
    BY <1>1, <1>6, <2>1, <2>2, ShapeKept DEF LogInv, IInv
  <2>4. Delivers(s)'
    BY <1>1, <1>6, <2>1, <2>2, <2>3, DeliversKept
  <2>5. UpToDate(s)'
    BY <1>1, <1>6, <2>1, <2>2, <2>3, UpToDateKept
  <2>6. OthersStill(s)
    BY <1>1, <1>6, SubscriberStepOthers
  <2>7. ASSUME NEW t \in Subscribers, t # s
        PROVE  SubscriberInv(t)'
    <3>1. SubscriberStill(t)
      BY <1>6, <2>6, <2>7 DEF OthersStill, SubscriberStill
    <3> QED BY <1>1, <1>2, <3>1, StillKeeps
  <2>8. SubscriberInv(s)'
    BY <2>3, <2>4, <2>5 DEF SubscriberInv
  <2> QED BY <1>3, <2>2, <2>7, <2>8 DEF SimulationUpdatesInv
<1> QED BY <1>4, <1>5, <1>6 DEF SimulationUpdatesNext

LEMMA NextSimulationUpdatesInv ==
  SimulationUpdatesInv /\ [SimulationUpdatesNext]_vars => SimulationUpdatesInv'
<1> SUFFICES ASSUME SimulationUpdatesInv, [SimulationUpdatesNext]_vars
             PROVE  SimulationUpdatesInv'
  OBVIOUS
<1>1. CASE SimulationUpdatesNext
  BY <1>1, StepSimulationUpdatesInv
<1>2. CASE UNCHANGED vars
  <2>1. UNCHANGED cacheVars /\ UNCHANGED subscriberVars
    BY <1>2 DEF vars
  <2>2. LogInv' /\ [Next]_cacheVars
    BY <2>1, NextLogInv DEF SimulationUpdatesInv
  <2>3. SubscriberTypeOK'
    BY <2>1 DEF SimulationUpdatesInv, SubscriberTypeOK, Forward!TypeOK, subscriberVars
  <2>4. \A s \in Subscribers : SubscriberStill(s)
    BY <2>1 DEF SubscriberStill, subscriberVars
  <2> QED BY <2>2, <2>3, <2>4, StillKeeps DEF SimulationUpdatesInv
<1> QED BY <1>1, <1>2

-----------------------------------------------------------------------------
(* Theorems *)

\* Tasks, queues and views keep their types, and a queue never holds more than
\* its capacity.
THEOREM SubscriberTypesCorrect == SimulationUpdatesSpec => []SubscriberTypeOK
<1>1. SimulationUpdatesInv => SubscriberTypeOK
  BY DEF SimulationUpdatesInv
<1> QED BY InitSimulationUpdatesInv, NextSimulationUpdatesInv, <1>1, PTL
        DEF SimulationUpdatesSpec

\* While a subscriber is served, the last message on its way to it, or else its
\* view, is the state of the simulation (simulation.rs:82-86).
THEOREM NothingIsMissed == SimulationUpdatesSpec => []NothingMissed
<1>1. ASSUME SimulationUpdatesInv PROVE NothingMissed
  <2> SUFFICES ASSUME NEW s \in Subscribers, Forward!Served(s),
                      NEW v, v = simulation_state
               PROVE  v = IF ToCome(s) # {}
                          THEN simulationUpdates[Max(ToCome(s))].state
                          ELSE IF Pending(s) # <<>> THEN Last(Pending(s)).state
                          ELSE AfterSnapshot(s)
    BY DEF NothingMissed
  <2>1. LogInv /\ SubscriberTypeOK /\ Delivers(s) /\ UpToDate(s)
    BY <1>1 DEF SimulationUpdatesInv, SubscriberInv
  <2>2. OnItsWay(s, v)
    BY <2>1 DEF UpToDate, Forward!Served
  <2>3. CASE LastAt(simulationUpdates, ToCome(s), v)
    <3>1. PICK i \in ToCome(s) :
            simulationUpdates[i].state = v /\ \A j \in ToCome(s) : j <= i
      BY <2>3 DEF LastAt
    <3>2. ToCome(s) \subseteq 1..Len(simulationUpdates) /\ Len(simulationUpdates) \in Nat
      <4>1. task[s].received \in Nat /\ Len(simulationUpdates) \in Nat
        BY <2>1, TaskType, NumbersOfEvents
      <4> QED BY <4>1 DEF ToCome
    <3>3. Max(ToCome(s)) = i
      BY <3>1, <3>2, LastPlaceIs
    <3> QED BY <3>1, <3>3
  <2>4. CASE ToCome(s) = {} /\ Ends(Pending(s), v)
    BY <2>4 DEF Ends, Last
  <2>5. CASE /\ ToCome(s) = {} /\ Pending(s) = <<>>
             /\ Shows(view[s], task[s].snapshot, v)
    <3>1. CASE task[s].snapshot # {}
      <4>1. PICK m \in task[s].snapshot : m.state = v
        BY <2>5, <3>1 DEF Shows
      <4>2. (CHOOSE n \in task[s].snapshot : TRUE) = m
        BY <2>1, <4>1 DEF Delivers
      <4> QED BY <2>5, <3>1, <4>1, <4>2 DEF AfterSnapshot
    <3>2. CASE task[s].snapshot = {}
      BY <2>5, <3>2 DEF Shows, AfterSnapshot, Shown
    <3> QED BY <3>1, <3>2
  <2> QED BY <2>2, <2>3, <2>4, <2>5 DEF OnItsWay
<1> QED BY InitSimulationUpdatesInv, NextSimulationUpdatesInv, <1>1, PTL
        DEF SimulationUpdatesSpec

-----------------------------------------------------------------------------
(* The subscription implements the feed. *)

\* The states so far, one for each value of the counter.
History == [t \in 1..sequence+1 |-> StateAt(t - 1)]

HistoryOK ==
  sequence \in Nat =>
    /\ Len(History) = sequence + 1
    /\ \E S : History \in Seq(S)
    /\ \A t \in 1..sequence+1 : History[t] = StateAt(t - 1)

LEMMA HistoryIs == HistoryOK
<1> SUFFICES ASSUME sequence \in Nat
             PROVE  /\ Len(History) = sequence + 1
                    /\ \E S : History \in Seq(S)
                    /\ \A t \in 1..sequence+1 :
                         History[t] = StateAt(t - 1)
  BY DEF HistoryOK
<1> DEFINE S == {StateAt(t - 1) : t \in 1..sequence+1}
           h == [t \in 1..sequence+1 |-> StateAt(t - 1)]
<1>1. h \in [1..sequence+1 -> S] /\ sequence + 1 \in Nat
  OBVIOUS
<1>2. h \in Seq(S) /\ Len(h) = sequence + 1
  <2> HIDE DEF S, h
  <2>1. PICK n \in Nat : n = sequence + 1
    BY <1>1
  <2>2. h \in [1..n -> S]
    BY <1>1, <2>1
  <2>3. h \in Seq(S) /\ Len(h) = n
    BY <2>2
  <2> QED BY <2>1, <2>3
<1>3. History = h
  BY DEF History
<1>4. \A t \in 1..sequence+1 : h[t] = StateAt(t - 1)
  OBVIOUS
<1> HIDE DEF S, h
<1> QED BY <1>2, <1>3, <1>4

LEMMA HistoryIsNext == HistoryOK'
BY HistoryIs, PTL

\* The past is not rewritten, whatever the cache does next.
LEMMA HistoryGrows ==
  ASSUME LogInv, [Next]_cacheVars
  PROVE  Feeds!IsPrefix(History, History')
<1>1. /\ sequence \in Nat /\ sequence' \in Nat /\ sequence <= sequence'
  BY NumbersOfEvents, SimulationTypesNext, LogsGrow
<1>2. /\ Len(History) = sequence + 1
      /\ \E S : History \in Seq(S)
      /\ \A t \in 1..sequence+1 : History[t] = StateAt(t - 1)
  BY <1>1, HistoryIs DEF HistoryOK
<1>3. /\ Len(History') = sequence' + 1
      /\ \E S : History' \in Seq(S)
      /\ \A t \in 1..sequence'+1 : History'[t] = StateAt(t - 1)'
  BY <1>1, HistoryIsNext DEF HistoryOK
<1>S. PICK S : History \in Seq(S)
  BY <1>2
<1>T. PICK T : History' \in Seq(T)
  BY <1>3
<1>4. PICK a \in Seq(S) : a = History
  BY <1>S
<1>5. PICK b \in Seq(T) : b = History'
  BY <1>T
<1>6. ASSUME NEW t \in 1..Len(a) PROVE b[t] = a[t]
  <2>1. t - 1 \in Nat /\ t - 1 <= sequence /\ t \in 1..sequence'+1 /\ t \in 1..sequence+1
    <3>1. t \in 1..sequence+1
      BY <1>2, <1>4
    <3>2. PICK n \in Nat : n = sequence
      BY <1>1
    <3>3. PICK m \in Nat : m = sequence'
      BY <1>1
    <3>4. n <= m /\ t \in 1..n+1
      BY <1>1, <3>1, <3>2, <3>3
    <3>5. t - 1 \in Nat /\ t - 1 <= n /\ t \in 1..m+1
      BY <3>4
    <3> QED BY <3>1, <3>2, <3>3, <3>5
  <2>2. StateAt(t - 1)' = StateAt(t - 1)
    BY <2>1, StateKept
  <2> QED BY <1>2, <1>3, <1>4, <1>5, <2>1, <2>2
<1>7. Len(a) <= Len(b)
  BY <1>1, <1>2, <1>3, <1>4, <1>5
<1>8. Feeds!IsPrefix(a, b)
  BY <1>6, <1>7, PrefixIs DEF IsPrefix, Feeds!IsPrefix
<1> QED BY <1>4, <1>5, <1>8

\* The cache goes on.
LEMMA CacheIsChange ==
  ASSUME LogInv, [Next]_cacheVars, UNCHANGED subscriberVars
  PROVE  Feeds!Change
<1>1. UNCHANGED <<cacheDropped, task, client, view>>
  BY DEF subscriberVars
<1>2. Feeds!IsPrefix(History, History')
  BY HistoryGrows
<1>3. \A s : Position(s)' = Position(s) /\ Shown(s)' = Shown(s)
  BY <1>1 DEF Position, Shown
<1>4. \A s : Excused(s)' = Excused(s)
  BY <1>1 DEF Excused, Forward!Excused
<1> QED BY <1>2, <1>3, <1>4 DEF Feeds!Change, History

\* Whatever leaves the cache and the view alone.
LEMMA QuietIsExcuse ==
  ASSUME UNCHANGED <<cacheVars, view>>,
         \A s \in Subscribers : Excused(s) => Excused(s)'
  PROVE  Feeds!Excuse
<1>1. UNCHANGED <<simulationUpdates, sequence>>
  BY DEF cacheVars
<1>2. \A n : StateAt(n)' = StateAt(n)
  BY <1>1 DEF StateAt
<1>3. History' = History
  BY <1>1, <1>2 DEF History
<1>4. \A s : Position(s)' = Position(s) /\ Shown(s)' = Shown(s)
  BY DEF Position, Shown
<1> QED BY <1>3, <1>4 DEF Feeds!Excuse, History

\* The client shows what the message says, as of its number.
LEMMA ReceiptIsFollow ==
  ASSUME LogInv, SubscriberTypeOK, NEW s \in Subscribers, Shape(s), Delivers(s),
         ClientReceives(s), Head(queue[s]) # Aborted, UNCHANGED cacheVars
  PROVE  Feeds!Follow(s)
<1>1. PICK h : h = Head(queue[s])
  OBVIOUS
<1>2. /\ client[s].connected /\ queue[s] # <<>>
      /\ view' = [view EXCEPT ![s] = h]
      /\ UNCHANGED <<cacheDropped, task>>
      /\ client' = [client EXCEPT ![s].aborted = @ \/ h = Aborted]
  BY <1>1 DEF ClientReceives, Forward!ClientReceives
<1>3. Len(queue[s]) \in Nat /\ Len(queue[s]) > 0 /\ DOMAIN queue[s] = 1..Len(queue[s])
      /\ h = queue[s][1] /\ h \in {Aborted} \cup SimulationEvent
  BY <1>1, <1>2, TaskType, TailElements
<1>4. 1 \in DOMAIN Pending(s) /\ Pending(s)[1] = h
  <2>1. CASE task[s].update = None
    BY <1>3, <2>1, PendingIs DEF PendingOK
  <2>2. CASE task[s].update # None
    <3>1. task[s].update \in {Aborted} \cup SimulationEvent
      BY <2>2, TaskType
    <3>2. Pending(s) = Append(queue[s], task[s].update)
      BY <2>2, PendingIs DEF PendingOK
    <3> QED BY <1>3, <3>1, <3>2, TaskType, AppendElements
  <2> QED BY <2>1, <2>2
<1>5. h \in SimulationEvent /\ h # Aborted
  BY <1>1, <1>3
<1>6. h.sequence \in 1..sequence /\ h.state = StateAt(h.sequence)
  BY <1>2, <1>4, <1>5 DEF Delivers, Sound, Truthful
<1>7. view[s] # None => view[s].sequence \in Nat /\ view[s].sequence < h.sequence
  <2>1. view[s] # None => view[s].sequence < h.sequence
    BY <1>2, <1>4, <1>5 DEF Delivers, InOrder
  <2>2. view[s] # None => view[s] \in SimulationEvent
    BY TaskType
  <2> QED BY <2>1, <2>2 DEF SimulationEvent
<1>8. sequence \in Nat
  BY NumbersOfEvents
<1> DEFINE p == h.sequence + 1
<1>9. p \in Position(s)+1 .. Len(History)
  BY <1>6, <1>7, <1>8, HistoryIs DEF Position, HistoryOK
<1>10. History[p] = h.state
  BY <1>6, <1>8, HistoryIs DEF HistoryOK
<1>11. /\ Position(s)' = p /\ Shown(s)' = h.state
       /\ \A t \in Subscribers : t # s =>
            Position(t)' = Position(t) /\ Shown(t)' = Shown(t)
  <2>1. view'[s] = h /\ \A t \in Subscribers : t # s => view'[t] = view[t]
    BY <1>2, TaskType
  <2>2. h # None
    BY <1>5, SimulationUpdatesAssumption
  <2> QED BY <2>1, <2>2 DEF Position, Shown
<1>12. History' = History
  <2>1. UNCHANGED <<simulationUpdates, sequence>>
    BY DEF cacheVars
  <2>2. \A n : StateAt(n)' = StateAt(n)
    BY <2>1 DEF StateAt
  <2> QED BY <2>1, <2>2 DEF History
<1>13. \A t \in Subscribers : Excused(t)' = Excused(t)
  <2>1. \A t \in Subscribers : client'[t] = client[t]
    BY <1>2, <1>5, TaskType
  <2> QED BY <1>2, <2>1 DEF Excused, Forward!Excused
<1>14. ~Excused(s)
  BY <1>2 DEF Shape, Excused, Forward!Excused
<1> HIDE DEF p
<1>15. /\ [r \in Subscribers |-> Position(r)]'
            = [[r \in Subscribers |-> Position(r)] EXCEPT ![s] = p]
       /\ [r \in Subscribers |-> Shown(r)]'
            = [[r \in Subscribers |-> Shown(r)] EXCEPT ![s] = h.state]
  BY <1>11
<1>16. ~[r \in Subscribers |-> Excused(r)][s]
  BY <1>14
<1>17. /\ p \in [r \in Subscribers |-> Position(r)][s]+1
               .. Len([r \in Subscribers |-> History][s])
       /\ [r \in Subscribers |-> History][s][p] = h.state
  BY <1>9, <1>10
<1>18. /\ UNCHANGED [r \in Subscribers |-> History]
       /\ UNCHANGED [r \in Subscribers |-> Excused(r)]
  BY <1>12, <1>13
<1> QED BY <1>15, <1>16, <1>17, <1>18 DEF Feeds!Follow, History

\* Nothing excuses a client but its own leaving, its abort, or a cache that was
\* dropped before its call, and none of them is undone.
LEMMA StaysExcused ==
  ASSUME SubscriberTypeOK, NEW s \in Subscribers, SubscriberStep(s)
  PROVE  \A t \in Subscribers : Excused(t) => Excused(t)'
<1>1. OthersStill(s)
  BY SubscriberStepOthers
<1>2. ASSUME NEW t \in Subscribers, t # s, Excused(t) PROVE Excused(t)'
  <2>1. cacheDropped => cacheDropped'
    BY DEF SubscriberStep, TaskStep, Forward!ForwardStep, Forward!Subscribe,
           ReadSnapshot, Forward!ReadSnapshot, Receive, Forward!Receive,
           Forward!SendSnapshot, Forward!SendUpdate, Forward!Lag,
           Forward!SendAborted, Forward!Closed, Forward!ClientGone,
           Forward!Disconnect, ClientReceives, Forward!ClientReceives
  <2> QED BY <1>1, <1>2, <2>1 DEF OthersStill, Excused, Forward!Excused
<1>3. Forward!Excused(s) => Forward!Excused(s)'
  <2>1. CASE ClientReceives(s)
    BY <2>1, ClientReceivesDoes DEF Forward!Excused
  <2>2. CASE Forward!Disconnect(s) /\ UNCHANGED view
    BY <2>2, DisconnectDoes DEF Forward!Excused
  <2>3. CASE Forward!Subscribe(s) \/ TaskStep(s)
    BY <2>3 DEF TaskStep, Forward!ForwardStep, Forward!Subscribe, ReadSnapshot,
                Forward!ReadSnapshot, Receive, Forward!Receive,
                Forward!SendSnapshot, Forward!SendUpdate, Forward!Lag,
                Forward!SendAborted, Forward!Closed, Forward!ClientGone,
                Forward!Excused
  <2> QED BY <2>1, <2>2, <2>3 DEF SubscriberStep
<1>4. task[s].pc = "idle" /\ cacheDropped => Excused(s)'
  <2>1. CASE ClientReceives(s)
    BY <2>1 DEF ClientReceives, Forward!ClientReceives, Excused
  <2>2. CASE (Forward!Subscribe(s) \/ TaskStep(s) \/ Forward!Disconnect(s))
               /\ UNCHANGED view
    BY <2>2 DEF TaskStep, Forward!ForwardStep, Forward!Subscribe, ReadSnapshot,
                Forward!ReadSnapshot, Receive, Forward!Receive, Forward!Receiving,
                Forward!SendSnapshot, Forward!SendUpdate, Forward!Lag,
                Forward!SendAborted, Forward!Closed, Forward!ClientGone,
                Forward!Disconnect
  <2> QED BY <2>1, <2>2 DEF SubscriberStep
<1> QED BY <1>2, <1>3, <1>4 DEF Excused

LEMMA InitFeed == SimulationUpdatesInit => Feeds!Init
<1> SUFFICES ASSUME SimulationUpdatesInit PROVE Feeds!Init
  OBVIOUS
<1>1. /\ sequence = 0 /\ simulationUpdates = <<>> /\ cacheDropped = FALSE
      /\ client = [s \in Subscribers |-> [connected |-> TRUE, aborted |-> FALSE]]
      /\ view = [s \in Subscribers |-> None]
  BY DEF SimulationUpdatesInit, Init, Forward!Init
<1>2. History = <<None>>
  <2>1. \A n : StateAt(n) = None
    BY <1>1 DEF StateAt
  <2>2. History = [t \in 1..1 |-> None]
    BY <1>1, <2>1 DEF History
  <2>3. [t \in 1..1 |-> None] = <<None>>
    OBVIOUS
  <2> QED BY <2>2, <2>3
<1>3. \A s \in Subscribers :
        Position(s) = 1 /\ Shown(s) = None /\ Excused(s) = FALSE
  BY <1>1 DEF SimulationUpdatesInit, Forward!Init, Position, Shown, Excused,
              Forward!Excused
<1> QED BY <1>2, <1>3 DEF Feeds!Init, History

LEMMA NextFeed ==
  SimulationUpdatesInv /\ [SimulationUpdatesNext]_vars => [Feeds!Next]_(Feeds!vars)
<1> SUFFICES ASSUME SimulationUpdatesInv, [SimulationUpdatesNext]_vars
             PROVE  Feeds!Next
  OBVIOUS
<1>1. /\ LogInv /\ SubscriberTypeOK
      /\ \A s \in Subscribers : Shape(s) /\ Delivers(s)
  BY DEF SimulationUpdatesInv, SubscriberInv
<1>2. CASE [Next]_cacheVars /\ UNCHANGED subscriberVars
  BY <1>1, <1>2, CacheIsChange DEF Feeds!Next
<1>3. CASE DropCache /\ UNCHANGED cacheVars
  <2>1. UNCHANGED <<task, client, view>> /\ cacheDropped' = TRUE
    BY <1>3 DEF DropCache, Forward!DropCache
  <2>2. \A s \in Subscribers : Excused(s) => Excused(s)'
    BY <2>1 DEF Excused, Forward!Excused
  <2> QED BY <1>3, <2>1, <2>2, QuietIsExcuse DEF Feeds!Next
<1>4. ASSUME NEW s \in Subscribers, SubscriberStep(s), UNCHANGED cacheVars
      PROVE  Feeds!Next
  <2>1. \A t \in Subscribers : Excused(t) => Excused(t)'
    BY <1>1, <1>4, StaysExcused
  <2>2. CASE UNCHANGED view
    BY <1>4, <2>1, <2>2, QuietIsExcuse DEF Feeds!Next
  <2>3. CASE ClientReceives(s) /\ Head(queue[s]) = Aborted
    BY <1>4, <2>1, <2>3, QuietIsExcuse DEF ClientReceives, Feeds!Next
  <2>4. CASE ClientReceives(s) /\ Head(queue[s]) # Aborted
    BY <1>1, <1>4, <2>4, ReceiptIsFollow DEF Feeds!Next
  <2> QED BY <1>4, <2>2, <2>3, <2>4 DEF SubscriberStep
<1>5. CASE SimulationUpdatesNext
  <2>1. CacheWrite \/ CacheSend => [Next]_cacheVars
    BY DEF CacheWrite, CacheSend, Next
  <2> QED BY <1>2, <1>3, <1>4, <1>5, <2>1 DEF SimulationUpdatesNext
<1>6. CASE UNCHANGED vars
  BY <1>2, <1>6 DEF vars
<1> QED BY <1>5, <1>6

\* The subscription implements the feed: a client shows states that the
\* simulation really had, each newer than the last, and an excused client's
\* view does not change (simulation.rs:83-88).
THEOREM FollowsTheFeed == SimulationUpdatesSpec => FollowsFeed
<1>1. SimulationUpdatesSpec => []SimulationUpdatesInv
  BY InitSimulationUpdatesInv, NextSimulationUpdatesInv, PTL
     DEF SimulationUpdatesSpec
<1> QED BY <1>1, InitFeed, NextFeed, PTL
        DEF SimulationUpdatesSpec, FollowsFeed, Feeds!Spec
=============================================================================
