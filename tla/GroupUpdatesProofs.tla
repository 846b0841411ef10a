------------------------- MODULE GroupUpdatesProofs -------------------------
(***************************************************************************)
(* Proofs about the group subscriptions: a subscriber's filter is kept and *)
(* no change of the cache is missed, whatever is queued, in the task's     *)
(* hand or still in the channel, and the client follows a feed of every    *)
(* group.                                                                  *)
(***************************************************************************)
EXTENDS GroupUpdates, EventLogProofs

-----------------------------------------------------------------------------
(* The inductive invariant, of one subscriber. *)

\* A message says what the filter showed of its group when the counter stood at
\* its number.
Truthful(s, m) ==
  /\ m \in GroupEvent /\ m.sequence \in 1..sequence /\ Matches(s, m)
  /\ m.group = ValueAt(s, m.id, m.sequence)

\* Whatever is still to be forwarded is newer than m.
Older(s, m) ==
  \A i \in task[s].received+1 .. Len(groupUpdates) :
    ~Forward!InSnapshot(s, groupUpdates[i])
      => m.sequence < groupUpdates[i].sequence

Sound(s, m) == Truthful(s, m) /\ Older(s, m)

\* What the program counter, the queue and the client say of each other.
Shape(s) ==
  /\ task[s].pc \in {"idle", "subscribed"} =>
       /\ client[s] = [connected |-> TRUE, aborted |-> FALSE]
       /\ queue[s] = <<>> /\ task[s].snapshot = {} /\ task[s].update = None
       /\ view[s] = [g \in GroupIds |-> None]
  /\ task[s].pc = "sending" => task[s].update # None
  /\ task[s].update # None =>
       task[s].pc = "sending" \/ (task[s].pc = "done" /\ ~client[s].connected)
  /\ task[s].pc \in {"sending", "aborting"} => task[s].snapshot = {}
  /\ \A i \in DOMAIN queue[s] :
       queue[s][i] = Aborted => i = Len(queue[s]) /\ task[s].pc = "done"
  /\ client[s].aborted => queue[s] = <<>> /\ task[s].pc = "done"
  /\ task[s].received <= groupTail /\ task[s].snapshot_sequence <= sequence

\* The messages es come in the order of their numbers, after the shown ones in
\* w, and none is about a group that the rest sn of the snapshot holds.
InOrder(es, w, sn) ==
  \A j \in DOMAIN es : es[j] # Aborted =>
    /\ w[es[j].id] # None => w[es[j].id].sequence < es[j].sequence
    /\ \A i \in 1..j-1 : es[i].id = es[j].id => es[i].sequence < es[j].sequence
    /\ \A m \in sn : m.id # es[j].id

Shows(w, sn, g, v) ==
  \/ \E m \in sn : m.id = g /\ m.group = v
  \/ /\ \A m \in sn : m.id # g
     /\ v = IF w[g] = None THEN None ELSE w[g].group

\* The last of the events of es at the places K that are about g carries v.
LastAt(es, K, g, v) ==
  \E i \in K : /\ es[i].id = g /\ es[i].group = v
               /\ \A j \in K : j > i => es[j].id # g

NoneAt(es, K, g) == \A i \in K : es[i].id # g

\* The client will show v of g once everything is through.
OnItsWay(s, g, v) ==
  \/ LastAt(groupUpdates, ToCome(s), g, v)
  \/ NoneAt(groupUpdates, ToCome(s), g) /\ TellsLast(Pending(s), g, v)
  \/ /\ NoneAt(groupUpdates, ToCome(s), g) /\ Silent(Pending(s), g)
     /\ Shows(view[s], task[s].snapshot, g, v)

\* A filter's view of a joined group or of an event's.
Filtered(v, f) == IF v # None /\ MatchesSide(v.side, f) THEN v ELSE None

Delivers(s) ==
  /\ \A g \in GroupIds, m \in GroupEvent :
       view[s][g] = m => m.id = g /\ Sound(s, m)
  /\ \A m \in task[s].snapshot :
       /\ Sound(s, m) /\ view[s][m.id] = None
       /\ \A n \in task[s].snapshot : n.id = m.id => n = m
  /\ client[s].connected =>
       /\ \A i \in DOMAIN Pending(s), m \in GroupEvent :
            Pending(s)[i] = m => Sound(s, m)
       /\ InOrder(Pending(s), view[s], task[s].snapshot)

UpToDate(s) ==
  task[s].pc \in {"forwarding", "sending"} /\ client[s].connected =>
    \A g \in GroupIds : OnItsWay(s, g, Filtered(JoinedGroup(g), side[s]))

SubscriberInv(s) == Shape(s) /\ Delivers(s) /\ UpToDate(s)

GroupUpdatesInv ==
  LogInv /\ SubscriberTypeOK /\ \A s \in Subscribers : SubscriberInv(s)

-----------------------------------------------------------------------------
(* A queue at its ends. *)

LEMMA AppendTells ==
  ASSUME NEW S, NEW q \in Seq(S), NEW e \in S, NEW g, NEW v
  PROVE  /\ e.id = g => TellsLast(Append(q, e), g, e.group)
         /\ e.id # g /\ TellsLast(q, g, v) => TellsLast(Append(q, e), g, v)
         /\ e.id # g /\ Silent(q, g) => Silent(Append(q, e), g)
<1> DEFINE qe == Append(q, e)
<1>1. /\ Len(q) \in Nat /\ DOMAIN q = 1..Len(q) /\ DOMAIN qe = 1..Len(q)+1
      /\ \A i \in 1..Len(q) : qe[i] = q[i]
      /\ qe[Len(q) + 1] = e
  BY AppendElements
<1> HIDE DEF qe
<1>2. \A i \in DOMAIN qe : i \in 1..Len(q) \/ i = Len(q) + 1
  BY <1>1
<1>3. e.id = g => TellsLast(qe, g, e.group)
  BY <1>1 DEF TellsLast
<1>4. e.id # g /\ TellsLast(q, g, v) => TellsLast(qe, g, v)
  BY <1>1, <1>2 DEF TellsLast
<1>5. e.id # g /\ Silent(q, g) => Silent(qe, g)
  BY <1>1, <1>2 DEF Silent
<1> QED BY <1>3, <1>4, <1>5 DEF qe

LEMMA TailTells ==
  ASSUME NEW S, NEW q \in Seq(S), q # <<>>, NEW g, NEW v
  PROVE  /\ Silent(q, g) => Head(q).id # g /\ Silent(Tail(q), g)
         /\ TellsLast(q, g, v) =>
              \/ TellsLast(Tail(q), g, v)
              \/ Head(q).id = g /\ Head(q).group = v /\ Silent(Tail(q), g)
<1> DEFINE tq == Tail(q)
<1>1. /\ Len(q) \in Nat /\ Len(q) > 0
      /\ DOMAIN q = 1..Len(q) /\ DOMAIN tq = 1..Len(q)-1
      /\ \A i \in 1..Len(q)-1 : tq[i] = q[i + 1] /\ i + 1 \in 1..Len(q)
      /\ Head(q) = q[1]
  BY TailElements
<1> HIDE DEF tq
<1>2. Silent(q, g) => Head(q).id # g /\ Silent(tq, g)
  BY <1>1 DEF Silent
<1>3. ASSUME TellsLast(q, g, v)
      PROVE  \/ TellsLast(tq, g, v)
             \/ Head(q).id = g /\ Head(q).group = v /\ Silent(tq, g)
  <2>1. PICK i \in 1..Len(q) : /\ q[i].id = g /\ q[i].group = v
                               /\ \A j \in 1..Len(q) : j > i => q[j].id # g
    BY <1>1, <1>3 DEF TellsLast
  <2>2. CASE i = 1
    <3>1. \A k \in 1..Len(q)-1 : k + 1 > 1
      OBVIOUS
    <3>2. Silent(tq, g)
      BY <1>1, <2>1, <2>2, <3>1 DEF Silent
    <3> QED BY <1>1, <2>1, <2>2, <3>2
  <2>3. CASE i > 1
    <3>1. PICK k \in 1..Len(q)-1 : i = k + 1
      <4>1. i - 1 \in 1..Len(q)-1 /\ i = (i - 1) + 1
        BY <1>1, <2>3
      <4> QED BY <4>1
    <3>2. \A j \in 1..Len(q)-1 : j > k => tq[j].id # g
      <4>1. \A j \in 1..Len(q)-1 : j > k => j + 1 > i
        BY <3>1
      <4> QED BY <1>1, <2>1, <4>1
    <3> QED BY <1>1, <2>1, <3>1, <3>2 DEF TellsLast
  <2> QED BY <1>1, <2>2, <2>3
<1> QED BY <1>2, <1>3 DEF tq

LEMMA AppendInOrder ==
  ASSUME NEW S, NEW q \in Seq(S), NEW e \in S, NEW w, NEW sn,
         InOrder(q, w, sn),
         e # Aborted =>
           /\ w[e.id] # None => w[e.id].sequence < e.sequence
           /\ \A i \in 1..Len(q) : q[i].id = e.id => q[i].sequence < e.sequence
           /\ \A m \in sn : m.id # e.id
  PROVE  InOrder(Append(q, e), w, sn)
<1> DEFINE qe == Append(q, e)
<1>1. /\ Len(q) \in Nat /\ DOMAIN q = 1..Len(q) /\ DOMAIN qe = 1..Len(q)+1
      /\ \A i \in 1..Len(q) : qe[i] = q[i]
      /\ qe[Len(q) + 1] = e
  BY AppendElements
<1> HIDE DEF qe
<1> SUFFICES ASSUME NEW j \in 1..Len(q)+1, qe[j] # Aborted
             PROVE  /\ w[qe[j].id] # None => w[qe[j].id].sequence < qe[j].sequence
                    /\ \A i \in 1..j-1 : qe[i].id = qe[j].id
                                           => qe[i].sequence < qe[j].sequence
                    /\ \A m \in sn : m.id # qe[j].id
  BY <1>1 DEF InOrder, qe
<1>2. \A i \in 1..j-1 : i \in 1..Len(q)
  BY <1>1
<1>3. CASE j = Len(q) + 1
  BY <1>1, <1>2, <1>3
<1>4. CASE j \in 1..Len(q)
  BY <1>1, <1>2, <1>4 DEF InOrder
<1> QED BY <1>1, <1>3, <1>4

LEMMA TailInOrder ==
  ASSUME NEW S, NEW q \in Seq(S), q # <<>>, NEW G, NEW T, NEW w \in [G -> T],
         NEW sn, InOrder(q, w, sn),
         \A i \in 1..Len(q) : q[i] # Aborted => q[i].id \in G,
         Head(q) # Aborted
  PROVE  InOrder(Tail(q), [w EXCEPT ![Head(q).id] = Head(q)], sn)
<1> DEFINE tq == Tail(q)
           h == Head(q)
           x == [w EXCEPT ![h.id] = h]
<1>1. /\ Len(q) \in Nat /\ Len(q) > 0
      /\ DOMAIN q = 1..Len(q) /\ DOMAIN tq = 1..Len(q)-1
      /\ \A i \in 1..Len(q)-1 : tq[i] = q[i + 1] /\ i + 1 \in 1..Len(q)
      /\ h = q[1]
  BY TailElements
<1>2. \A i \in 1..Len(q) : q[i] # Aborted =>
        x[q[i].id] = IF q[i].id = h.id THEN h ELSE w[q[i].id]
  OBVIOUS
<1> HIDE DEF tq, x
<1>3. h # Aborted
  OBVIOUS
<1> HIDE DEF h
<1> SUFFICES ASSUME NEW j \in 1..Len(q)-1, tq[j] # Aborted
             PROVE  /\ x[tq[j].id] # None => x[tq[j].id].sequence < tq[j].sequence
                    /\ \A i \in 1..j-1 : tq[i].id = tq[j].id
                                           => tq[i].sequence < tq[j].sequence
                    /\ \A m \in sn : m.id # tq[j].id
  BY <1>1 DEF InOrder, tq, x, h
<1>4. j + 1 \in DOMAIN q /\ tq[j] = q[j + 1] /\ 1 \in 1..(j+1)-1
      /\ \A i \in 1..j-1 : tq[i] = q[i + 1] /\ i + 1 \in 1..(j+1)-1
  BY <1>1
<1>5. /\ w[q[j+1].id] # None => w[q[j+1].id].sequence < q[j+1].sequence
      /\ \A i \in 1..(j+1)-1 : q[i].id = q[j+1].id
                                 => q[i].sequence < q[j+1].sequence
      /\ \A m \in sn : m.id # q[j+1].id
  BY <1>4 DEF InOrder
<1>6. x[tq[j].id] # None => x[tq[j].id].sequence < tq[j].sequence
  BY <1>1, <1>2, <1>4, <1>5
<1> QED BY <1>4, <1>5, <1>6

LEMMA FewerInOrder ==
  ASSUME NEW q, NEW w, NEW sn, NEW less, less \subseteq sn, InOrder(q, w, sn)
  PROVE  InOrder(q, w, less)
BY DEF InOrder

-----------------------------------------------------------------------------
(* What each step of a subscriber does, field by field. *)

\* The other subscribers do not notice.
OthersStill(s) ==
  \A t \in Subscribers : t # s =>
    /\ task'[t] = task[t] /\ queue'[t] = queue[t]
    /\ client'[t] = client[t] /\ view'[t] = view[t]

\* The step is one of the task that leaves the queue alone.
QueueStill(s) ==
  /\ OthersStill(s)
  /\ queue'[s] = queue[s] /\ client'[s] = client[s] /\ view'[s] = view[s]

\* The task only goes on to another program counter.
Proceeds(s) ==
  /\ QueueStill(s)
  /\ task'[s].received = task[s].received
  /\ task'[s].snapshot = task[s].snapshot
  /\ task'[s].snapshot_sequence = task[s].snapshot_sequence
  /\ task'[s].update = task[s].update

LEMMA TaskType ==
  ASSUME SubscriberTypeOK, NEW s \in Subscribers
  PROVE  /\ task \in [Subscribers -> Forward!Task(GroupEvent)]
         /\ task[s] \in
              [pc : {"idle", "subscribed", "forwarding", "sending", "aborting",
                     "done"},
               received : Nat, snapshot : SUBSET GroupEvent,
               snapshot_sequence : Nat, update : GroupEvent \cup {None}]
         /\ queue \in [Subscribers -> Seq({Aborted} \cup GroupEvent)]
         /\ client \in [Subscribers -> [connected : BOOLEAN, aborted : BOOLEAN]]
         /\ queue[s] \in Seq({Aborted} \cup GroupEvent)
         /\ view \in [Subscribers -> [GroupIds -> GroupEvent \cup {None}]]
         /\ side[s] \in Filters
BY DEF SubscriberTypeOK, Forward!TypeOK, Forward!Task, Forward!Client

TasksOK ==
  \A s \in Subscribers :
    /\ task[s].received \in Nat
    /\ task[s].update \in GroupEvent \cup {None}
    /\ queue[s] \in Seq({Aborted} \cup GroupEvent)
    /\ view[s] \in [GroupIds -> GroupEvent \cup {None}]

LEMMA TaskTypeNext == SubscriberTypeOK' => TasksOK'
<1>1. SubscriberTypeOK => TasksOK
  BY TaskType DEF TasksOK
<1> QED BY <1>1, PTL

LEMMA SubscribeDoes ==
  ASSUME SubscriberTypeOK, NEW s \in Subscribers,
         Forward!Subscribe(s), UNCHANGED view
  PROVE  /\ task[s].pc = "idle" /\ task'[s].pc = "subscribed"
         /\ QueueStill(s)
         /\ task'[s].received = groupTail
         /\ task'[s].snapshot = task[s].snapshot
         /\ task'[s].snapshot_sequence = task[s].snapshot_sequence
         /\ task'[s].update = task[s].update
BY TaskType DEF Forward!Subscribe, Forward!Task, QueueStill, OthersStill

LEMMA ReadSnapshotDoes ==
  ASSUME SubscriberTypeOK, NEW s \in Subscribers,
         ReadSnapshot(s), UNCHANGED view
  PROVE  /\ task[s].pc = "subscribed" /\ task'[s].pc = "forwarding"
         /\ QueueStill(s)
         /\ task'[s].received = task[s].received
         /\ task'[s].snapshot = Snapshot(s)
         /\ task'[s].snapshot_sequence = sequence
         /\ task'[s].update = task[s].update
BY TaskType DEF ReadSnapshot, Forward!ReadSnapshot, Forward!Task, QueueStill,
                OthersStill

LEMMA ReceiveDoes ==
  ASSUME SubscriberTypeOK, NEW s \in Subscribers,
         Receive(s), UNCHANGED view
  PROVE  /\ task[s].pc = "forwarding" /\ task[s].snapshot = {}
         /\ task[s].received < groupTail
         /\ QueueStill(s)
         /\ task'[s].received = task[s].received + 1
         /\ task'[s].snapshot = {}
         /\ task'[s].snapshot_sequence = task[s].snapshot_sequence
         /\ \/ /\ \/ Forward!InSnapshot(s, Forward!NextUpdate(s))
                  \/ ~Matches(s, Forward!NextUpdate(s))
               /\ task'[s].pc = "forwarding" /\ task'[s].update = task[s].update
            \/ /\ ~Forward!InSnapshot(s, Forward!NextUpdate(s))
               /\ Matches(s, Forward!NextUpdate(s))
               /\ task'[s].pc = "sending"
               /\ task'[s].update = Forward!NextUpdate(s)
<1>1. CASE Forward!InSnapshot(s, Forward!NextUpdate(s))
             \/ ~Matches(s, Forward!NextUpdate(s))
  BY <1>1, TaskType DEF Receive, Forward!Receive, Forward!Receiving,
     Forward!Task, QueueStill, OthersStill
<1>2. CASE ~Forward!InSnapshot(s, Forward!NextUpdate(s))
             /\ Matches(s, Forward!NextUpdate(s))
  BY <1>2, TaskType DEF Receive, Forward!Receive, Forward!Receiving,
     Forward!Task, QueueStill, OthersStill
<1> QED BY <1>1, <1>2

LEMMA SendSnapshotDoes ==
  ASSUME SubscriberTypeOK, NEW s \in Subscribers,
         Forward!SendSnapshot(s), UNCHANGED view
  PROVE  /\ task[s].pc = "forwarding" /\ client[s].connected
         /\ Len(queue[s]) < QueueCapacity
         /\ OthersStill(s) /\ client'[s] = client[s] /\ view'[s] = view[s]
         /\ task'[s].pc = "forwarding"
         /\ task'[s].received = task[s].received
         /\ task'[s].snapshot_sequence = task[s].snapshot_sequence
         /\ task'[s].update = task[s].update
         /\ \E m \in task[s].snapshot :
              /\ task'[s].snapshot = task[s].snapshot \ {m}
              /\ queue'[s] = Append(queue[s], m)
<1>1. PICK m \in task[s].snapshot :
        /\ queue' = [queue EXCEPT ![s] = Append(@, m)]
        /\ task' = [task EXCEPT ![s].snapshot = @ \ {m}]
  BY DEF Forward!SendSnapshot, Forward!Enqueue
<1>2. /\ task'[s].snapshot = task[s].snapshot \ {m}
      /\ task'[s].pc = task[s].pc
      /\ task'[s].received = task[s].received
      /\ task'[s].snapshot_sequence = task[s].snapshot_sequence
      /\ task'[s].update = task[s].update
  BY <1>1, TaskType DEF Forward!Task
<1>3. OthersStill(s) /\ queue'[s] = Append(queue[s], m)
  BY <1>1, TaskType DEF Forward!SendSnapshot, Forward!Task, OthersStill
<1> QED BY <1>1, <1>2, <1>3 DEF Forward!SendSnapshot, Forward!CanSend

LEMMA SendUpdateDoes ==
  ASSUME SubscriberTypeOK, NEW s \in Subscribers,
         Forward!SendUpdate(s), UNCHANGED view
  PROVE  /\ task[s].pc = "sending" /\ client[s].connected
         /\ Len(queue[s]) < QueueCapacity
         /\ OthersStill(s) /\ client'[s] = client[s] /\ view'[s] = view[s]
         /\ task'[s].pc = "forwarding"
         /\ task'[s].received = task[s].received
         /\ task'[s].snapshot = task[s].snapshot
         /\ task'[s].snapshot_sequence = task[s].snapshot_sequence
         /\ task'[s].update = None
         /\ queue'[s] = Append(queue[s], task[s].update)
BY TaskType DEF Forward!SendUpdate, Forward!CanSend, Forward!Enqueue,
                Forward!Task, OthersStill

LEMMA SendAbortedDoes ==
  ASSUME SubscriberTypeOK, NEW s \in Subscribers,
         Forward!SendAborted(s), UNCHANGED view
  PROVE  /\ task[s].pc = "aborting" /\ client[s].connected
         /\ Len(queue[s]) < QueueCapacity
         /\ OthersStill(s) /\ client'[s] = client[s] /\ view'[s] = view[s]
         /\ task'[s].pc = "done"
         /\ task'[s].received = task[s].received
         /\ task'[s].snapshot = task[s].snapshot
         /\ task'[s].snapshot_sequence = task[s].snapshot_sequence
         /\ task'[s].update = task[s].update
         /\ queue'[s] = Append(queue[s], Aborted)
BY TaskType DEF Forward!SendAborted, Forward!CanSend, Forward!Enqueue,
                Forward!Task, OthersStill

LEMMA StopDoes ==
  ASSUME SubscriberTypeOK, NEW s \in Subscribers,
         Forward!Lag(s) \/ Forward!Closed(s) \/ Forward!ClientGone(s),
         UNCHANGED view
  PROVE  /\ Proceeds(s)
         /\ \/ /\ task[s].pc = "forwarding" /\ task[s].snapshot = {}
               /\ task'[s].pc \in {"aborting", "done"}
            \/ /\ task[s].pc \in {"forwarding", "sending", "aborting"}
               /\ ~client[s].connected /\ task'[s].pc = "done"
<1>1. CASE Forward!Lag(s)
  BY <1>1, TaskType DEF Forward!Lag, Forward!Receiving, Forward!Task, Proceeds,
                        QueueStill, OthersStill
<1>2. CASE Forward!Closed(s)
  BY <1>2, TaskType DEF Forward!Closed, Forward!Receiving, Forward!Task,
                        Proceeds, QueueStill, OthersStill
<1>3. CASE Forward!ClientGone(s)
  BY <1>3, TaskType DEF Forward!ClientGone, Forward!Task, Proceeds, QueueStill,
                        OthersStill
<1> QED BY <1>1, <1>2, <1>3

LEMMA ClientReceivesDoes ==
  ASSUME SubscriberTypeOK, NEW s \in Subscribers, ClientReceives(s)
  PROVE  /\ client[s].connected /\ queue[s] # <<>>
         /\ OthersStill(s) /\ task'[s] = task[s]
         /\ queue'[s] = Tail(queue[s])
         /\ client'[s].connected
         /\ client'[s].aborted = (client[s].aborted \/ Head(queue[s]) = Aborted)
         /\ Head(queue[s]) = Aborted => view'[s] = view[s]
         /\ Head(queue[s]) # Aborted =>
              view'[s] = [view[s] EXCEPT ![Head(queue[s]).id] = Head(queue[s])]
<1>1. CASE Head(queue[s]) = Aborted
  BY <1>1, TaskType DEF ClientReceives, Forward!ClientReceives, OthersStill
<1>2. CASE Head(queue[s]) # Aborted
  BY <1>2, TaskType DEF ClientReceives, Forward!ClientReceives, OthersStill
<1> QED BY <1>1, <1>2

LEMMA DisconnectDoes ==
  ASSUME SubscriberTypeOK, NEW s \in Subscribers,
         Forward!Disconnect(s), UNCHANGED view
  PROVE  /\ client[s].connected /\ task[s].pc \notin {"idle", "subscribed"}
         /\ OthersStill(s) /\ task'[s] = task[s] /\ view'[s] = view[s]
         /\ queue'[s] = <<>>
         /\ ~client'[s].connected /\ client'[s].aborted = client[s].aborted
BY TaskType DEF Forward!Disconnect, OthersStill

-----------------------------------------------------------------------------
(* Types *)

LEMMA SnapshotType ==
  ASSUME TypeOK, NEW s \in Subscribers
  PROVE  /\ Snapshot(s) \subseteq GroupEvent
         /\ \A m \in Snapshot(s) :
              /\ m.id \in GroupIds /\ m.sequence = sequence
              /\ m.group = JoinedGroup(m.id)
              /\ groups[m.id] # None /\ MatchesSide(groups[m.id].side, side[s])
         /\ \A g \in GroupIds :
              groups[g] # None /\ MatchesSide(groups[g].side, side[s])
                => \E m \in Snapshot(s) : m.id = g /\ m.group = JoinedGroup(g)
         /\ \A m, n \in Snapshot(s) : m.id = n.id => m = n
<1> DEFINE listed == {h \in GroupIds : /\ groups[h] # None
                                       /\ MatchesSide(groups[h].side, side[s])}
           message(g) == [sequence |-> sequence, id |-> g, group |-> JoinedGroup(g)]
<1>1. Snapshot(s) = {message(g) : g \in listed}
  BY DEF Snapshot, ListGroups
<1>2. \A g \in listed : message(g) \in GroupEvent
  <2> SUFFICES ASSUME NEW g \in listed PROVE message(g) \in GroupEvent
    OBVIOUS
  <2>1. MapsTypeOK
    BY DEF TypeOK, MapsTypeOK
  <2>2. JoinedGroup(g) \in Joined \cup {None} /\ sequence \in Nat
    BY <2>1, JoinedGroupType DEF JoinedTypeOK, TypeOK
  <2> QED BY <2>2 DEF GroupEvent
<1>3. Snapshot(s) \subseteq GroupEvent
  BY <1>1, <1>2
<1>4. ASSUME NEW m \in Snapshot(s)
      PROVE  /\ m.id \in GroupIds /\ m.sequence = sequence
             /\ m.group = JoinedGroup(m.id)
             /\ groups[m.id] # None /\ MatchesSide(groups[m.id].side, side[s])
             /\ m = message(m.id)
  BY <1>1
<1>5. ASSUME NEW g \in listed
      PROVE  \E m \in Snapshot(s) : m.id = g /\ m.group = JoinedGroup(g)
  <2>1. message(g) \in Snapshot(s)
    BY <1>1
  <2> QED BY <2>1
<1>6. ASSUME NEW m \in Snapshot(s), NEW n \in Snapshot(s), m.id = n.id
      PROVE  m = n
  BY <1>4, <1>6
<1> QED BY <1>3, <1>4, <1>5, <1>6

LEMMA NextUpdateType ==
  ASSUME TypeOK, SubscriberTypeOK, NEW s \in Subscribers,
         task[s].received < groupTail
  PROVE  /\ task[s].received + 1 \in 1..Len(groupUpdates)
         /\ Forward!NextUpdate(s) = groupUpdates[task[s].received + 1]
         /\ Forward!NextUpdate(s) \in GroupEvent
<1>1. /\ groupUpdates \in Seq(GroupEvent) /\ groupTail \in 0..Len(groupUpdates)
      /\ task[s].received \in Nat /\ Len(groupUpdates) \in Nat
  BY TaskType, LenProperties DEF TypeOK
<1>2. task[s].received + 1 \in 1..Len(groupUpdates)
  BY <1>1
<1> QED BY <1>1, <1>2, ElementOfSeq DEF Forward!NextUpdate

\* Tasks stay tasks, whichever field of one changes.
LEMMA TaskFields ==
  ASSUME NEW T \in [Subscribers -> Forward!Task(GroupEvent)],
         NEW s \in Subscribers, NEW x
  PROVE  /\ x \in {"subscribed", "forwarding", "sending", "aborting", "done"} =>
              [T EXCEPT ![s].pc = x] \in [Subscribers -> Forward!Task(GroupEvent)]
         /\ x \in Nat =>
              /\ [T EXCEPT ![s].received = x]
                   \in [Subscribers -> Forward!Task(GroupEvent)]
              /\ [T EXCEPT ![s].snapshot_sequence = x]
                   \in [Subscribers -> Forward!Task(GroupEvent)]
         /\ x \subseteq GroupEvent =>
              [T EXCEPT ![s].snapshot = x]
                \in [Subscribers -> Forward!Task(GroupEvent)]
         /\ x \in GroupEvent \cup {None} =>
              [T EXCEPT ![s].update = x]
                \in [Subscribers -> Forward!Task(GroupEvent)]
<1>1. x \in {"subscribed", "forwarding", "sending", "aborting", "done"} =>
        [T EXCEPT ![s].pc = x] \in [Subscribers -> Forward!Task(GroupEvent)]
  BY DEF Forward!Task
<1>2. x \in Nat =>
        /\ [T EXCEPT ![s].received = x]
             \in [Subscribers -> Forward!Task(GroupEvent)]
        /\ [T EXCEPT ![s].snapshot_sequence = x]
             \in [Subscribers -> Forward!Task(GroupEvent)]
  BY DEF Forward!Task
<1>3. x \subseteq GroupEvent =>
        [T EXCEPT ![s].snapshot = x]
          \in [Subscribers -> Forward!Task(GroupEvent)]
  BY DEF Forward!Task
<1>4. x \in GroupEvent \cup {None} =>
        [T EXCEPT ![s].update = x]
          \in [Subscribers -> Forward!Task(GroupEvent)]
  BY DEF Forward!Task
<1> QED BY <1>1, <1>2, <1>3, <1>4

LEMMA SubscriberStepType ==
  ASSUME TypeOK, SubscriberTypeOK, NEW s \in Subscribers, Shape(s),
         SubscriberStep(s), UNCHANGED side
  PROVE  SubscriberTypeOK'
<1> DEFINE Message == {Aborted} \cup GroupEvent
<1>0. /\ task \in [Subscribers -> Forward!Task(GroupEvent)]
      /\ queue \in [Subscribers -> Seq(Message)]
      /\ client \in [Subscribers -> Forward!Client]
      /\ \A t \in Subscribers : Len(queue[t]) <= QueueCapacity
      /\ view \in [Subscribers -> [GroupIds -> GroupEvent \cup {None}]]
      /\ cacheDropped \in BOOLEAN /\ side' = side
      /\ side \in [Subscribers -> Filters]
  BY DEF SubscriberTypeOK, Forward!TypeOK
<1>q. queue[s] \in Seq(Message) /\ Len(queue[s]) \in Nat
  BY <1>0, LenProperties
<1> SUFFICES /\ task' \in [Subscribers -> Forward!Task(GroupEvent)]
             /\ queue' \in [Subscribers -> Seq(Message)]
             /\ client' \in [Subscribers -> Forward!Client]
             /\ \A t \in Subscribers : Len(queue'[t]) <= QueueCapacity
             /\ view' \in [Subscribers -> [GroupIds -> GroupEvent \cup {None}]]
             /\ cacheDropped' = cacheDropped
  BY <1>0 DEF SubscriberTypeOK, Forward!TypeOK
<1>1. CASE Forward!Subscribe(s) /\ UNCHANGED view
  <2>1. groupTail \in Nat
    BY DEF TypeOK
  <2>2. task' = [task EXCEPT ![s].pc = "subscribed", ![s].received = groupTail]
    BY <1>1 DEF Forward!Subscribe
  <2>3. task' \in [Subscribers -> Forward!Task(GroupEvent)]
    BY <1>0, <2>1, <2>2 DEF Forward!Task
  <2> QED BY <1>0, <1>1, <2>3 DEF Forward!Subscribe
<1>2. CASE ReadSnapshot(s) /\ UNCHANGED view
  <2>1. Snapshot(s) \subseteq GroupEvent /\ sequence \in Nat
    BY SnapshotType DEF TypeOK
  <2> DEFINE t1 == [task EXCEPT ![s].pc = "forwarding"]
             t2 == [t1 EXCEPT ![s].snapshot = Snapshot(s)]
  <2>2. task' = [t2 EXCEPT ![s].snapshot_sequence = sequence]
    BY <1>2 DEF ReadSnapshot, Forward!ReadSnapshot
  <2>3. task' \in [Subscribers -> Forward!Task(GroupEvent)]
    <3>1. t1 \in [Subscribers -> Forward!Task(GroupEvent)]
      BY <1>0, TaskFields
    <3> HIDE DEF t1
    <3>2. t2 \in [Subscribers -> Forward!Task(GroupEvent)]
      BY <3>1, <2>1, TaskFields
    <3> HIDE DEF t2
    <3> QED BY <3>2, <2>1, <2>2, TaskFields
  <2> QED BY <1>0, <1>2, <2>3 DEF ReadSnapshot, Forward!ReadSnapshot
<1>3. CASE Receive(s) /\ UNCHANGED view
  <2>1. Forward!NextUpdate(s) \in GroupEvent
    BY <1>3, NextUpdateType DEF Receive, Forward!Receive
  <2>2. task' \in [Subscribers -> Forward!Task(GroupEvent)]
    <3> DEFINE t1 == [task EXCEPT ![s].received = task[s].received + 1]
               t2 == [t1 EXCEPT ![s].pc = "sending"]
    <3>1. task' = t1 \/ task' = [t2 EXCEPT ![s].update = Forward!NextUpdate(s)]
      BY <1>3 DEF Receive, Forward!Receive
    <3>2. task[s].received + 1 \in Nat
      BY <1>0 DEF Forward!Task
    <3>3. t1 \in [Subscribers -> Forward!Task(GroupEvent)]
      BY <1>0, <3>2, TaskFields
    <3> HIDE DEF t1
    <3>4. t2 \in [Subscribers -> Forward!Task(GroupEvent)]
      BY <3>3, TaskFields
    <3> HIDE DEF t2
    <3>5. [t2 EXCEPT ![s].update = Forward!NextUpdate(s)]
            \in [Subscribers -> Forward!Task(GroupEvent)]
      BY <3>4, <2>1, TaskFields
    <3> QED BY <3>1, <3>3, <3>5
  <2> QED BY <1>0, <1>3, <2>2 DEF Receive, Forward!Receive
<1>4. CASE Forward!SendSnapshot(s) /\ UNCHANGED view
  <2>1. PICK m \in task[s].snapshot :
          /\ queue' = [queue EXCEPT ![s] = Append(@, m)]
          /\ task' = [task EXCEPT ![s].snapshot = @ \ {m}]
    BY <1>4 DEF Forward!SendSnapshot, Forward!Enqueue
  <2>2. m \in GroupEvent
    BY <1>0 DEF Forward!Task
  <2>3. task' \in [Subscribers -> Forward!Task(GroupEvent)]
    BY <1>0, <2>1 DEF Forward!Task
  <2>4. Append(queue[s], m) \in Seq(Message)
        /\ Len(Append(queue[s], m)) = Len(queue[s]) + 1
    BY <1>q, <2>2, AppendProperties
  <2>5. Len(queue[s]) + 1 <= QueueCapacity
    BY <1>q, <1>4, GroupUpdatesAssumption DEF Forward!SendSnapshot, Forward!CanSend
  <2> QED BY <1>0, <1>4, <2>1, <2>3, <2>4, <2>5 DEF Forward!SendSnapshot
<1>5. CASE Forward!SendUpdate(s) /\ UNCHANGED view
  <2>1. task[s].update \in GroupEvent
    BY <1>0, <1>5 DEF Shape, Forward!SendUpdate, Forward!Task
  <2>2. task' \in [Subscribers -> Forward!Task(GroupEvent)]
    BY <1>0, <1>5 DEF Forward!SendUpdate, Forward!Task
  <2>3. Append(queue[s], task[s].update) \in Seq(Message)
        /\ Len(Append(queue[s], task[s].update)) = Len(queue[s]) + 1
    BY <1>q, <2>1, AppendProperties
  <2>4. Len(queue[s]) + 1 <= QueueCapacity
    BY <1>q, <1>5, GroupUpdatesAssumption DEF Forward!SendUpdate, Forward!CanSend
  <2> QED BY <1>0, <1>5, <2>2, <2>3, <2>4 DEF Forward!SendUpdate, Forward!Enqueue
<1>6. CASE (Forward!Lag(s) \/ Forward!Closed(s) \/ Forward!ClientGone(s))
             /\ UNCHANGED view
  <2>1. /\ UNCHANGED <<cacheDropped, queue, client>>
        /\ \/ task' = [task EXCEPT ![s].pc = "aborting"]
           \/ task' = [task EXCEPT ![s].pc = "done"]
    BY <1>6 DEF Forward!Lag, Forward!Closed, Forward!ClientGone
  <2>2. [task EXCEPT ![s].pc = "aborting"]
          \in [Subscribers -> Forward!Task(GroupEvent)]
    BY <1>0, TaskFields
  <2>3. [task EXCEPT ![s].pc = "done"]
          \in [Subscribers -> Forward!Task(GroupEvent)]
    BY <1>0, TaskFields
  <2> QED BY <1>0, <1>6, <2>1, <2>2, <2>3
<1>7. CASE Forward!SendAborted(s) /\ UNCHANGED view
  <2>1. task' \in [Subscribers -> Forward!Task(GroupEvent)]
    BY <1>0, <1>7 DEF Forward!SendAborted, Forward!Task
  <2>2. Append(queue[s], Aborted) \in Seq(Message)
        /\ Len(Append(queue[s], Aborted)) = Len(queue[s]) + 1
    BY <1>q, AppendProperties
  <2>3. Len(queue[s]) + 1 <= QueueCapacity
    BY <1>q, <1>7, GroupUpdatesAssumption DEF Forward!SendAborted, Forward!CanSend
  <2> QED BY <1>0, <1>7, <2>1, <2>2, <2>3 DEF Forward!SendAborted, Forward!Enqueue
<1>8. CASE Forward!Disconnect(s) /\ UNCHANGED view
  <2>1. <<>> \in Seq(Message) /\ Len(<<>>) = 0 /\ 0 <= QueueCapacity
    BY GroupUpdatesAssumption
  <2>2. queue' = [queue EXCEPT ![s] = <<>>]
    BY <1>8 DEF Forward!Disconnect
  <2>3. /\ queue' \in [Subscribers -> Seq(Message)]
        /\ \A t \in Subscribers : Len(queue'[t]) <= QueueCapacity
    BY <1>0, <2>1, <2>2
  <2> QED BY <1>0, <1>8, <2>3 DEF Forward!Disconnect, Forward!Client
<1>9. CASE ClientReceives(s)
  <2>1. /\ Tail(queue[s]) \in Seq(Message) /\ Len(Tail(queue[s])) = Len(queue[s]) - 1
        /\ Head(queue[s]) \in Message
    BY <1>q, <1>9, HeadTailProperties DEF ClientReceives, Forward!ClientReceives
  <2>2. view' \in [Subscribers -> [GroupIds -> GroupEvent \cup {None}]]
    <3>1. CASE Head(queue[s]) = Aborted
      BY <1>0, <1>9, <3>1 DEF ClientReceives
    <3>2. CASE Head(queue[s]) # Aborted
      <4>1. Head(queue[s]) \in GroupEvent /\ Head(queue[s]).id \in GroupIds
        BY <2>1, <3>2 DEF GroupEvent
      <4> QED BY <1>0, <1>9, <3>2, <4>1 DEF ClientReceives
    <3> QED BY <3>1, <3>2
  <2>3. client' \in [Subscribers -> Forward!Client]
    BY <1>0, <1>9 DEF ClientReceives, Forward!ClientReceives, Forward!Client
  <2>4. \A t \in Subscribers : Len(queue'[t]) <= QueueCapacity
    <3>1. \A t \in Subscribers : Len(queue[t]) \in Nat
      BY <1>0, LenProperties
    <3>2. Len(Tail(queue[s])) <= QueueCapacity
      BY <1>0, <1>q, <2>1, GroupUpdatesAssumption
    <3> QED BY <1>0, <1>9, <3>2 DEF ClientReceives, Forward!ClientReceives
  <2> QED BY <1>0, <1>9, <2>1, <2>2, <2>3, <2>4
          DEF ClientReceives, Forward!ClientReceives
<1> QED BY <1>1, <1>2, <1>3, <1>4, <1>5, <1>6, <1>7, <1>8, <1>9
        DEF SubscriberStep, TaskStep, Forward!ForwardStep

-----------------------------------------------------------------------------
(* The shape is kept. *)

LEMMA ShapeKept ==
  ASSUME TypeOK, SubscriberTypeOK, NEW s \in Subscribers, Shape(s),
         SubscriberStep(s), UNCHANGED cacheVars
  PROVE  Shape(s)'
<1> DEFINE Message == {Aborted} \cup GroupEvent
<1>0. /\ queue[s] \in Seq(Message) /\ groupTail' = groupTail /\ sequence' = sequence
      /\ groupTail \in Nat /\ sequence \in Nat /\ task[s].received \in Nat
      /\ task[s].snapshot_sequence \in Nat
      /\ Aborted \notin GroupEvent /\ None \in GroupEvent \cup {None}
  BY TaskType, GroupUpdatesAssumption DEF cacheVars, TypeOK
<1>q. /\ Len(queue[s]) \in Nat /\ DOMAIN queue[s] = 1..Len(queue[s])
  BY <1>0, LenProperties
\* A message that is no abort is appended while the task goes on.
<1>a. ASSUME NEW m \in GroupEvent, queue'[s] = Append(queue[s], m),
             task[s].pc \in {"forwarding", "sending"}
      PROVE  \A i \in DOMAIN queue'[s] : queue'[s][i] # Aborted
  <2>1. m \in Message
    OBVIOUS
  <2>2. /\ DOMAIN queue'[s] = 1..Len(queue[s])+1
        /\ \A i \in 1..Len(queue[s]) : queue'[s][i] = queue[s][i]
        /\ queue'[s][Len(queue[s]) + 1] = m
    BY <1>0, <1>a, <2>1, AppendElements
  <2>3. \A i \in 1..Len(queue[s]) : queue[s][i] # Aborted
    BY <1>q, <1>a DEF Shape
  <2>4. m # Aborted
    BY <1>0
  <2> QED BY <1>q, <2>2, <2>3, <2>4
<1>1. CASE Forward!Subscribe(s) /\ UNCHANGED view
  <2>1. /\ task[s].pc = "idle" /\ task'[s].pc = "subscribed"
        /\ QueueStill(s) /\ task'[s].received = groupTail
        /\ task'[s].snapshot = task[s].snapshot
        /\ task'[s].snapshot_sequence = task[s].snapshot_sequence
        /\ task'[s].update = task[s].update
    BY <1>1, SubscribeDoes
  <2> QED BY <1>0, <2>1 DEF Shape, QueueStill
<1>2. CASE ReadSnapshot(s) /\ UNCHANGED view
  <2>1. /\ task[s].pc = "subscribed" /\ task'[s].pc = "forwarding"
        /\ QueueStill(s) /\ task'[s].received = task[s].received
        /\ task'[s].snapshot_sequence = sequence
        /\ task'[s].update = task[s].update
    BY <1>2, ReadSnapshotDoes
  <2> QED BY <1>0, <2>1 DEF Shape, QueueStill
<1>3. CASE Receive(s) /\ UNCHANGED view
  <2>1. /\ task[s].pc = "forwarding" /\ task[s].snapshot = {}
        /\ task[s].received < groupTail /\ QueueStill(s)
        /\ task'[s].received = task[s].received + 1 /\ task'[s].snapshot = {}
        /\ task'[s].snapshot_sequence = task[s].snapshot_sequence
        /\ \/ task'[s].pc = "forwarding" /\ task'[s].update = task[s].update
           \/ /\ task'[s].pc = "sending"
              /\ task'[s].update = Forward!NextUpdate(s)
    BY <1>3, ReceiveDoes
  <2>2. Forward!NextUpdate(s) # None
    <3>1. Forward!NextUpdate(s) \in GroupEvent
      BY <2>1, NextUpdateType
    <3> QED BY <3>1, GroupUpdatesAssumption
  <2> QED BY <1>0, <2>1, <2>2 DEF Shape, QueueStill
<1>4. CASE Forward!SendSnapshot(s) /\ UNCHANGED view
  <2>1. /\ task[s].pc = "forwarding" /\ client[s].connected
        /\ client'[s] = client[s] /\ task'[s].pc = "forwarding"
        /\ task'[s].received = task[s].received
        /\ task'[s].snapshot_sequence = task[s].snapshot_sequence
        /\ task'[s].update = task[s].update
        /\ \E m \in task[s].snapshot : queue'[s] = Append(queue[s], m)
    BY <1>4, SendSnapshotDoes
  <2>2. \A i \in DOMAIN queue'[s] : queue'[s][i] # Aborted
    BY <1>a, <2>1, TaskType
  <2> QED BY <1>0, <2>1, <2>2 DEF Shape
<1>5. CASE Forward!SendUpdate(s) /\ UNCHANGED view
  <2>1. /\ task[s].pc = "sending" /\ client[s].connected
        /\ client'[s] = client[s] /\ task'[s].pc = "forwarding"
        /\ task'[s].received = task[s].received
        /\ task'[s].snapshot_sequence = task[s].snapshot_sequence
        /\ task'[s].update = None
        /\ queue'[s] = Append(queue[s], task[s].update)
    BY <1>5, SendUpdateDoes
  <2>2. task[s].update \in GroupEvent
    BY <2>1, TaskType DEF Shape
  <2>3. \A i \in DOMAIN queue'[s] : queue'[s][i] # Aborted
    BY <1>a, <2>1, <2>2
  <2> QED BY <1>0, <2>1, <2>3 DEF Shape
<1>6. CASE (Forward!Lag(s) \/ Forward!Closed(s) \/ Forward!ClientGone(s))
             /\ UNCHANGED view
  <2>1. /\ Proceeds(s)
        /\ \/ /\ task[s].pc = "forwarding" /\ task[s].snapshot = {}
              /\ task'[s].pc \in {"aborting", "done"}
           \/ /\ task[s].pc \in {"forwarding", "sending", "aborting"}
              /\ ~client[s].connected /\ task'[s].pc = "done"
    BY <1>6, StopDoes
  <2> QED BY <1>0, <2>1 DEF Shape, Proceeds, QueueStill
<1>7. CASE Forward!SendAborted(s) /\ UNCHANGED view
  <2>1. /\ task[s].pc = "aborting" /\ client[s].connected
        /\ client'[s] = client[s] /\ task'[s].pc = "done"
        /\ task'[s].received = task[s].received
        /\ task'[s].snapshot = task[s].snapshot
        /\ task'[s].snapshot_sequence = task[s].snapshot_sequence
        /\ task'[s].update = task[s].update
        /\ queue'[s] = Append(queue[s], Aborted)
    BY <1>7, SendAbortedDoes
  <2>2. Aborted \in Message
    OBVIOUS
  <2>3. /\ DOMAIN queue'[s] = 1..Len(queue[s])+1 /\ Len(queue'[s]) = Len(queue[s]) + 1
        /\ \A i \in 1..Len(queue[s]) : queue'[s][i] = queue[s][i]
    BY <1>0, <2>1, <2>2, AppendElements
  <2>4. \A i \in 1..Len(queue[s]) : queue[s][i] # Aborted
    BY <1>q, <2>1 DEF Shape
  <2>5. \A i \in DOMAIN queue'[s] : queue'[s][i] = Aborted => i = Len(queue'[s])
    BY <1>q, <2>3, <2>4
  <2> QED BY <1>0, <2>1, <2>5 DEF Shape
<1>8. CASE Forward!Disconnect(s) /\ UNCHANGED view
  <2>1. /\ client[s].connected /\ task[s].pc \notin {"idle", "subscribed"}
        /\ task'[s] = task[s] /\ queue'[s] = <<>>
        /\ ~client'[s].connected /\ client'[s].aborted = client[s].aborted
    BY <1>8, DisconnectDoes
  <2> QED BY <1>0, <2>1 DEF Shape
<1>9. CASE ClientReceives(s)
  <2>1. /\ client[s].connected /\ queue[s] # <<>>
        /\ task'[s] = task[s] /\ queue'[s] = Tail(queue[s])
        /\ client'[s].connected
        /\ client'[s].aborted = (client[s].aborted \/ Head(queue[s]) = Aborted)
    BY <1>9, ClientReceivesDoes
  <2>2. /\ Len(queue[s]) > 0 /\ Len(queue'[s]) = Len(queue[s]) - 1
        /\ DOMAIN queue'[s] = 1..Len(queue[s])-1
        /\ \A i \in 1..Len(queue[s])-1 :
             queue'[s][i] = queue[s][i + 1] /\ i + 1 \in 1..Len(queue[s])
        /\ Head(queue[s]) = queue[s][1] /\ queue'[s] \in Seq(Message)
    BY <1>0, <2>1, TailElements
  <2>3. task[s].pc \notin {"idle", "subscribed"}
    BY <2>1 DEF Shape
  <2>4. \A i \in DOMAIN queue'[s] :
          queue'[s][i] = Aborted => i = Len(queue'[s]) /\ task'[s].pc = "done"
    <3> SUFFICES ASSUME NEW i \in 1..Len(queue[s])-1, queue'[s][i] = Aborted
                 PROVE  i = Len(queue'[s]) /\ task'[s].pc = "done"
      BY <2>2
    <3>1. i + 1 \in DOMAIN queue[s] /\ queue[s][i + 1] = Aborted
      BY <1>q, <2>2
    <3>2. i + 1 = Len(queue[s]) /\ task[s].pc = "done"
      BY <3>1 DEF Shape
    <3> QED BY <1>q, <2>1, <2>2, <3>2
  <2>5. client'[s].aborted => queue'[s] = <<>> /\ task'[s].pc = "done"
    <3>1. CASE client[s].aborted
      BY <2>1, <3>1 DEF Shape
    <3>2. CASE Head(queue[s]) = Aborted
      <4>1. 1 = Len(queue[s]) /\ task[s].pc = "done"
        <5>1. 1 \in DOMAIN queue[s] /\ queue[s][1] = Aborted
          BY <1>q, <2>2, <3>2
        <5> QED BY <5>1 DEF Shape
      <4>2. Len(queue'[s]) = 0
        BY <2>2, <4>1
      <4> QED BY <2>1, <2>2, <4>1, <4>2, EmptySeq
    <3> QED BY <2>1, <3>1, <3>2
  <2> QED BY <1>0, <2>1, <2>3, <2>4, <2>5 DEF Shape
<1> QED BY <1>1, <1>2, <1>3, <1>4, <1>5, <1>6, <1>7, <1>8, <1>9
        DEF SubscriberStep, TaskStep, Forward!ForwardStep

-----------------------------------------------------------------------------
(* What the cache's channel holds, and what a filter shows of it. *)

LEMMA NumbersOfEvents ==
  ASSUME LogInv
  PROVE  /\ Len(groupUpdates) \in Nat /\ sequence \in Nat
         /\ DOMAIN groupUpdates = 1..Len(groupUpdates)
         /\ \A i \in 1..Len(groupUpdates) :
              /\ groupUpdates[i] \in GroupEvent
              /\ groupUpdates[i].sequence \in 1..sequence
              /\ groupUpdates[i].id \in GroupIds
              /\ \A j \in i+1..Len(groupUpdates) :
                   groupUpdates[i].sequence < groupUpdates[j].sequence
<1>1. groupUpdates \in Seq(GroupEvent) /\ sequence \in Nat
  BY DEF LogInv, IInv, TypeOK
<1>2. Len(groupUpdates) \in Nat /\ DOMAIN groupUpdates = 1..Len(groupUpdates)
  BY <1>1, LenProperties
<1>3. Ordered(groupUpdates, simulationUpdates, sequence)
  BY SequenceOrderedIs DEF LogInv
<1>4. ASSUME NEW i \in 1..Len(groupUpdates)
      PROVE  /\ groupUpdates[i] \in GroupEvent
             /\ groupUpdates[i].sequence \in 1..sequence
             /\ groupUpdates[i].id \in GroupIds
  <2>1. groupUpdates[i] \in GroupEvent
    BY <1>1, ElementOfSeq
  <2>2. groupUpdates[i].sequence \in Numbers(groupUpdates)
    BY <1>2 DEF Numbers
  <2>3. groupUpdates[i].sequence \in 1..sequence
    BY <2>2, <1>3 DEF Ordered
  <2> QED BY <2>1, <2>3 DEF GroupEvent
<1>5. ASSUME NEW i \in 1..Len(groupUpdates), NEW j \in i+1..Len(groupUpdates)
      PROVE  groupUpdates[i].sequence < groupUpdates[j].sequence
  <2>1. j \in DOMAIN groupUpdates /\ i \in 1..j-1
    BY <1>2
  <2> QED BY <2>1, <1>3 DEF Ordered, Increasing
<1> QED BY <1>1, <1>2, <1>4, <1>5

LEMMA GroupTypesNext ==
  ASSUME LogInv, [Next]_cacheVars
  PROVE  /\ Len(groupUpdates') \in Nat /\ sequence' \in Nat
         /\ DOMAIN groupUpdates' = 1..Len(groupUpdates')
         /\ \A i \in 1..Len(groupUpdates') : groupUpdates'[i].sequence \in Nat
<1>1. groupUpdates' \in Seq(GroupEvent) /\ sequence' \in Nat
  BY NextLogInv DEF LogInv, IInv, TypeOK
<1>2. \A i \in 1..Len(groupUpdates') : groupUpdates'[i] \in GroupEvent
  BY <1>1, ElementOfSeq
<1> QED BY <1>1, <1>2, LenProperties DEF GroupEvent

\* What an event shows through the filter.
LEMMA MatchesFiltered ==
  ASSUME NEW s, NEW e
  PROVE  /\ Matches(s, e) => e.group = Filtered(e.group, side[s])
         /\ ~Matches(s, e) => Filtered(e.group, side[s]) = None
BY DEF Matches, Filtered

\* The filter shows what the last event told.
LEMMA ValueIs ==
  ASSUME LogInv, NEW s, NEW g, NEW n, NEW i \in EventsUntil(g, n),
         \A j \in EventsUntil(g, n) : j <= i
  PROVE  ValueAt(s, g, n) = Filtered(groupUpdates[i].group, side[s])
<1>1. EventsUntil(g, n) \subseteq 1..Len(groupUpdates) /\ Len(groupUpdates) \in Nat
  BY NumbersOfEvents DEF EventsUntil
<1>2. Max(EventsUntil(g, n)) = i
  BY <1>1, LastPlaceIs
<1> QED BY <1>2, MatchesFiltered DEF ValueAt

LEMMA ValueOfEvent ==
  ASSUME LogInv, NEW s, NEW i \in 1..Len(groupUpdates)
  PROVE  ValueAt(s, groupUpdates[i].id, groupUpdates[i].sequence)
           = Filtered(groupUpdates[i].group, side[s])
<1> DEFINE g == groupUpdates[i].id
           n == groupUpdates[i].sequence
<1>1. i \in EventsUntil(g, n)
  BY NumbersOfEvents DEF EventsUntil
<1>2. ASSUME NEW j \in EventsUntil(g, n) PROVE j <= i
  <2>1. j \in 1..Len(groupUpdates) /\ groupUpdates[j].sequence <= n
    BY NumbersOfEvents DEF EventsUntil
  <2>2. CASE j > i
    <3>1. j \in i+1..Len(groupUpdates)
      BY <2>1, <2>2, NumbersOfEvents
    <3>2. n < groupUpdates[j].sequence
      BY <3>1, NumbersOfEvents
    <3>3. n \in Nat /\ groupUpdates[j].sequence \in Nat
      BY <2>1, NumbersOfEvents
    <3> QED BY <2>1, <3>2, <3>3
  <2> QED BY <2>1, <2>2, NumbersOfEvents
<1> HIDE DEF g, n
<1>3. ValueAt(s, g, n) = Filtered(groupUpdates[i].group, side[s])
  BY <1>1, <1>2, ValueIs
<1> QED BY <1>3 DEF g, n

LEMMA ValueNow ==
  ASSUME LogInv, NEW s, NEW g \in GroupIds
  PROVE  ValueAt(s, g, sequence) = Filtered(JoinedGroup(g), side[s])
<1> DEFINE T == EventsUntil(g, sequence)
<1>1. T = {i \in DOMAIN groupUpdates : groupUpdates[i].id = g}
  BY NumbersOfEvents DEF EventsUntil
<1>2. Tells(groupUpdates, g, JoinedGroup(g))
  BY DEF LogInv, IInv, EventsTellCache
<1>3. CASE Silent(groupUpdates, g) /\ JoinedGroup(g) = None
  BY <1>1, <1>3 DEF Silent, ValueAt, Filtered
<1>4. CASE TellsLast(groupUpdates, g, JoinedGroup(g))
  <2>1. PICK i \in DOMAIN groupUpdates :
          /\ groupUpdates[i].id = g /\ groupUpdates[i].group = JoinedGroup(g)
          /\ \A j \in DOMAIN groupUpdates : j > i => groupUpdates[j].id # g
    BY <1>4 DEF TellsLast
  <2>2. \A j \in T : j <= i
    BY <1>1, <2>1, NumbersOfEvents
  <2>3. i \in T
    BY <1>1, <2>1
  <2> QED BY <2>1, <2>2, <2>3, ValueIs
<1> QED BY <1>2, <1>3, <1>4 DEF Tells

\* What a step of the cache leaves as it was.
LEMMA ValueKept ==
  ASSUME LogInv, [Next]_cacheVars, UNCHANGED side, NEW s, NEW g,
         NEW n \in Nat, n <= sequence
  PROVE  ValueAt(s, g, n)' = ValueAt(s, g, n)
<1>1. /\ Len(groupUpdates) \in Nat /\ DOMAIN groupUpdates = 1..Len(groupUpdates)
      /\ sequence \in Nat
  BY NumbersOfEvents
<1>2. /\ Len(groupUpdates') \in Nat /\ DOMAIN groupUpdates' = 1..Len(groupUpdates')
      /\ \A i \in 1..Len(groupUpdates') : groupUpdates'[i].sequence \in Nat
  BY GroupTypesNext
<1>3. /\ Len(groupUpdates) <= Len(groupUpdates')
      /\ \A i \in 1..Len(groupUpdates) : groupUpdates'[i] = groupUpdates[i]
      /\ \A i \in Len(groupUpdates)+1..Len(groupUpdates') :
           groupUpdates'[i].sequence > sequence
  BY LogsGrow DEF Grows
<1>4. EventsUntil(g, n)' = EventsUntil(g, n)
  <2>1. ASSUME NEW i \in EventsUntil(g, n)' PROVE i \in EventsUntil(g, n)
    <3>1. /\ i \in 1..Len(groupUpdates') /\ groupUpdates'[i].id = g
          /\ groupUpdates'[i].sequence <= n
      BY <1>2 DEF EventsUntil
    <3>2. i \notin Len(groupUpdates)+1..Len(groupUpdates')
      BY <3>1, <1>1, <1>2, <1>3
    <3>3. i \in 1..Len(groupUpdates)
      BY <3>1, <3>2, <1>1, <1>2
    <3> QED BY <3>1, <3>3, <1>1, <1>3 DEF EventsUntil
  <2>2. ASSUME NEW i \in EventsUntil(g, n) PROVE i \in EventsUntil(g, n)'
    <3>1. i \in 1..Len(groupUpdates) /\ i \in 1..Len(groupUpdates')
      BY <1>1, <1>2, <1>3 DEF EventsUntil
    <3> QED BY <3>1, <1>2, <1>3 DEF EventsUntil
  <2> QED BY <2>1, <2>2
<1>5. CASE EventsUntil(g, n) = {}
  BY <1>4, <1>5 DEF ValueAt
<1>6. CASE EventsUntil(g, n) # {}
  <2> DEFINE k == Max(EventsUntil(g, n))
  <2>1. k \in 1..Len(groupUpdates)
    <3>1. EventsUntil(g, n) \subseteq 1..Len(groupUpdates)
      BY <1>1 DEF EventsUntil
    <3>2. k \in EventsUntil(g, n)
      BY <1>1, <1>6, <3>1, LastPlace
    <3> QED BY <3>1, <3>2
  <2>2. k' = k
    BY <1>4
  <2>3. groupUpdates'[k] = groupUpdates[k]
    BY <1>3, <2>1
  <2>4. groupUpdates'[k'] = groupUpdates[k]
    BY <2>2, <2>3
  <2> HIDE DEF k
  <2> QED BY <1>4, <1>6, <2>4 DEF ValueAt, Matches, k
<1> QED BY <1>5, <1>6

-----------------------------------------------------------------------------
(* A step of the cache, or of another subscriber. *)

Passes(e, f) == e.group = None \/ MatchesSide(e.group.side, f)

\* Events that tell a change from v to w tell it through any filter: the last
\* that passes is what the filter shows of w, or it shows what it did.
LEMMA NewEventsShow ==
  ASSUME NEW S, NEW new \in Seq(S), NEW f, NEW g, NEW v, NEW w,
         Accounts(new, g, v, w)
  PROVE  \/ /\ \A i \in 1..Len(new) : new[i].id = g => ~Passes(new[i], f)
            /\ Filtered(w, f) = Filtered(v, f)
         \/ \E i \in 1..Len(new) :
              /\ new[i].id = g /\ Passes(new[i], f)
              /\ new[i].group = Filtered(w, f)
              /\ \A j \in 1..Len(new) :
                   j > i /\ new[j].id = g => ~Passes(new[j], f)
<1>1. Len(new) \in Nat /\ DOMAIN new = 1..Len(new)
  BY LenProperties
<1>2. CASE Silent(new, g) /\ v = w
  BY <1>1, <1>2 DEF Silent
<1>3. CASE Once(new, g, v, w)
  <2>1. PICK i \in 1..Len(new) :
          /\ new[i].id = g /\ new[i].group = w
          /\ \A k \in 1..Len(new) : k # i => new[k].id # g
          /\ v # w
          /\ v # None /\ w # None => v.side = w.side
    BY <1>1, <1>3 DEF Once
  <2>2. CASE Passes(new[i], f)
    <3>1. new[i].group = Filtered(w, f)
      BY <2>1, <2>2 DEF Passes, Filtered
    <3>2. \A j \in 1..Len(new) : j > i => new[j].id # g
      BY <2>1
    <3> QED BY <2>1, <2>2, <3>1, <3>2
  <2>3. CASE ~Passes(new[i], f)
    <3>1. Filtered(w, f) = Filtered(v, f)
      BY <2>1, <2>3 DEF Passes, Filtered
    <3> QED BY <2>1, <2>3, <3>1
  <2> QED BY <2>2, <2>3
<1>4. CASE Twice(new, g, v, w)
  <2>1. PICK i, j \in 1..Len(new) :
          /\ i < j
          /\ new[i].id = g /\ new[i].group = None
          /\ new[j].id = g /\ new[j].group = w
          /\ \A k \in 1..Len(new) : k # i /\ k # j => new[k].id # g
          /\ v # None /\ w # None
    BY <1>1, <1>4 DEF Twice
  <2>2. CASE Passes(new[j], f)
    <3>1. new[j].group = Filtered(w, f)
      BY <2>1, <2>2 DEF Passes, Filtered
    <3>2. \A k \in 1..Len(new) : k > j => new[k].id # g
      BY <2>1
    <3> QED BY <2>1, <2>2, <3>1, <3>2
  <2>3. CASE ~Passes(new[j], f)
    <3>1. Passes(new[i], f) /\ new[i].group = Filtered(w, f)
      BY <2>1, <2>3 DEF Passes, Filtered
    <3>2. \A k \in 1..Len(new) : k > i /\ new[k].id = g => k = j
      BY <2>1
    <3> QED BY <2>1, <2>3, <3>1, <3>2
  <2> QED BY <2>2, <2>3
<1> QED BY <1>2, <1>3, <1>4 DEF Accounts

LEMMA CacheStepTells ==
  ASSUME LogInv, [Next]_cacheVars
  PROVE  GroupsTold \/ UNCHANGED <<units, groups, members, groupUpdates>>
<1>1. CASE Write
  BY <1>1, WriteTells DEF LogInv, IInv, GroupsUntouched
<1>2. CASE ~Write
  BY <1>2 DEF Next, SendGroupUpdate, SendSimulationUpdate, cacheVars
<1> QED BY <1>1, <1>2

\* The step is none of this subscriber's.
SubscriberStill(s) ==
  /\ task'[s] = task[s] /\ queue'[s] = queue[s] /\ client'[s] = client[s]
  /\ view'[s] = view[s] /\ side' = side

LEMMA SoundKept ==
  ASSUME LogInv, [Next]_cacheVars, SubscriberTypeOK, NEW s \in Subscribers,
         SubscriberStill(s), NEW m, Sound(s, m)
  PROVE  Sound(s, m)'
<1>1. /\ m \in GroupEvent /\ m.sequence \in 1..sequence /\ Matches(s, m)
      /\ m.group = ValueAt(s, m.id, m.sequence)
  BY DEF Sound, Truthful
<1>2. sequence \in Nat /\ sequence' \in Nat /\ sequence <= sequence'
  BY NumbersOfEvents, GroupTypesNext, LogsGrow
<1>3. ValueAt(s, m.id, m.sequence)' = ValueAt(s, m.id, m.sequence)
  <2>1. m.sequence \in Nat /\ m.sequence <= sequence
    BY <1>1, <1>2
  <2> QED BY <2>1, ValueKept DEF SubscriberStill
<1>4. Truthful(s, m)'
  BY <1>1, <1>2, <1>3 DEF Truthful, SubscriberStill, Matches
<1>5. Older(s, m)'
  <2> SUFFICES ASSUME NEW i \in task[s].received+1 .. Len(groupUpdates'),
                      ~(groupUpdates'[i].sequence <= task[s].snapshot_sequence)
               PROVE  m.sequence < groupUpdates'[i].sequence
    BY DEF Older, Forward!InSnapshot, SubscriberStill
  <2>1. /\ Len(groupUpdates) \in Nat /\ Len(groupUpdates') \in Nat
        /\ Len(groupUpdates) <= Len(groupUpdates')
        /\ \A k \in 1..Len(groupUpdates) : groupUpdates'[k] = groupUpdates[k]
        /\ \A k \in Len(groupUpdates)+1..Len(groupUpdates') :
             groupUpdates'[k].sequence > sequence
    BY NumbersOfEvents, GroupTypesNext, LogsGrow DEF Grows
  <2>2. task[s].received \in Nat /\ i \in 1..Len(groupUpdates')
    BY TaskType, <2>1
  <2>3. CASE i \in 1..Len(groupUpdates)
    <3>1. i \in task[s].received+1 .. Len(groupUpdates)
      BY <2>3, <2>2
    <3> QED BY <2>1, <2>3, <3>1 DEF Sound, Older, Forward!InSnapshot
  <2>4. CASE i \in Len(groupUpdates)+1..Len(groupUpdates')
    <3>1. groupUpdates'[i].sequence > sequence /\ groupUpdates'[i].sequence \in Nat
      BY <2>1, <2>2, <2>4, GroupTypesNext
    <3> QED BY <1>1, <1>2, <3>1
  <2> QED BY <2>1, <2>2, <2>3, <2>4
<1> QED BY <1>4, <1>5 DEF Sound

\* Which events are still to come.
LEMMA ToComeGrows ==
  ASSUME LogInv, [Next]_cacheVars, SubscriberTypeOK, NEW s \in Subscribers,
         Shape(s), SubscriberStill(s)
  PROVE  /\ \A i \in 1..Len(groupUpdates) : i \in ToCome(s)' <=> i \in ToCome(s)
         /\ \A i \in Len(groupUpdates)+1..Len(groupUpdates') :
              i \in ToCome(s)' <=> Passes(groupUpdates'[i], side[s])
         /\ ToCome(s) \subseteq 1..Len(groupUpdates)
         /\ ToCome(s)' \subseteq 1..Len(groupUpdates')
<1>1. /\ Len(groupUpdates) \in Nat /\ Len(groupUpdates') \in Nat
      /\ Len(groupUpdates) <= Len(groupUpdates')
      /\ sequence \in Nat
      /\ \A k \in 1..Len(groupUpdates) : groupUpdates'[k] = groupUpdates[k]
      /\ \A k \in Len(groupUpdates)+1..Len(groupUpdates') :
           groupUpdates'[k].sequence > sequence
      /\ \A k \in 1..Len(groupUpdates') : groupUpdates'[k].sequence \in Nat
  BY NumbersOfEvents, GroupTypesNext, LogsGrow DEF Grows
<1>2. /\ task[s].received \in Nat /\ task[s].snapshot_sequence \in Nat
      /\ task[s].received <= Len(groupUpdates)
      /\ task[s].snapshot_sequence <= sequence
  BY TaskType, <1>1 DEF Shape, LogInv, IInv, TypeOK
<1>3. ToCome(s) = {i \in task[s].received+1 .. Len(groupUpdates) :
                     /\ ~(groupUpdates[i].sequence <= task[s].snapshot_sequence)
                     /\ Passes(groupUpdates[i], side[s])}
  BY DEF ToCome, Forward!InSnapshot, Matches, Passes
<1>4. ToCome(s)' = {i \in task[s].received+1 .. Len(groupUpdates') :
                      /\ ~(groupUpdates'[i].sequence <= task[s].snapshot_sequence)
                      /\ Passes(groupUpdates'[i], side[s])}
  BY DEF ToCome, Forward!InSnapshot, Matches, Passes, SubscriberStill
<1>5. ASSUME NEW i \in 1..Len(groupUpdates)
      PROVE  i \in ToCome(s)' <=> i \in ToCome(s)
  BY <1>1, <1>2, <1>3, <1>4
<1>6. ASSUME NEW i \in Len(groupUpdates)+1..Len(groupUpdates')
      PROVE  i \in ToCome(s)' <=> Passes(groupUpdates'[i], side[s])
  <2>1. /\ i \in task[s].received+1 .. Len(groupUpdates')
        /\ ~(groupUpdates'[i].sequence <= task[s].snapshot_sequence)
    BY <1>1, <1>2
  <2> QED BY <2>1, <1>4
<1>7. ToCome(s) \subseteq 1..Len(groupUpdates)
  BY <1>1, <1>2, <1>3
<1>8. ToCome(s)' \subseteq 1..Len(groupUpdates')
  BY <1>1, <1>2, <1>4
<1> QED BY <1>5, <1>6, <1>7, <1>8

\* Nothing new passes the filter: what was on its way still is.
LEMMA StaysOnItsWay ==
  ASSUME LogInv, [Next]_cacheVars, SubscriberTypeOK, NEW s \in Subscribers,
         Shape(s), SubscriberStill(s), NEW g, NEW v, OnItsWay(s, g, v),
         \A i \in Len(groupUpdates)+1..Len(groupUpdates') :
           groupUpdates'[i].id = g => ~Passes(groupUpdates'[i], side[s])
  PROVE  OnItsWay(s, g, v)'
<1>1. /\ \A i \in 1..Len(groupUpdates) : i \in ToCome(s)' <=> i \in ToCome(s)
      /\ \A i \in Len(groupUpdates)+1..Len(groupUpdates') :
           i \in ToCome(s)' <=> Passes(groupUpdates'[i], side[s])
      /\ ToCome(s) \subseteq 1..Len(groupUpdates)
      /\ ToCome(s)' \subseteq 1..Len(groupUpdates')
  BY ToComeGrows
<1>2. /\ Len(groupUpdates) \in Nat /\ Len(groupUpdates') \in Nat
      /\ Len(groupUpdates) <= Len(groupUpdates')
      /\ \A k \in 1..Len(groupUpdates) : groupUpdates'[k] = groupUpdates[k]
  BY NumbersOfEvents, GroupTypesNext, LogsGrow DEF Grows
<1>3. \A i \in ToCome(s)' : \/ i \in ToCome(s) /\ groupUpdates'[i] = groupUpdates[i]
                            \/ groupUpdates'[i].id # g
  <2> SUFFICES ASSUME NEW i \in ToCome(s)', i \notin 1..Len(groupUpdates)
               PROVE  groupUpdates'[i].id # g
    BY <1>1, <1>2
  <2>1. i \in Len(groupUpdates)+1..Len(groupUpdates')
    BY <1>1, <1>2
  <2> QED BY <2>1, <1>1
<1>4. \A i \in ToCome(s) : i \in ToCome(s)' /\ groupUpdates'[i] = groupUpdates[i]
  BY <1>1, <1>2
<1>5. LastAt(groupUpdates, ToCome(s), g, v) => LastAt(groupUpdates, ToCome(s), g, v)'
  BY <1>3, <1>4 DEF LastAt
<1>6. NoneAt(groupUpdates, ToCome(s), g) => NoneAt(groupUpdates, ToCome(s), g)'
  BY <1>3, <1>4 DEF NoneAt
<1>7. Pending(s)' = Pending(s) /\ view'[s] = view[s] /\ task'[s] = task[s]
  BY DEF Pending, SubscriberStill
<1>8. /\ TellsLast(Pending(s), g, v)' <=> TellsLast(Pending(s), g, v)
      /\ Silent(Pending(s), g)' <=> Silent(Pending(s), g)
      /\ Shows(view[s], task[s].snapshot, g, v)'
           <=> Shows(view[s], task[s].snapshot, g, v)
  BY <1>7 DEF TellsLast, Silent, Shows
<1> QED BY <1>5, <1>6, <1>8 DEF OnItsWay

\* The new events tell the change, or the filter shows none.
LEMMA ToldOnItsWay ==
  ASSUME LogInv, [Next]_cacheVars, SubscriberTypeOK, NEW s \in Subscribers,
         Shape(s), SubscriberStill(s),
         NEW new \in Seq(GroupEvent), groupUpdates' = groupUpdates \o new,
         NEW f, f = side[s], NEW g, NEW v, NEW w, Accounts(new, g, v, w),
         OnItsWay(s, g, Filtered(v, f))
  PROVE  OnItsWay(s, g, Filtered(w, f))'
<1> DEFINE n == Len(groupUpdates)
<1>1. groupUpdates \in Seq(GroupEvent)
  BY DEF LogInv, IInv, TypeOK
<1>2. /\ n \in Nat /\ Len(new) \in Nat /\ Len(groupUpdates') = n + Len(new)
      /\ \A i \in 1..Len(new) : groupUpdates'[n + i] = new[i]
      /\ \A i \in n+1..n+Len(new) :
           i - n \in 1..Len(new) /\ groupUpdates'[i] = new[i - n]
  BY <1>1, ConcatElements
<1>3. /\ \A i \in n+1..Len(groupUpdates') :
           i \in ToCome(s)' <=> Passes(groupUpdates'[i], f)
      /\ ToCome(s)' \subseteq 1..Len(groupUpdates')
  BY ToComeGrows
<1> HIDE DEF n
<1>4. CASE /\ \A i \in 1..Len(new) : new[i].id = g => ~Passes(new[i], f)
           /\ Filtered(w, f) = Filtered(v, f)
  <2>1. \A i \in n+1..Len(groupUpdates') :
          groupUpdates'[i].id = g => ~Passes(groupUpdates'[i], f)
    BY <1>2, <1>4
  <2>2. OnItsWay(s, g, Filtered(v, f))'
    <3> DEFINE x == Filtered(v, f)
    <3>1. OnItsWay(s, g, x)
      OBVIOUS
    <3> HIDE DEF x
    <3>2. OnItsWay(s, g, x)'
      BY <2>1, <3>1, StaysOnItsWay DEF n
    <3> QED BY <3>2 DEF x
  <2> QED BY <1>4, <2>2
<1>5. ASSUME NEW i \in 1..Len(new), new[i].id = g, Passes(new[i], f),
             new[i].group = Filtered(w, f),
             \A j \in 1..Len(new) : j > i /\ new[j].id = g => ~Passes(new[j], f)
      PROVE  OnItsWay(s, g, Filtered(w, f))'
  <2>1. n + i \in n+1..Len(groupUpdates') /\ groupUpdates'[n + i] = new[i]
    BY <1>2
  <2>2. n + i \in ToCome(s)'
    BY <2>1, <1>3, <1>5
  <2>3. ASSUME NEW j \in ToCome(s)', j > n + i
        PROVE  groupUpdates'[j].id # g
    <3>1. j \in n+1..n+Len(new)
      BY <2>3, <1>2, <1>3
    <3>2. Passes(groupUpdates'[j], f)
      BY <3>1, <1>2, <1>3
    <3>3. j - n \in 1..Len(new) /\ j - n > i /\ groupUpdates'[j] = new[j - n]
      BY <3>1, <2>3, <1>2
    <3> QED BY <3>2, <3>3, <1>5
  <2> DEFINE x == Filtered(w, f)
  <2>4. new[i].group = x
    BY <1>5
  <2> HIDE DEF x
  <2>5. LastAt(groupUpdates, ToCome(s), g, x)'
    BY <2>1, <2>2, <2>3, <2>4, <1>5 DEF LastAt
  <2>6. OnItsWay(s, g, x)'
    BY <2>5 DEF OnItsWay
  <2> QED BY <2>6 DEF x
<1>6. \/ /\ \A i \in 1..Len(new) : new[i].id = g => ~Passes(new[i], f)
         /\ Filtered(w, f) = Filtered(v, f)
      \/ \E i \in 1..Len(new) :
           /\ new[i].id = g /\ Passes(new[i], f)
           /\ new[i].group = Filtered(w, f)
           /\ \A j \in 1..Len(new) :
                j > i /\ new[j].id = g => ~Passes(new[j], f)
  BY NewEventsShow
<1> QED BY <1>4, <1>5, <1>6

LEMMA TailGrows ==
  ASSUME LogInv, [Next]_cacheVars
  PROVE  groupTail <= groupTail'
<1>1. groupTail \in Nat
  BY DEF LogInv, IInv, TypeOK
<1>2. CASE Write
  BY <1>1, <1>2, WriteTells DEF LogInv, IInv, GroupsTold, GroupsUntouched
<1>3. CASE ~Write
  BY <1>1, <1>3 DEF Next, SendGroupUpdate, SendSimulationUpdate, cacheVars
<1> QED BY <1>2, <1>3

LEMMA StillKeeps ==
  ASSUME LogInv, [Next]_cacheVars, SubscriberTypeOK, NEW s \in Subscribers,
         SubscriberInv(s), SubscriberStill(s)
  PROVE  SubscriberInv(s)'
<1>1. Shape(s) /\ Delivers(s) /\ UpToDate(s)
  BY DEF SubscriberInv
<1>2. Shape(s)'
  <2>1. groupTail <= groupTail' /\ sequence <= sequence'
    BY TailGrows, LogsGrow
  <2>2. /\ task[s].received \in Nat /\ task[s].snapshot_sequence \in Nat
        /\ groupTail \in Nat /\ groupTail' \in Nat
        /\ sequence \in Nat /\ sequence' \in Nat
    <3>1. TypeOK /\ TypeOK'
      BY NextLogInv DEF LogInv, IInv
    <3> QED BY <3>1, TaskType DEF TypeOK
  <2>3. task[s].received <= groupTail' /\ task[s].snapshot_sequence <= sequence'
    BY <1>1, <2>1, <2>2 DEF Shape
  <2> QED BY <1>1, <2>3 DEF Shape, SubscriberStill
<1>3. Delivers(s)'
  <2>1. \A m : Sound(s, m) => Sound(s, m)'
    BY SoundKept
  <2>2. Pending(s)' = Pending(s)
    BY DEF Pending, SubscriberStill
  <2> QED BY <1>1, <2>1, <2>2 DEF Delivers, SubscriberStill
<1>4. UpToDate(s)'
  <2> SUFFICES ASSUME task'[s].pc \in {"forwarding", "sending"},
                      client'[s].connected, NEW g \in GroupIds
               PROVE  OnItsWay(s, g, Filtered(JoinedGroup(g), side[s]))'
    BY DEF UpToDate
  <2>1. OnItsWay(s, g, Filtered(JoinedGroup(g), side[s]))
    BY <1>1 DEF UpToDate, SubscriberStill
  <2>2. PICK v : v = JoinedGroup(g)
    OBVIOUS
  <2>3. PICK w : w = JoinedGroup(g)'
    OBVIOUS
  <2>4. PICK f : f = side[s] /\ f = side'[s]
    BY DEF SubscriberStill
  <2>5. OnItsWay(s, g, Filtered(v, f))
    BY <2>1, <2>2, <2>4
  <2>6. OnItsWay(s, g, Filtered(w, f))'
    <3>1. CASE UNCHANGED <<units, groups, members, groupUpdates>>
      <4>1. w = v
        BY <2>2, <2>3, <3>1, UntouchedGroup DEF MemberIds
      <4>2. \A i \in Len(groupUpdates)+1..Len(groupUpdates') : FALSE
        BY <3>1, NumbersOfEvents
      <4> DEFINE x == Filtered(v, f)
      <4>3. OnItsWay(s, g, x)
        BY <2>5
      <4> HIDE DEF x
      <4>4. OnItsWay(s, g, x)'
        BY <1>1, <4>2, <4>3, StaysOnItsWay
      <4> QED BY <4>1, <4>4 DEF x
    <3>2. CASE GroupsTold
      <4>1. PICK es :
              Covers(es) /\ groupUpdates' = groupUpdates \o Numbered(sequence, es)
        BY <3>2 DEF GroupsTold
      <4>2. PICK ns : ns = Numbered(sequence, es)
        OBVIOUS
      <4>3. es \in Seq(Notice) /\ sequence \in Nat /\ DOMAIN es = 1..Len(es)
        BY <4>1, LenProperties, NumbersOfEvents DEF Covers
      <4>4. /\ ns \in Seq(GroupEvent) /\ DOMAIN ns = 1..Len(es)
            /\ \A i \in 1..Len(es) : ns[i].id = es[i].id /\ ns[i].group = es[i].group
        BY <4>2, <4>3, NumberedType, LenProperties
      <4>5. Accounts(es, g, v, w)
        BY <4>1, <2>2, <2>3 DEF Covers
      <4>6. Accounts(ns, g, v, w)
        BY <4>3, <4>4, <4>5, AccountsAlike
      <4>7. groupUpdates' = groupUpdates \o ns
        BY <4>1, <4>2
      <4> QED BY <1>1, <2>4, <2>5, <4>4, <4>6, <4>7, ToldOnItsWay
    <3> QED BY <3>1, <3>2, CacheStepTells
  <2> QED BY <2>3, <2>4, <2>6
<1> QED BY <1>2, <1>3, <1>4 DEF SubscriberInv

-----------------------------------------------------------------------------
(* A step of the subscriber's own: its messages. *)

PendingOK ==
  \A s \in Subscribers :
    /\ Pending(s) \in Seq({Aborted} \cup GroupEvent)
    /\ task[s].update = None => Pending(s) = queue[s]
    /\ task[s].update # None => Pending(s) = Append(queue[s], task[s].update)

LEMMA PendingIs == SubscriberTypeOK => PendingOK
<1> SUFFICES ASSUME SubscriberTypeOK, NEW s \in Subscribers
             PROVE  /\ Pending(s) \in Seq({Aborted} \cup GroupEvent)
                    /\ task[s].update = None => Pending(s) = queue[s]
                    /\ task[s].update # None =>
                         Pending(s) = Append(queue[s], task[s].update)
  BY DEF PendingOK
<1> DEFINE Message == {Aborted} \cup GroupEvent
<1>1. queue[s] \in Seq(Message) /\ task[s].update \in GroupEvent \cup {None}
  BY TaskType
<1>2. CASE task[s].update = None
  BY <1>1, <1>2, ConcatEmptySeq DEF Pending
<1>3. CASE task[s].update # None
  <2>1. task[s].update \in Message
    BY <1>1, <1>3
  <2>2. Append(queue[s], task[s].update) = queue[s] \o <<task[s].update>>
    BY <1>1, <2>1, AppendIsConcat
  <2>3. Pending(s) = Append(queue[s], task[s].update)
    BY <2>2, <1>3 DEF Pending
  <2> QED BY <1>1, <1>3, <2>1, <2>3, AppendProperties
<1> QED BY <1>2, <1>3

LEMMA PendingIsNext == SubscriberTypeOK' => PendingOK'
BY PendingIs, PTL

\* The subscriber moves on, the cache does not.
OwnStep(s) ==
  /\ UNCHANGED <<cacheVars, side>>
  /\ task'[s].received >= task[s].received
  /\ task'[s].snapshot_sequence = task[s].snapshot_sequence

LEMMA OwnSound ==
  ASSUME SubscriberTypeOK, SubscriberTypeOK', NEW s \in Subscribers, OwnStep(s),
         NEW m, Sound(s, m)
  PROVE  Sound(s, m)'
<1>1. UNCHANGED <<groupUpdates, sequence, side>>
  BY DEF OwnStep, cacheVars
<1>2. ValueAt(s, m.id, m.sequence)' = ValueAt(s, m.id, m.sequence)
  BY <1>1 DEF ValueAt, EventsUntil, Matches
<1>3. Truthful(s, m)'
  BY <1>1, <1>2 DEF Sound, Truthful, Matches
<1>4. Older(s, m)'
  <2>1. task[s].received \in Nat /\ task'[s].received \in Nat
    BY TaskType, TaskTypeNext DEF TasksOK
  <2>2. \A i \in task'[s].received+1 .. Len(groupUpdates) :
          i \in task[s].received+1 .. Len(groupUpdates)
    BY <2>1 DEF OwnStep
  <2> QED BY <1>1, <2>2 DEF Sound, Older, Forward!InSnapshot, OwnStep
<1> QED BY <1>3, <1>4 DEF Sound

LEMMA QuietDelivers ==
  ASSUME SubscriberTypeOK, SubscriberTypeOK', NEW s \in Subscribers, OwnStep(s),
         Delivers(s), view'[s] = view[s], task'[s].snapshot = task[s].snapshot,
         client'[s].connected =>
           client[s].connected /\ Pending(s)' \in {Pending(s), <<>>}
  PROVE  Delivers(s)'
<1>1. \A m : Sound(s, m) => Sound(s, m)'
  BY OwnSound
<1>2. \A g \in GroupIds, m \in GroupEvent :
        view'[s][g] = m => m.id = g /\ Sound(s, m)'
  BY <1>1 DEF Delivers
<1>3. \A m \in task'[s].snapshot :
        /\ Sound(s, m)' /\ view'[s][m.id] = None
        /\ \A n \in task'[s].snapshot : n.id = m.id => n = m
  BY <1>1 DEF Delivers
<1>4. CASE client'[s].connected
  <2>1. CASE Pending(s)' = Pending(s)
    BY <1>1, <1>2, <1>3, <1>4, <2>1 DEF Delivers
  <2>2. CASE Pending(s)' = <<>>
    <3>1. DOMAIN <<>> = {}
      OBVIOUS
    <3> QED BY <1>2, <1>3, <2>2, <3>1 DEF Delivers, InOrder
  <2> QED BY <1>4, <2>1, <2>2
<1>5. CASE ~client'[s].connected
  BY <1>2, <1>3, <1>5 DEF Delivers
<1> QED BY <1>4, <1>5

LEMMA AppendDelivers ==
  ASSUME SubscriberTypeOK, SubscriberTypeOK', NEW s \in Subscribers, OwnStep(s),
         Delivers(s), client[s].connected, view'[s] = view[s],
         task'[s].snapshot \subseteq task[s].snapshot,
         NEW e \in {Aborted} \cup GroupEvent,
         Pending(s)' = Append(Pending(s), e),
         e # Aborted => /\ Sound(s, e)'
                        /\ \A m \in task'[s].snapshot : m.id # e.id,
         e # Aborted => \A m \in GroupEvent :
           /\ view[s][e.id] = m => m.sequence < e.sequence
           /\ \A i \in DOMAIN Pending(s) :
                Pending(s)[i] = m /\ m.id = e.id => m.sequence < e.sequence,
         \A i \in DOMAIN Pending(s) : Pending(s)[i] # Aborted
  PROVE  Delivers(s)'
<1> DEFINE Message == {Aborted} \cup GroupEvent
<1>1. \A m : Sound(s, m) => Sound(s, m)'
  BY OwnSound
<1>2. PICK q \in Seq(Message) : q = Pending(s)
  BY PendingIs DEF PendingOK
<1>3. /\ Len(q) \in Nat /\ DOMAIN q = 1..Len(q)
      /\ DOMAIN Append(q, e) = 1..Len(q)+1
      /\ \A i \in 1..Len(q) : Append(q, e)[i] = q[i] /\ q[i] \in Message
      /\ Append(q, e)[Len(q) + 1] = e
  BY AppendElements, ElementOfSeq
<1>4. \A i \in 1..Len(q) : \A m \in GroupEvent : q[i] = m => Sound(s, m)'
  BY <1>1, <1>2, <1>3 DEF Delivers
<1>5. e \in GroupEvent => Sound(s, e)'
  BY GroupUpdatesAssumption
<1>6. \A i \in 1..Len(q)+1 : \A m \in GroupEvent :
        Append(q, e)[i] = m => Sound(s, m)'
  <2> SUFFICES ASSUME NEW i \in 1..Len(q)+1, NEW m \in GroupEvent,
                      Append(q, e)[i] = m
               PROVE  Sound(s, m)'
    OBVIOUS
  <2>1. CASE i \in 1..Len(q)
    BY <1>3, <1>4, <2>1
  <2>2. CASE i = Len(q) + 1
    <3>1. m = e
      BY <1>3, <2>2
    <3> QED BY <1>5, <3>1
  <2> QED BY <1>3, <2>1, <2>2
<1>7. InOrder(Append(q, e), view[s], task'[s].snapshot)
  <2>1. InOrder(q, view[s], task'[s].snapshot)
    BY <1>2, FewerInOrder DEF Delivers
  <2>2. e # Aborted => /\ \A m \in task'[s].snapshot : m.id # e.id
                       /\ \A i \in 1..Len(q) : q[i].id = e.id
                                                 => q[i].sequence < e.sequence
    <3>1. \A i \in 1..Len(q) : q[i] \in GroupEvent
      BY <1>2, <1>3
    <3> QED BY <1>2, <1>3, <3>1
  <2>3. e # Aborted /\ view[s][e.id] # None => view[s][e.id].sequence < e.sequence
    <3> SUFFICES ASSUME e # Aborted, view[s][e.id] # None
                 PROVE  view[s][e.id].sequence < e.sequence
      OBVIOUS
    <3>1. e.id \in GroupIds
      BY DEF GroupEvent
    <3>2. view[s][e.id] \in GroupEvent
      BY <3>1, TaskType
    <3> QED BY <3>2
  <2> QED BY <2>1, <2>2, <2>3, AppendInOrder
<1>8. Pending(s)' = Append(q, e)
  BY <1>2
<1>9. InOrder(Pending(s), view[s], task[s].snapshot)'
  <2>1. InOrder(Pending(s), view[s], task[s].snapshot)'
          <=> InOrder(Append(q, e), view[s], task'[s].snapshot)
    BY <1>8 DEF InOrder
  <2> QED BY <1>7, <2>1
<1>10. \A g \in GroupIds, m \in GroupEvent :
         view'[s][g] = m => m.id = g /\ Sound(s, m)'
  BY <1>1 DEF Delivers
<1>11. \A m \in task'[s].snapshot :
         /\ Sound(s, m)' /\ view'[s][m.id] = None
         /\ \A n \in task'[s].snapshot : n.id = m.id => n = m
  BY <1>1 DEF Delivers
<1>12. \A i \in DOMAIN Pending(s)', m \in GroupEvent :
         Pending(s)'[i] = m => Sound(s, m)'
  BY <1>3, <1>6, <1>8
<1> QED BY <1>9, <1>10, <1>11, <1>12 DEF Delivers

\* The client takes the first message.
LEMMA TailDelivers ==
  ASSUME SubscriberTypeOK, SubscriberTypeOK', NEW s \in Subscribers, OwnStep(s),
         Delivers(s), client[s].connected,
         task'[s].snapshot = task[s].snapshot,
         Pending(s) # <<>>, Pending(s)' = Tail(Pending(s)),
         NEW h, h = Head(Pending(s)), h # Aborted,
         view'[s] = [view[s] EXCEPT ![h.id] = h]
  PROVE  Delivers(s)'
<1> DEFINE Message == {Aborted} \cup GroupEvent
<1>1. \A m : Sound(s, m) => Sound(s, m)'
  BY OwnSound
<1>2. PICK q \in Seq(Message) : q = Pending(s)
  BY PendingIs DEF PendingOK
<1>3. /\ Len(q) \in Nat /\ Len(q) > 0 /\ DOMAIN q = 1..Len(q)
      /\ DOMAIN Tail(q) = 1..Len(q)-1
      /\ \A i \in 1..Len(q)-1 : Tail(q)[i] = q[i + 1] /\ i + 1 \in 1..Len(q)
      /\ h = q[1] /\ h \in Message
      /\ \A i \in 1..Len(q) : q[i] \in Message
  BY <1>2, TailElements, ElementOfSeq
<1>4. h \in GroupEvent /\ h.id \in GroupIds /\ 1 \in 1..Len(q)
  BY <1>3 DEF GroupEvent
<1>5. Sound(s, h)
  BY <1>2, <1>3, <1>4 DEF Delivers
<1>6. view[s] \in [GroupIds -> GroupEvent \cup {None}]
  BY TaskType
<1>7. ASSUME NEW g \in GroupIds, NEW m \in GroupEvent, view'[s][g] = m
      PROVE  m.id = g /\ Sound(s, m)'
  <2>1. CASE g = h.id
    <3>1. m = h
      BY <1>6, <1>7, <2>1
    <3> QED BY <1>1, <1>5, <2>1, <3>1
  <2>2. CASE g # h.id
    <3>1. view[s][g] = m
      BY <1>6, <1>7, <2>2
    <3> QED BY <1>1, <3>1 DEF Delivers
  <2> QED BY <2>1, <2>2
<1>8. ASSUME NEW m \in task'[s].snapshot
      PROVE  /\ Sound(s, m)' /\ view'[s][m.id] = None
             /\ \A n \in task'[s].snapshot : n.id = m.id => n = m
  <2>1. /\ m \in GroupEvent /\ m.id \in GroupIds
    BY TaskType DEF GroupEvent
  <2>2. m.id # h.id
    <3>1. 1 \in DOMAIN Pending(s) /\ Pending(s)[1] = h
      BY <1>2, <1>3
    <3> QED BY <3>1 DEF Delivers, InOrder
  <2>3. view[s][m.id] = None
    BY DEF Delivers
  <2>4. view'[s][m.id] = None
    BY <1>6, <2>1, <2>2, <2>3
  <2> QED BY <1>1, <2>4 DEF Delivers
<1>9. ASSUME NEW i \in 1..Len(q)-1, NEW m \in GroupEvent, Tail(q)[i] = m
      PROVE  Sound(s, m)'
  <2>1. i + 1 \in DOMAIN Pending(s) /\ Pending(s)[i + 1] = m
    BY <1>2, <1>3, <1>9
  <2>2. Sound(s, m)
    BY <2>1 DEF Delivers
  <2> QED BY <1>1, <2>2
<1>10. InOrder(Tail(q), [view[s] EXCEPT ![h.id] = h], task[s].snapshot)
  <2>1. InOrder(q, view[s], task[s].snapshot)
    BY <1>2 DEF Delivers
  <2>2. \A i \in 1..Len(q) : q[i] # Aborted => q[i].id \in GroupIds
    BY <1>3 DEF GroupEvent
  <2>3. q # <<>> /\ h = Head(q)
    BY <1>2
  <2> QED BY <1>6, <2>1, <2>2, <2>3, TailInOrder
<1>11. InOrder(Pending(s), view[s], task[s].snapshot)'
  <2>1. InOrder(Pending(s), view[s], task[s].snapshot)'
          <=> InOrder(Tail(q), [view[s] EXCEPT ![h.id] = h], task[s].snapshot)
    BY <1>2 DEF InOrder
  <2> QED BY <1>10, <2>1
<1>12. \A i \in DOMAIN Pending(s)', m \in GroupEvent :
         Pending(s)'[i] = m => Sound(s, m)'
  BY <1>2, <1>3, <1>9
<1> QED BY <1>7, <1>8, <1>11, <1>12 DEF Delivers

\* A snapshot shows what the filter shows of the cache right then.
LEMMA SnapshotDelivers ==
  ASSUME LogInv, SubscriberTypeOK, SubscriberTypeOK', NEW s \in Subscribers,
         UNCHANGED <<cacheVars, side>>,
         view'[s] = [g \in GroupIds |-> None], queue'[s] = <<>>,
         task'[s].update = None, task'[s].snapshot = Snapshot(s),
         task'[s].snapshot_sequence = sequence
  PROVE  Delivers(s)'
<1>0. UNCHANGED <<groupUpdates, sequence, side>>
  BY DEF cacheVars
<1>1. /\ Snapshot(s) \subseteq GroupEvent
      /\ \A m \in Snapshot(s) :
           /\ m.id \in GroupIds /\ m.sequence = sequence
           /\ m.group = JoinedGroup(m.id)
           /\ groups[m.id] # None /\ MatchesSide(groups[m.id].side, side[s])
      /\ \A m, n \in Snapshot(s) : m.id = n.id => m = n
  BY SnapshotType DEF LogInv, IInv
<1>2. ASSUME NEW m \in Snapshot(s) PROVE Sound(s, m)'
  <2>1. /\ m \in GroupEvent /\ m.id \in GroupIds /\ m.sequence = sequence
        /\ m.group = JoinedGroup(m.id)
        /\ groups[m.id] # None /\ MatchesSide(groups[m.id].side, side[s])
    BY <1>1
  <2>2. /\ JoinedGroup(m.id) # None
        /\ JoinedGroup(m.id).side = groups[m.id].side
    <3>1. MapsTypeOK
      BY DEF LogInv, IInv, TypeOK, MapsTypeOK
    <3> QED BY <2>1, <3>1, JoinedFields DEF JoinedFieldsOK
  <2>3. m.group = Filtered(JoinedGroup(m.id), side[s]) /\ Matches(s, m)
    BY <2>1, <2>2 DEF Filtered, Matches
  <2>4. ValueAt(s, m.id, sequence) = m.group
    BY <2>1, <2>3, ValueNow
  <2>5. ValueAt(s, m.id, m.sequence)' = ValueAt(s, m.id, m.sequence)
    BY <1>0 DEF ValueAt, EventsUntil, Matches
  <2>6. sequence \in 1..sequence
    <3>1. Tells(groupUpdates, m.id, JoinedGroup(m.id))
      BY <2>1 DEF LogInv, IInv, EventsTellCache
    <3>2. PICK i \in DOMAIN groupUpdates : TRUE
      BY <2>2, <3>1 DEF Tells, TellsLast
    <3>3. groupUpdates[i].sequence \in 1..sequence /\ sequence \in Nat
      BY NumbersOfEvents
    <3> QED BY <3>3
  <2>7. Truthful(s, m)'
    BY <1>0, <2>1, <2>3, <2>4, <2>5, <2>6 DEF Truthful, Matches
  <2>8. Older(s, m)'
    <3>1. task'[s].received \in Nat
      BY TaskTypeNext DEF TasksOK
    <3>2. \A i \in task'[s].received+1 .. Len(groupUpdates) :
            groupUpdates[i].sequence <= sequence
      BY <3>1, NumbersOfEvents
    <3> QED BY <1>0, <3>2 DEF Older, Forward!InSnapshot
  <2> QED BY <2>7, <2>8 DEF Sound
<1>3. \A g \in GroupIds, m \in GroupEvent : view'[s][g] # m
  BY GroupUpdatesAssumption
<1>4. \A m \in Snapshot(s) : view'[s][m.id] = None
  BY <1>1
<1>5. Pending(s)' = <<>>
  BY PendingIsNext DEF PendingOK
<1>6. DOMAIN <<>> = {}
  OBVIOUS
<1> QED BY <1>1, <1>2, <1>3, <1>4, <1>5, <1>6 DEF Delivers, InOrder

\* The event that the task takes from the channel.
LEMMA EventSound ==
  ASSUME LogInv, SubscriberTypeOK, SubscriberTypeOK', NEW s \in Subscribers,
         UNCHANGED <<cacheVars, side>>,
         NEW k \in 1..Len(groupUpdates), task'[s].received = k,
         NEW e, e = groupUpdates[k], Matches(s, e)
  PROVE  Sound(s, e)'
<1>0. UNCHANGED <<groupUpdates, sequence, side>>
  BY DEF cacheVars
<1>1. /\ e \in GroupEvent /\ e.sequence \in 1..sequence
      /\ \A j \in k+1..Len(groupUpdates) : e.sequence < groupUpdates[j].sequence
  BY NumbersOfEvents
<1>2. ValueAt(s, e.id, e.sequence) = e.group
  BY ValueOfEvent, MatchesFiltered
<1>3. Truthful(s, e)
  BY <1>1, <1>2 DEF Truthful
<1>4. Truthful(s, e)'
  BY <1>0, <1>3 DEF Truthful, Matches, ValueAt, EventsUntil
<1>5. Older(s, e)'
  BY <1>0, <1>1 DEF Older
<1> QED BY <1>4, <1>5 DEF Sound

LEMMA ReceivingMoves ==
  ASSUME SubscriberTypeOK, SubscriberTypeOK', NEW s \in Subscribers,
         queue[s] # <<>>, queue'[s] = Tail(queue[s]), task'[s] = task[s]
  PROVE  /\ Pending(s) # <<>> /\ Pending(s)' = Tail(Pending(s))
         /\ Head(Pending(s)) = Head(queue[s])
<1> DEFINE Message == {Aborted} \cup GroupEvent
<1>1. queue[s] \in Seq(Message)
  BY TaskType
<1>2. CASE task[s].update = None
  <2>1. Pending(s) = queue[s] /\ Pending(s)' = queue'[s]
    BY <1>2, PendingIs, PendingIsNext DEF PendingOK
  <2> QED BY <2>1
<1>3. CASE task[s].update # None
  <2>1. PICK u \in Message : u = task[s].update
    BY <1>3, TaskType
  <2>2. Pending(s) = Append(queue[s], u) /\ Pending(s)' = Append(Tail(queue[s]), u)
    BY <1>3, <2>1, PendingIs, PendingIsNext DEF PendingOK
  <2>3. /\ Head(Append(queue[s], u)) = Head(queue[s])
        /\ Tail(Append(queue[s], u)) = Append(Tail(queue[s]), u)
        /\ Append(queue[s], u) # <<>>
    BY <1>1, HeadTailAppend, AppendProperties
  <2> QED BY <2>2, <2>3
<1> QED BY <1>2, <1>3

\* Nothing follows an abort.
LEMMA AbortedIsLast ==
  ASSUME SubscriberTypeOK, SubscriberTypeOK', NEW s \in Subscribers, Shape(s),
         client[s].connected, queue[s] # <<>>, Head(queue[s]) = Aborted,
         queue'[s] = Tail(queue[s]), task'[s] = task[s]
  PROVE  Pending(s)' = <<>>
<1> DEFINE Message == {Aborted} \cup GroupEvent
<1>1. queue[s] \in Seq(Message)
  BY TaskType
<1>2. /\ Len(queue[s]) \in Nat /\ Len(queue[s]) > 0
      /\ DOMAIN queue[s] = 1..Len(queue[s]) /\ Head(queue[s]) = queue[s][1]
      /\ Tail(queue[s]) \in Seq(Message) /\ Len(Tail(queue[s])) = Len(queue[s]) - 1
  BY <1>1, TailElements
<1>3. 1 \in DOMAIN queue[s] /\ queue[s][1] = Aborted
  BY <1>2
<1>4. 1 = Len(queue[s]) /\ task[s].pc = "done"
  BY <1>3 DEF Shape
<1>5. task[s].update = None
  BY <1>4 DEF Shape
<1>6. queue'[s] = <<>>
  <2>1. Len(Tail(queue[s])) = 0
    BY <1>2, <1>4
  <2> QED BY <1>2, <2>1, EmptySeq
<1> QED BY <1>5, <1>6, PendingIsNext DEF PendingOK

LEMMA DeliversKept ==
  ASSUME LogInv, SubscriberTypeOK, SubscriberTypeOK', NEW s \in Subscribers,
         Shape(s), Shape(s)', Delivers(s), SubscriberStep(s),
         UNCHANGED <<cacheVars, side>>
  PROVE  Delivers(s)'
<1> DEFINE Message == {Aborted} \cup GroupEvent
<1>0. /\ task[s].received \in Nat /\ groupTail \in Nat
      /\ task[s].received <= groupTail
  BY TaskType DEF Shape, LogInv, IInv, TypeOK
<1>p. /\ Pending(s) \in Seq(Message)
      /\ task[s].update = None => Pending(s) = queue[s]
      /\ task[s].update # None => Pending(s) = Append(queue[s], task[s].update)
      /\ task'[s].update = None => Pending(s)' = queue'[s]
      /\ task'[s].update # None => Pending(s)' = Append(queue'[s], task'[s].update)
  BY PendingIs, PendingIsNext DEF PendingOK
\* Before an abort, all that is pending are events.
<1>a. ASSUME task[s].pc \in {"forwarding", "aborting"}
      PROVE  /\ task[s].update = None /\ Pending(s) = queue[s]
             /\ \A i \in DOMAIN Pending(s) : Pending(s)[i] # Aborted
  BY <1>a, <1>p DEF Shape
<1>1. CASE Forward!Subscribe(s) /\ UNCHANGED view
  <2>1. /\ task'[s].received = groupTail /\ QueueStill(s)
        /\ task'[s].snapshot = task[s].snapshot
        /\ task'[s].snapshot_sequence = task[s].snapshot_sequence
        /\ task'[s].update = task[s].update
    BY <1>1, SubscribeDoes
  <2>2. OwnStep(s) /\ Pending(s)' = Pending(s)
    BY <1>0, <2>1 DEF OwnStep, Pending, QueueStill
  <2> QED BY <2>1, <2>2, QuietDelivers DEF QueueStill
<1>2. CASE ReadSnapshot(s) /\ UNCHANGED view
  <2>1. /\ task[s].pc = "subscribed" /\ QueueStill(s)
        /\ task'[s].snapshot = Snapshot(s)
        /\ task'[s].snapshot_sequence = sequence
        /\ task'[s].update = task[s].update
    BY <1>2, ReadSnapshotDoes
  <2>2. /\ view'[s] = [g \in GroupIds |-> None] /\ queue'[s] = <<>>
        /\ task'[s].update = None
    BY <2>1 DEF Shape, QueueStill
  <2> QED BY <2>1, <2>2, SnapshotDelivers
<1>3. CASE Receive(s) /\ UNCHANGED view
  <2>e. PICK e : e = Forward!NextUpdate(s)
    OBVIOUS
  <2>k. PICK k \in Nat : k = task[s].received + 1
    BY <1>0
  <2>1. /\ task[s].pc = "forwarding" /\ task[s].snapshot = {}
        /\ task[s].received < groupTail /\ QueueStill(s)
        /\ task'[s].received = k /\ task'[s].snapshot = {}
        /\ task'[s].snapshot_sequence = task[s].snapshot_sequence
        /\ \/ task'[s].update = task[s].update
           \/ /\ ~Forward!InSnapshot(s, e) /\ Matches(s, e)
              /\ task'[s].update = e
    BY <1>3, <2>e, <2>k, ReceiveDoes
  <2>2. OwnStep(s)
    BY <1>0, <2>k, <2>1 DEF OwnStep
  <2>3. CASE task'[s].update = task[s].update \/ ~client[s].connected
    BY <2>1, <2>2, <2>3, QuietDelivers DEF QueueStill, Pending
  <2>4. CASE /\ client[s].connected
             /\ ~Forward!InSnapshot(s, e) /\ Matches(s, e)
             /\ task'[s].update = e
    <3>1. k \in 1..Len(groupUpdates) /\ e = groupUpdates[k] /\ e \in GroupEvent
      BY <2>e, <2>k, <2>1, NextUpdateType DEF LogInv, IInv
    <3>2. Sound(s, e)'
      BY <2>1, <2>4, <3>1, EventSound
    <3>3. ASSUME NEW m, Sound(s, m) PROVE m.sequence < e.sequence
      <4>1. k \in task[s].received+1 .. Len(groupUpdates)
        BY <1>0, <2>k, <3>1
      <4> QED BY <2>4, <3>1, <3>3, <4>1 DEF Sound, Older
    <3>4. Pending(s)' = Append(Pending(s), e)
      BY <1>a, <1>p, <2>1, <2>4, <3>1, GroupUpdatesAssumption DEF QueueStill
    <3>5. \A m \in GroupEvent :
            /\ view[s][e.id] = m => m.sequence < e.sequence
            /\ \A i \in DOMAIN Pending(s) :
                 Pending(s)[i] = m /\ m.id = e.id => m.sequence < e.sequence
      <4>1. e.id \in GroupIds
        BY <3>1 DEF GroupEvent
      <4> QED BY <2>4, <3>3, <4>1 DEF Delivers
    <3>6. /\ e \in {Aborted} \cup GroupEvent /\ view'[s] = view[s]
          /\ task'[s].snapshot \subseteq task[s].snapshot
          /\ \A m \in task'[s].snapshot : m.id # e.id
      BY <2>1, <3>1 DEF QueueStill
    <3>7. \A i \in DOMAIN Pending(s) : Pending(s)[i] # Aborted
      BY <1>a, <2>1
    <3> QED BY <2>2, <2>4, <3>2, <3>4, <3>5, <3>6, <3>7, AppendDelivers
  <2> QED BY <2>1, <2>3, <2>4
<1>4. CASE Forward!SendSnapshot(s) /\ UNCHANGED view
  <2>1. /\ task[s].pc = "forwarding" /\ client[s].connected
        /\ view'[s] = view[s] /\ task'[s].received = task[s].received
        /\ task'[s].snapshot_sequence = task[s].snapshot_sequence
        /\ task'[s].update = task[s].update
    BY <1>4, SendSnapshotDoes
  <2>2. PICK m \in task[s].snapshot :
          /\ task'[s].snapshot = task[s].snapshot \ {m}
          /\ queue'[s] = Append(queue[s], m)
    BY <1>4, SendSnapshotDoes
  <2>3. OwnStep(s)
    BY <1>0, <2>1 DEF OwnStep
  <2>4. m \in GroupEvent /\ m.id \in GroupIds
    BY TaskType DEF GroupEvent
  <2>5. /\ Sound(s, m) /\ view[s][m.id] = None
        /\ \A n \in task[s].snapshot : n.id = m.id => n = m
    BY DEF Delivers
  <2>6. Sound(s, m)' /\ \A n \in task'[s].snapshot : n.id # m.id
    BY <2>2, <2>3, <2>5, OwnSound
  <2>7. Pending(s)' = Append(Pending(s), m)
    BY <1>a, <1>p, <2>1, <2>2
  <2>8. \A n \in GroupEvent :
          /\ view[s][m.id] = n => n.sequence < m.sequence
          /\ \A i \in DOMAIN Pending(s) :
               Pending(s)[i] = n /\ n.id = m.id => n.sequence < m.sequence
    <3>1. \A n \in GroupEvent : view[s][m.id] # n
      BY <2>5, GroupUpdatesAssumption
    <3>2. \A i \in DOMAIN Pending(s) : Pending(s)[i] # Aborted => Pending(s)[i].id # m.id
      BY <2>1 DEF Delivers, InOrder
    <3> QED BY <1>a, <2>1, <3>1, <3>2
  <2>9. task'[s].snapshot \subseteq task[s].snapshot /\ m \in Message
    BY <2>2, <2>4
  <2> QED BY <1>a, <2>1, <2>3, <2>6, <2>7, <2>8, <2>9, AppendDelivers
<1>5. CASE Forward!SendUpdate(s) /\ UNCHANGED view
  <2>1. /\ task[s].pc = "sending" /\ client[s].connected
        /\ view'[s] = view[s] /\ task'[s].received = task[s].received
        /\ task'[s].snapshot = task[s].snapshot
        /\ task'[s].snapshot_sequence = task[s].snapshot_sequence
        /\ task'[s].update = None
        /\ queue'[s] = Append(queue[s], task[s].update)
    BY <1>5, SendUpdateDoes
  <2>2. OwnStep(s)
    BY <1>0, <2>1 DEF OwnStep
  <2>3. Pending(s)' = Pending(s)
    BY <1>p, <2>1 DEF Shape
  <2> QED BY <2>1, <2>2, <2>3, QuietDelivers
<1>6. CASE (Forward!Lag(s) \/ Forward!Closed(s) \/ Forward!ClientGone(s))
             /\ UNCHANGED view
  <2>1. Proceeds(s)
    BY <1>6, StopDoes
  <2>2. OwnStep(s) /\ Pending(s)' = Pending(s)
    BY <1>0, <2>1 DEF OwnStep, Proceeds, QueueStill, Pending
  <2> QED BY <2>1, <2>2, QuietDelivers DEF Proceeds, QueueStill
<1>7. CASE Forward!SendAborted(s) /\ UNCHANGED view
  <2>1. /\ task[s].pc = "aborting" /\ client[s].connected
        /\ view'[s] = view[s] /\ task'[s].received = task[s].received
        /\ task'[s].snapshot = task[s].snapshot
        /\ task'[s].snapshot_sequence = task[s].snapshot_sequence
        /\ task'[s].update = task[s].update
        /\ queue'[s] = Append(queue[s], Aborted)
    BY <1>7, SendAbortedDoes
  <2>2. OwnStep(s)
    BY <1>0, <2>1 DEF OwnStep
  <2>3. Pending(s)' = Append(Pending(s), Aborted)
    BY <1>a, <1>p, <2>1
  <2> QED BY <1>a, <2>1, <2>2, <2>3, AppendDelivers
<1>8. CASE Forward!Disconnect(s) /\ UNCHANGED view
  <2>1. task'[s] = task[s] /\ view'[s] = view[s] /\ ~client'[s].connected
    BY <1>8, DisconnectDoes
  <2>2. OwnStep(s)
    BY <1>0, <2>1 DEF OwnStep
  <2> QED BY <2>1, <2>2, QuietDelivers
<1>9. CASE ClientReceives(s)
  <2>1. /\ client[s].connected /\ queue[s] # <<>> /\ task'[s] = task[s]
        /\ queue'[s] = Tail(queue[s])
        /\ Head(queue[s]) = Aborted => view'[s] = view[s]
        /\ Head(queue[s]) # Aborted =>
             view'[s] = [view[s] EXCEPT ![Head(queue[s]).id] = Head(queue[s])]
    BY <1>9, ClientReceivesDoes
  <2>2. OwnStep(s)
    BY <1>0, <2>1 DEF OwnStep
  <2>3. /\ Pending(s) # <<>> /\ Pending(s)' = Tail(Pending(s))
        /\ Head(Pending(s)) = Head(queue[s])
    BY <2>1, ReceivingMoves
  <2>4. CASE Head(queue[s]) = Aborted
    <3>1. Pending(s)' = <<>>
      BY <2>1, <2>4, AbortedIsLast
    <3> QED BY <2>1, <2>2, <2>4, <3>1, QuietDelivers
  <2>5. CASE Head(queue[s]) # Aborted
    BY <2>1, <2>2, <2>3, <2>5, TailDelivers
  <2> QED BY <2>4, <2>5
<1> QED BY <1>1, <1>2, <1>3, <1>4, <1>5, <1>6, <1>7, <1>8, <1>9
        DEF SubscriberStep, TaskStep, Forward!ForwardStep

-----------------------------------------------------------------------------
(* A step of the subscriber's own: what is on its way to the client. *)

LEMMA ToComeMoves ==
  ASSUME LogInv, SubscriberTypeOK, NEW s \in Subscribers, OwnStep(s)
  PROVE  /\ task'[s].received = task[s].received => ToCome(s)' = ToCome(s)
         /\ task'[s].received = task[s].received + 1 =>
              ToCome(s)' = ToCome(s) \ {task[s].received + 1}
         /\ \A i \in ToCome(s) :
              i \in 1..Len(groupUpdates) /\ i >= task[s].received + 1
<1>1. UNCHANGED <<groupUpdates, sequence, side>>
  BY DEF OwnStep, cacheVars
<1>2. task[s].received \in Nat /\ Len(groupUpdates) \in Nat
  BY TaskType, NumbersOfEvents
<1>3. PICK n \in Nat : n = task[s].received
  BY <1>2
<1> DEFINE Comes(i) == ~(groupUpdates[i].sequence <= task[s].snapshot_sequence)
                       /\ Passes(groupUpdates[i], side[s])
<1>4. ToCome(s) = {i \in n+1 .. Len(groupUpdates) : Comes(i)}
  BY <1>3 DEF ToCome, Forward!InSnapshot, Matches, Passes
<1>5. ASSUME NEW k \in Nat, k = task'[s].received
      PROVE  ToCome(s)' = {i \in k+1 .. Len(groupUpdates) : Comes(i)}
  BY <1>1, <1>5 DEF ToCome, Forward!InSnapshot, Matches, Passes, OwnStep
<1> HIDE DEF Comes
<1>6. task'[s].received = n => ToCome(s)' = ToCome(s)
  BY <1>4, <1>5
<1>7. ASSUME task'[s].received = n + 1
      PROVE  ToCome(s)' = ToCome(s) \ {n + 1}
  <2>1. ToCome(s)' = {i \in n+1+1 .. Len(groupUpdates) : Comes(i)}
    BY <1>5, <1>7
  <2>2. n+1+1 .. Len(groupUpdates) = (n+1 .. Len(groupUpdates)) \ {n + 1}
    BY <1>2
  <2> QED BY <1>4, <2>1, <2>2
<1>8. \A i \in ToCome(s) : i \in 1..Len(groupUpdates) /\ i >= n + 1
  BY <1>2, <1>4
<1> QED BY <1>3, <1>6, <1>7, <1>8

LEMMA QuietOnItsWay ==
  ASSUME NEW s \in Subscribers, NEW g, NEW v, OnItsWay(s, g, v),
         groupUpdates' = groupUpdates, ToCome(s)' = ToCome(s),
         Pending(s)' = Pending(s), view'[s] = view[s],
         task'[s].snapshot = task[s].snapshot
  PROVE  OnItsWay(s, g, v)'
BY DEF OnItsWay, LastAt, NoneAt, TellsLast, Silent, Shows

\* What is on its way after a step, in terms of rigid values.
LEMMA OnItsWayNext ==
  ASSUME NEW s, NEW g, NEW v, groupUpdates' = groupUpdates,
         NEW K, K = ToCome(s)', NEW q, q = Pending(s)',
         NEW w, w = view'[s], NEW sn, sn = task'[s].snapshot
  PROVE  /\ LastAt(groupUpdates, K, g, v) => OnItsWay(s, g, v)'
         /\ NoneAt(groupUpdates, K, g) /\ TellsLast(q, g, v)
              => OnItsWay(s, g, v)'
         /\ NoneAt(groupUpdates, K, g) /\ Silent(q, g) /\ Shows(w, sn, g, v)
              => OnItsWay(s, g, v)'
<1>1. LastAt(groupUpdates, ToCome(s), g, v)' <=> LastAt(groupUpdates, K, g, v)
  BY DEF LastAt
<1>2. NoneAt(groupUpdates, ToCome(s), g)' <=> NoneAt(groupUpdates, K, g)
  BY DEF NoneAt
<1>3. TellsLast(Pending(s), g, v)' <=> TellsLast(q, g, v)
  BY DEF TellsLast
<1>4. Silent(Pending(s), g)' <=> Silent(q, g)
  BY DEF Silent
<1>5. Shows(view[s], task[s].snapshot, g, v)' <=> Shows(w, sn, g, v)
  BY DEF Shows
<1> QED BY <1>1, <1>2, <1>3, <1>4, <1>5 DEF OnItsWay

\* The task takes the next event in its hand.
LEMMA TakeOnItsWay ==
  ASSUME LogInv, SubscriberTypeOK, SubscriberTypeOK', NEW s \in Subscribers,
         NEW g, NEW v, OnItsWay(s, g, v),
         groupUpdates' = groupUpdates, view'[s] = view[s],
         task'[s].snapshot = task[s].snapshot,
         NEW k \in ToCome(s), NEW e \in GroupEvent, e = groupUpdates[k],
         \A i \in ToCome(s) : i >= k, ToCome(s) \subseteq Nat,
         ToCome(s)' = ToCome(s) \ {k}, Pending(s)' = Append(Pending(s), e)
  PROVE  OnItsWay(s, g, v)'
<1>1. PICK q \in Seq({Aborted} \cup GroupEvent) : q = Pending(s)
  BY PendingIs DEF PendingOK
<1>2. PICK K : K = ToCome(s)
  OBVIOUS
<1>3. ToCome(s)' = K \ {k} /\ Pending(s)' = Append(q, e)
  BY <1>1, <1>2
<1>4. /\ LastAt(groupUpdates, K \ {k}, g, v) => OnItsWay(s, g, v)'
      /\ NoneAt(groupUpdates, K \ {k}, g) /\ TellsLast(Append(q, e), g, v)
           => OnItsWay(s, g, v)'
      /\ NoneAt(groupUpdates, K \ {k}, g) /\ Silent(Append(q, e), g)
         /\ Shows(view[s], task[s].snapshot, g, v)
           => OnItsWay(s, g, v)'
  BY <1>3, OnItsWayNext
<1>5. /\ e.id = g => TellsLast(Append(q, e), g, e.group)
      /\ e.id # g /\ TellsLast(q, g, v) => TellsLast(Append(q, e), g, v)
      /\ e.id # g /\ Silent(q, g) => Silent(Append(q, e), g)
  BY <1>1, AppendTells
<1>6. CASE LastAt(groupUpdates, K, g, v)
  <2>1. PICK i \in K : /\ groupUpdates[i].id = g /\ groupUpdates[i].group = v
                       /\ \A j \in K : j > i => groupUpdates[j].id # g
    BY <1>6 DEF LastAt
  <2>2. CASE i = k
    <3>1. NoneAt(groupUpdates, K \ {k}, g)
      <4>1. \A j \in K \ {k} : j > k
        BY <1>2
      <4> QED BY <2>1, <2>2, <4>1 DEF NoneAt
    <3> QED BY <1>4, <1>5, <2>1, <2>2, <3>1
  <2>3. CASE i # k
    BY <1>4, <2>1, <2>3 DEF LastAt
  <2> QED BY <2>2, <2>3
<1>7. CASE NoneAt(groupUpdates, K, g)
  <2>1. e.id # g /\ NoneAt(groupUpdates, K \ {k}, g)
    BY <1>2, <1>7 DEF NoneAt
  <2>2. CASE TellsLast(q, g, v)
    BY <1>4, <1>5, <2>1, <2>2
  <2>3. CASE Silent(q, g) /\ Shows(view[s], task[s].snapshot, g, v)
    BY <1>4, <1>5, <2>1, <2>3
  <2>4. TellsLast(q, g, v) \/ (Silent(q, g) /\ Shows(view[s], task[s].snapshot, g, v))
          \/ LastAt(groupUpdates, K, g, v)
    BY <1>1, <1>2 DEF OnItsWay
  <2> QED BY <1>6, <2>2, <2>3, <2>4
<1> QED BY <1>1, <1>2, <1>6, <1>7 DEF OnItsWay

\* The task sends a message of the snapshot.
LEMMA SendOnItsWay ==
  ASSUME SubscriberTypeOK, NEW s \in Subscribers, Delivers(s),
         NEW g, NEW v, OnItsWay(s, g, v), client[s].connected,
         groupUpdates' = groupUpdates, ToCome(s)' = ToCome(s),
         view'[s] = view[s],
         NEW m \in task[s].snapshot, task'[s].snapshot = task[s].snapshot \ {m},
         Pending(s)' = Append(Pending(s), m),
         \A i \in DOMAIN Pending(s) : Pending(s)[i] # Aborted
  PROVE  OnItsWay(s, g, v)'
<1>1. PICK q \in Seq({Aborted} \cup GroupEvent) : q = Pending(s)
  BY PendingIs DEF PendingOK
<1>2. m \in {Aborted} \cup GroupEvent
  BY TaskType
<1>3. PICK sn : sn = task[s].snapshot
  OBVIOUS
<1>4. task'[s].snapshot = sn \ {m} /\ Pending(s)' = Append(q, m)
  BY <1>1, <1>3
<1>5. /\ LastAt(groupUpdates, ToCome(s), g, v) => OnItsWay(s, g, v)'
      /\ NoneAt(groupUpdates, ToCome(s), g) /\ TellsLast(Append(q, m), g, v)
           => OnItsWay(s, g, v)'
      /\ NoneAt(groupUpdates, ToCome(s), g) /\ Silent(Append(q, m), g)
         /\ Shows(view[s], sn \ {m}, g, v)
           => OnItsWay(s, g, v)'
  BY <1>4, OnItsWayNext
<1>6. /\ m.id = g => TellsLast(Append(q, m), g, m.group)
      /\ m.id # g /\ TellsLast(q, g, v) => TellsLast(Append(q, m), g, v)
      /\ m.id # g /\ Silent(q, g) => Silent(Append(q, m), g)
  BY <1>1, <1>2, AppendTells
<1>7. CASE TellsLast(q, g, v) /\ NoneAt(groupUpdates, ToCome(s), g)
  <2>1. PICK i \in DOMAIN q : q[i].id = g
    BY <1>7 DEF TellsLast
  <2>2. m.id # g
    BY <1>1, <2>1 DEF Delivers, InOrder
  <2> QED BY <1>5, <1>6, <1>7, <2>2
<1>8. CASE /\ Silent(q, g) /\ Shows(view[s], sn, g, v)
           /\ NoneAt(groupUpdates, ToCome(s), g)
  <2>1. CASE m.id = g
    <3>1. m.group = v
      BY <1>3, <1>8, <2>1 DEF Shows, Delivers
    <3> QED BY <1>5, <1>6, <1>8, <2>1, <3>1
  <2>2. CASE m.id # g
    <3>1. Shows(view[s], sn \ {m}, g, v)
      BY <1>8, <2>2 DEF Shows
    <3> QED BY <1>5, <1>6, <1>8, <2>2, <3>1
  <2> QED BY <2>1, <2>2
<1> QED BY <1>1, <1>3, <1>5, <1>7, <1>8 DEF OnItsWay

\* The client takes the first message.
LEMMA ReceiveOnItsWay ==
  ASSUME SubscriberTypeOK, NEW s \in Subscribers, Delivers(s),
         NEW g \in GroupIds, NEW v, OnItsWay(s, g, v), client[s].connected,
         groupUpdates' = groupUpdates, ToCome(s)' = ToCome(s),
         task'[s].snapshot = task[s].snapshot,
         Pending(s) # <<>>, Pending(s)' = Tail(Pending(s)),
         NEW h, h = Head(Pending(s)), h # Aborted,
         view'[s] = [view[s] EXCEPT ![h.id] = h]
  PROVE  OnItsWay(s, g, v)'
<1>1. PICK q \in Seq({Aborted} \cup GroupEvent) : q = Pending(s)
  BY PendingIs DEF PendingOK
<1>2. PICK w : w = view'[s]
  OBVIOUS
<1>3. Pending(s)' = Tail(q)
  BY <1>1
<1>4. /\ LastAt(groupUpdates, ToCome(s), g, v) => OnItsWay(s, g, v)'
      /\ NoneAt(groupUpdates, ToCome(s), g) /\ TellsLast(Tail(q), g, v)
           => OnItsWay(s, g, v)'
      /\ NoneAt(groupUpdates, ToCome(s), g) /\ Silent(Tail(q), g)
         /\ Shows(w, task[s].snapshot, g, v)
           => OnItsWay(s, g, v)'
  BY <1>2, <1>3, OnItsWayNext
<1>5. q # <<>> /\ h = Head(q)
  BY <1>1
<1>6. /\ Silent(q, g) => Head(q).id # g /\ Silent(Tail(q), g)
      /\ TellsLast(q, g, v) =>
           \/ TellsLast(Tail(q), g, v)
           \/ Head(q).id = g /\ Head(q).group = v /\ Silent(Tail(q), g)
  BY <1>1, <1>5, TailTells
<1>7. view[s] \in [GroupIds -> GroupEvent \cup {None}]
  BY TaskType
<1>8. CASE /\ NoneAt(groupUpdates, ToCome(s), g) /\ h.id = g /\ h.group = v
           /\ Silent(Tail(q), g)
  <2>1. 1 \in DOMAIN q /\ q[1] = h /\ h \in GroupEvent
    BY <1>1, <1>5, TailElements
  <2>2. \A m \in task[s].snapshot : m.id # g
    BY <1>1, <1>8, <2>1 DEF Delivers, InOrder
  <2>3. w[g] = h /\ h # None
    BY <1>2, <1>7, <1>8, <2>1, GroupUpdatesAssumption
  <2>4. Shows(w, task[s].snapshot, g, v)
    BY <1>8, <2>2, <2>3 DEF Shows
  <2> QED BY <1>4, <1>8, <2>4
<1>9. CASE /\ NoneAt(groupUpdates, ToCome(s), g) /\ Silent(q, g)
           /\ Shows(view[s], task[s].snapshot, g, v)
  <2>1. h.id # g /\ Silent(Tail(q), g)
    BY <1>5, <1>6, <1>9
  <2>2. w[g] = view[s][g]
    BY <1>2, <1>7, <2>1
  <2>3. Shows(w, task[s].snapshot, g, v)
    BY <1>9, <2>2 DEF Shows
  <2> QED BY <1>4, <1>9, <2>1, <2>3
<1> QED BY <1>1, <1>4, <1>5, <1>6, <1>8, <1>9 DEF OnItsWay

\* A snapshot is all that is on its way at first.
LEMMA SnapshotOnItsWay ==
  ASSUME LogInv, SubscriberTypeOK, SubscriberTypeOK', NEW s \in Subscribers,
         UNCHANGED <<cacheVars, side>>, NEW g \in GroupIds,
         view'[s] = [h \in GroupIds |-> None], queue'[s] = <<>>,
         task'[s].update = None, task'[s].snapshot = Snapshot(s),
         task'[s].snapshot_sequence = sequence
  PROVE  OnItsWay(s, g, Filtered(JoinedGroup(g), side[s]))'
<1>0. UNCHANGED <<groupUpdates, sequence, side>>
  BY DEF cacheVars
<1>1. TypeOK /\ MapsTypeOK
  BY DEF LogInv, IInv, TypeOK, MapsTypeOK
<1>2. PICK v : v = Filtered(JoinedGroup(g), side[s])
  OBVIOUS
<1>3. Filtered(JoinedGroup(g), side[s])' = v
  <2>1. JoinedGroup(g)' = JoinedGroup(g)
    BY UntouchedGroup DEF cacheVars, MemberIds
  <2> QED BY <1>2, <2>1 DEF Filtered
<1>4. NoneAt(groupUpdates, {}, g) /\ ToCome(s)' = {}
  <2>1. task'[s].received \in Nat
    BY TaskTypeNext DEF TasksOK
  <2>2. \A i \in task'[s].received+1 .. Len(groupUpdates) :
          groupUpdates[i].sequence <= sequence
    BY <2>1, NumbersOfEvents
  <2> QED BY <1>0, <2>2 DEF ToCome, Forward!InSnapshot, NoneAt
<1>5. Pending(s)' = <<>> /\ Silent(<<>>, g)
  BY PendingIsNext DEF PendingOK, Silent
<1>6. Shows([h \in GroupIds |-> None], Snapshot(s), g, v)
  <2>1. CASE groups[g] # None /\ MatchesSide(groups[g].side, side[s])
    <3>1. \E m \in Snapshot(s) : m.id = g /\ m.group = JoinedGroup(g)
      BY <1>1, <2>1, SnapshotType
    <3>2. JoinedGroup(g) # None /\ JoinedGroup(g).side = groups[g].side
      BY <1>1, <2>1, JoinedFields DEF JoinedFieldsOK
    <3> QED BY <1>2, <2>1, <3>1, <3>2 DEF Filtered, Shows
  <2>2. CASE ~(groups[g] # None /\ MatchesSide(groups[g].side, side[s]))
    <3>1. \A m \in Snapshot(s) : m.id # g
      BY <1>1, <2>2, SnapshotType
    <3>2. groups[g] # None =>
            JoinedGroup(g) # None /\ JoinedGroup(g).side = groups[g].side
      BY <1>1, JoinedFields DEF JoinedFieldsOK
    <3>3. groups[g] = None => JoinedGroup(g) = None
      BY DEF JoinedGroup
    <3> QED BY <1>2, <2>2, <3>1, <3>2, <3>3 DEF Filtered, Shows
  <2> QED BY <2>1, <2>2
<1>7. OnItsWay(s, g, v)'
  <2>1. PICK w : w = view'[s] /\ w = [h \in GroupIds |-> None]
    OBVIOUS
  <2>2. PICK sn : sn = task'[s].snapshot /\ sn = Snapshot(s)
    OBVIOUS
  <2>3. Shows(w, sn, g, v)
    BY <1>6, <2>1, <2>2
  <2> QED BY <1>0, <1>4, <1>5, <2>1, <2>2, <2>3, OnItsWayNext
<1> QED BY <1>3, <1>7

LEMMA UpToDateKept ==
  ASSUME LogInv, SubscriberTypeOK, SubscriberTypeOK', NEW s \in Subscribers,
         Shape(s), Shape(s)', Delivers(s), UpToDate(s), SubscriberStep(s),
         UNCHANGED <<cacheVars, side>>
  PROVE  UpToDate(s)'
<1> SUFFICES ASSUME task'[s].pc \in {"forwarding", "sending"},
                    client'[s].connected, NEW g \in GroupIds
             PROVE  OnItsWay(s, g, Filtered(JoinedGroup(g), side[s]))'
  BY DEF UpToDate
<1> DEFINE Message == {Aborted} \cup GroupEvent
<1>0. /\ task[s].received \in Nat /\ groupTail \in Nat
      /\ task[s].received <= groupTail
  BY TaskType DEF Shape, LogInv, IInv, TypeOK
<1>g. groupUpdates' = groupUpdates
  BY DEF cacheVars
<1>p. /\ task[s].update = None => Pending(s) = queue[s]
      /\ task[s].update # None => Pending(s) = Append(queue[s], task[s].update)
      /\ task'[s].update = None => Pending(s)' = queue'[s]
      /\ task'[s].update # None => Pending(s)' = Append(queue'[s], task'[s].update)
  BY PendingIs, PendingIsNext DEF PendingOK
<1>a. ASSUME task[s].pc = "forwarding"
      PROVE  /\ task[s].update = None /\ Pending(s) = queue[s]
             /\ \A i \in DOMAIN Pending(s) : Pending(s)[i] # Aborted
  BY <1>a, <1>p DEF Shape
<1>v. PICK v : v = Filtered(JoinedGroup(g), side[s])
  OBVIOUS
<1>w. Filtered(JoinedGroup(g), side[s])' = v
  <2>1. JoinedGroup(g)' = JoinedGroup(g)
    BY UntouchedGroup DEF cacheVars, MemberIds
  <2> QED BY <1>v, <2>1 DEF Filtered
<1>b. task[s].pc \in {"forwarding", "sending"} /\ client[s].connected
        => OnItsWay(s, g, v)
  BY <1>v DEF UpToDate
<1>1. CASE Forward!Subscribe(s) /\ UNCHANGED view
  BY <1>1, SubscribeDoes
<1>2. CASE ReadSnapshot(s) /\ UNCHANGED view
  <2>1. /\ task[s].pc = "subscribed" /\ QueueStill(s)
        /\ task'[s].snapshot = Snapshot(s)
        /\ task'[s].snapshot_sequence = sequence
        /\ task'[s].update = task[s].update
    BY <1>2, ReadSnapshotDoes
  <2>2. /\ view'[s] = [h \in GroupIds |-> None] /\ queue'[s] = <<>>
        /\ task'[s].update = None
    BY <2>1 DEF Shape, QueueStill
  <2> QED BY <2>1, <2>2, SnapshotOnItsWay
<1>3. CASE Receive(s) /\ UNCHANGED view
  <2>e. PICK e : e = Forward!NextUpdate(s)
    OBVIOUS
  <2>k. PICK k \in Nat : k = task[s].received + 1
    BY <1>0
  <2>1. /\ task[s].pc = "forwarding" /\ task[s].snapshot = {}
        /\ task[s].received < groupTail /\ QueueStill(s)
        /\ task'[s].received = task[s].received + 1 /\ task'[s].snapshot = {}
        /\ task'[s].snapshot_sequence = task[s].snapshot_sequence
        /\ \/ /\ Forward!InSnapshot(s, e) \/ ~Matches(s, e)
              /\ task'[s].update = task[s].update
           \/ /\ ~Forward!InSnapshot(s, e) /\ Matches(s, e)
              /\ task'[s].update = e
    BY <1>3, <2>e, ReceiveDoes
  <2>2. OwnStep(s)
    BY <1>0, <2>1 DEF OwnStep
  <2>3. k \in 1..Len(groupUpdates) /\ e = groupUpdates[k] /\ e \in GroupEvent
    BY <2>e, <2>k, <2>1, NextUpdateType DEF LogInv, IInv
  <2>4. /\ ToCome(s)' = ToCome(s) \ {k}
        /\ \A i \in ToCome(s) : i \in 1..Len(groupUpdates) /\ i >= k
    BY <2>1, <2>2, <2>k, ToComeMoves
  <2>5. k \in ToCome(s) <=> ~Forward!InSnapshot(s, e) /\ Matches(s, e)
    <3>1. k \in task[s].received+1 .. Len(groupUpdates)
      BY <1>0, <2>k, <2>3
    <3> QED BY <2>3, <3>1 DEF ToCome
  <2>6. client[s].connected /\ view'[s] = view[s]
    BY <2>1 DEF QueueStill
  <2>7. OnItsWay(s, g, v)
    BY <1>b, <2>1, <2>6
  <2>8. CASE (Forward!InSnapshot(s, e) \/ ~Matches(s, e))
               /\ task'[s].update = task[s].update
    <3>1. ToCome(s)' = ToCome(s)
      BY <2>4, <2>5, <2>8
    <3>2. Pending(s)' = Pending(s)
      BY <2>1, <2>8 DEF Pending, QueueStill
    <3>3. OnItsWay(s, g, v)'
      BY <1>g, <2>1, <2>6, <2>7, <3>1, <3>2, QuietOnItsWay
    <3> QED BY <1>w, <3>3
  <2>9. CASE /\ ~Forward!InSnapshot(s, e) /\ Matches(s, e)
             /\ task'[s].update = e
    <3>1. Pending(s)' = Append(Pending(s), e)
      BY <1>a, <1>p, <2>1, <2>9, <2>3, GroupUpdatesAssumption DEF QueueStill
    <3>2. k \in ToCome(s)
      BY <2>5, <2>9
    <3>3. (\A i \in ToCome(s) : i >= k) /\ ToCome(s) \subseteq Nat
      BY <2>4
    <3>4. OnItsWay(s, g, v)'
      BY <1>g, <2>1, <2>3, <2>4, <2>6, <2>7, <3>1, <3>2, <3>3, TakeOnItsWay
    <3> QED BY <1>w, <3>4
  <2> QED BY <2>1, <2>8, <2>9
<1>4. CASE Forward!SendSnapshot(s) /\ UNCHANGED view
  <2>1. /\ task[s].pc = "forwarding" /\ client[s].connected
        /\ view'[s] = view[s] /\ task'[s].received = task[s].received
        /\ task'[s].snapshot_sequence = task[s].snapshot_sequence
        /\ task'[s].update = task[s].update
    BY <1>4, SendSnapshotDoes
  <2>2. PICK m \in task[s].snapshot :
          /\ task'[s].snapshot = task[s].snapshot \ {m}
          /\ queue'[s] = Append(queue[s], m)
    BY <1>4, SendSnapshotDoes
  <2>3. OwnStep(s)
    BY <1>0, <2>1 DEF OwnStep
  <2>4. ToCome(s)' = ToCome(s)
    BY <2>1, <2>3, ToComeMoves
  <2>5. Pending(s)' = Append(Pending(s), m)
    BY <1>a, <1>p, <2>1, <2>2
  <2>6. OnItsWay(s, g, v)
    BY <1>b, <2>1
  <2>7. OnItsWay(s, g, v)'
    BY <1>a, <1>g, <2>1, <2>2, <2>4, <2>5, <2>6, SendOnItsWay
  <2> QED BY <1>w, <2>7
<1>5. CASE Forward!SendUpdate(s) /\ UNCHANGED view
  <2>1. /\ task[s].pc = "sending" /\ client[s].connected
        /\ view'[s] = view[s] /\ task'[s].received = task[s].received
        /\ task'[s].snapshot = task[s].snapshot
        /\ task'[s].snapshot_sequence = task[s].snapshot_sequence
        /\ task'[s].update = None
        /\ queue'[s] = Append(queue[s], task[s].update)
    BY <1>5, SendUpdateDoes
  <2>2. OwnStep(s)
    BY <1>0, <2>1 DEF OwnStep
  <2>3. Pending(s)' = Pending(s) /\ ToCome(s)' = ToCome(s)
    BY <1>p, <2>1, <2>2, ToComeMoves DEF Shape
  <2>4. OnItsWay(s, g, v)'
    BY <1>b, <1>g, <2>1, <2>3, QuietOnItsWay
  <2> QED BY <1>w, <2>4
<1>6. CASE (Forward!Lag(s) \/ Forward!Closed(s) \/ Forward!ClientGone(s))
             /\ UNCHANGED view
  BY <1>6, StopDoes
<1>7. CASE Forward!SendAborted(s) /\ UNCHANGED view
  BY <1>7, SendAbortedDoes
<1>8. CASE Forward!Disconnect(s) /\ UNCHANGED view
  BY <1>8, DisconnectDoes
<1>9. CASE ClientReceives(s)
  <2>1. /\ client[s].connected /\ queue[s] # <<>> /\ task'[s] = task[s]
        /\ queue'[s] = Tail(queue[s])
        /\ Head(queue[s]) # Aborted =>
             view'[s] = [view[s] EXCEPT ![Head(queue[s]).id] = Head(queue[s])]
    BY <1>9, ClientReceivesDoes
  <2>2. OwnStep(s)
    BY <1>0, <2>1 DEF OwnStep
  <2>3. /\ Pending(s) # <<>> /\ Pending(s)' = Tail(Pending(s))
        /\ Head(Pending(s)) = Head(queue[s])
    BY <2>1, ReceivingMoves
  <2>4. Head(queue[s]) # Aborted
    <3>1. 1 \in DOMAIN queue[s] /\ Head(queue[s]) = queue[s][1]
      BY <2>1, TaskType, TailElements
    <3> QED BY <2>1, <3>1 DEF Shape
  <2>5. ToCome(s)' = ToCome(s)
    BY <2>1, <2>2, ToComeMoves
  <2>6. OnItsWay(s, g, v)
    BY <1>b, <2>1
  <2>7. OnItsWay(s, g, v)'
    BY <1>g, <2>1, <2>3, <2>4, <2>5, <2>6, ReceiveOnItsWay
  <2> QED BY <1>w, <2>7
<1> QED BY <1>1, <1>2, <1>3, <1>4, <1>5, <1>6, <1>7, <1>8, <1>9
        DEF SubscriberStep, TaskStep, Forward!ForwardStep

LEMMA SubscriberStepOthers ==
  ASSUME SubscriberTypeOK, NEW s \in Subscribers, SubscriberStep(s)
  PROVE  OthersStill(s)
<1>1. CASE Forward!Subscribe(s) /\ UNCHANGED view
  BY <1>1, SubscribeDoes DEF QueueStill
<1>2. CASE ReadSnapshot(s) /\ UNCHANGED view
  BY <1>2, ReadSnapshotDoes DEF QueueStill
<1>3. CASE Receive(s) /\ UNCHANGED view
  BY <1>3, ReceiveDoes DEF QueueStill
<1>4. CASE Forward!SendSnapshot(s) /\ UNCHANGED view
  BY <1>4, SendSnapshotDoes
<1>5. CASE Forward!SendUpdate(s) /\ UNCHANGED view
  BY <1>5, SendUpdateDoes
<1>6. CASE (Forward!Lag(s) \/ Forward!Closed(s) \/ Forward!ClientGone(s))
             /\ UNCHANGED view
  BY <1>6, StopDoes DEF Proceeds, QueueStill
<1>7. CASE Forward!SendAborted(s) /\ UNCHANGED view
  BY <1>7, SendAbortedDoes
<1>8. CASE Forward!Disconnect(s) /\ UNCHANGED view
  BY <1>8, DisconnectDoes
<1>9. CASE ClientReceives(s)
  BY <1>9, ClientReceivesDoes
<1> QED BY <1>1, <1>2, <1>3, <1>4, <1>5, <1>6, <1>7, <1>8, <1>9
        DEF SubscriberStep, TaskStep, Forward!ForwardStep

-----------------------------------------------------------------------------
(* The invariant holds. *)

LEMMA InitGroupUpdatesInv == GroupUpdatesInit => GroupUpdatesInv
<1> SUFFICES ASSUME GroupUpdatesInit PROVE GroupUpdatesInv
  OBVIOUS
<1>1. LogInv
  BY InitLogInv DEF GroupUpdatesInit
<1>2. SubscriberTypeOK
  <2>1. \A s \in Subscribers : queue[s] = <<>> /\ Len(queue[s]) <= QueueCapacity
    BY GroupUpdatesAssumption DEF GroupUpdatesInit, Forward!Init
  <2>2. task \in [Subscribers -> Forward!Task(GroupEvent)]
    BY DEF GroupUpdatesInit, Forward!Init, Forward!Task
  <2>3. queue \in [Subscribers -> Seq({Aborted} \cup GroupEvent)]
    <3>1. <<>> \in Seq({Aborted} \cup GroupEvent)
      OBVIOUS
    <3> QED BY <3>1 DEF GroupUpdatesInit, Forward!Init
  <2>4. client \in [Subscribers -> Forward!Client] /\ cacheDropped \in BOOLEAN
    BY DEF GroupUpdatesInit, Forward!Init, Forward!Client
  <2>5. /\ side \in [Subscribers -> Filters]
        /\ view \in [Subscribers -> [GroupIds -> GroupEvent \cup {None}]]
    BY DEF GroupUpdatesInit
  <2> QED BY <2>1, <2>2, <2>3, <2>4, <2>5 DEF SubscriberTypeOK, Forward!TypeOK
<1>3. ASSUME NEW s \in Subscribers PROVE SubscriberInv(s)
  <2>1. /\ task[s] = [pc |-> "idle", received |-> 0, snapshot |-> {},
                      snapshot_sequence |-> 0, update |-> None]
        /\ queue[s] = <<>>
        /\ client[s] = [connected |-> TRUE, aborted |-> FALSE]
        /\ view[s] = [g \in GroupIds |-> None]
    BY <1>2 DEF GroupUpdatesInit, Forward!Init
  <2>2. sequence = 0 /\ groupTail = 0
    BY DEF GroupUpdatesInit, Init
  <2>3. Shape(s)
    BY <2>1, <2>2 DEF Shape
  <2>4. Pending(s) = <<>>
    BY <1>2, <2>1, PendingIs DEF PendingOK
  <2>5. \A g \in GroupIds, m \in GroupEvent : view[s][g] # m
    BY <2>1, GroupUpdatesAssumption
  <2>6. Delivers(s)
    BY <2>1, <2>4, <2>5 DEF Delivers, InOrder
  <2> QED BY <2>1, <2>3, <2>6 DEF SubscriberInv, UpToDate
<1> QED BY <1>1, <1>2, <1>3 DEF GroupUpdatesInv

LEMMA StepGroupUpdatesInv ==
  ASSUME GroupUpdatesInv, GroupUpdatesNext
  PROVE  GroupUpdatesInv'
<1>1. /\ LogInv /\ SubscriberTypeOK
      /\ \A s \in Subscribers : SubscriberInv(s)
  BY DEF GroupUpdatesInv
<1>2. [Next]_cacheVars
  BY DEF GroupUpdatesNext, CacheWrite, CacheSend, Next
<1>3. LogInv'
  BY <1>1, <1>2, NextLogInv
<1>4. CASE UNCHANGED subscriberVars
  <2>1. SubscriberTypeOK'
    BY <1>1, <1>4 DEF SubscriberTypeOK, Forward!TypeOK, subscriberVars
  <2>2. \A s \in Subscribers : SubscriberStill(s)
    BY <1>4 DEF SubscriberStill, subscriberVars
  <2> QED BY <1>1, <1>2, <1>3, <2>1, <2>2, StillKeeps DEF GroupUpdatesInv
<1>5. CASE DropCache /\ UNCHANGED <<cacheVars, side>>
  <2>1. SubscriberTypeOK'
    BY <1>1, <1>5
    DEF SubscriberTypeOK, Forward!TypeOK, DropCache, Forward!DropCache
  <2>2. \A s \in Subscribers : SubscriberStill(s)
    BY <1>5 DEF SubscriberStill, DropCache, Forward!DropCache
  <2> QED BY <1>1, <1>2, <1>3, <2>1, <2>2, StillKeeps DEF GroupUpdatesInv
<1>6. ASSUME NEW s \in Subscribers, SubscriberStep(s), UNCHANGED <<cacheVars, side>>
      PROVE  GroupUpdatesInv'
  <2>1. Shape(s) /\ Delivers(s) /\ UpToDate(s)
    BY <1>1 DEF SubscriberInv
  <2>2. SubscriberTypeOK'
    BY <1>1, <1>6, <2>1, SubscriberStepType DEF LogInv, IInv
  <2>3. Shape(s)'
    BY <1>1, <1>6, <2>1, <2>2, ShapeKept DEF LogInv, IInv
  <2>4. Delivers(s)'
    BY <1>1, <1>6, <2>1, <2>2, <2>3, DeliversKept
  <2>5. UpToDate(s)'
    BY <1>1, <1>6, <2>1, <2>2, <2>3, UpToDateKept
  <2>6. OthersStill(s)
    BY <1>1, <1>6, SubscriberStepOthers
  <2>7. ASSUME NEW t \in Subscribers, t # s
        PROVE  SubscriberInv(t)'
    <3>1. SubscriberStill(t)
      BY <1>6, <2>6, <2>7 DEF OthersStill, SubscriberStill
    <3> QED BY <1>1, <1>2, <3>1, StillKeeps
  <2>8. SubscriberInv(s)'
    BY <2>3, <2>4, <2>5 DEF SubscriberInv
  <2> QED BY <1>3, <2>2, <2>7, <2>8 DEF GroupUpdatesInv
<1> QED BY <1>4, <1>5, <1>6 DEF GroupUpdatesNext

LEMMA NextGroupUpdatesInv ==
  GroupUpdatesInv /\ [GroupUpdatesNext]_vars => GroupUpdatesInv'
<1> SUFFICES ASSUME GroupUpdatesInv, [GroupUpdatesNext]_vars
             PROVE  GroupUpdatesInv'
  OBVIOUS
<1>1. CASE GroupUpdatesNext
  BY <1>1, StepGroupUpdatesInv
<1>2. CASE UNCHANGED vars
  <2>1. UNCHANGED cacheVars /\ UNCHANGED subscriberVars
    BY <1>2 DEF vars
  <2>2. LogInv' /\ [Next]_cacheVars
    BY <2>1, NextLogInv DEF GroupUpdatesInv
  <2>3. SubscriberTypeOK'
    BY <2>1 DEF GroupUpdatesInv, SubscriberTypeOK, Forward!TypeOK, subscriberVars
  <2>4. \A s \in Subscribers : SubscriberStill(s)
    BY <2>1 DEF SubscriberStill, subscriberVars
  <2> QED BY <2>2, <2>3, <2>4, StillKeeps DEF GroupUpdatesInv
<1> QED BY <1>1, <1>2

-----------------------------------------------------------------------------
(* Theorems *)

\* Tasks, queues, filters and views keep their types, a queue never holds more
\* than its capacity, and a client's view holds messages of groups only.
THEOREM SubscriberTypesCorrect == GroupUpdatesSpec => []SubscriberTypeOK
<1>1. GroupUpdatesInv => SubscriberTypeOK
  BY DEF GroupUpdatesInv
<1> QED BY InitGroupUpdatesInv, NextGroupUpdatesInv, <1>1, PTL DEF GroupUpdatesSpec

\* A client never sees a group of the other side, in the snapshot or after it
\* (group.rs:108-113).
THEOREM FilterIsRespected == GroupUpdatesSpec => []FilterRespected
<1>1. ASSUME GroupUpdatesInv PROVE FilterRespected
  <2> SUFFICES ASSUME NEW s \in Subscribers, NEW g \in GroupIds,
                      Shown(s, g) # None
               PROVE  MatchesSide(Shown(s, g).side, side[s])
    BY DEF FilterRespected
  <2>1. SubscriberTypeOK /\ Delivers(s)
    BY <1>1 DEF GroupUpdatesInv, SubscriberInv
  <2>2. PICK m \in GroupEvent : view[s][g] = m
    BY <2>1, TaskType DEF Shown
  <2>3. Matches(s, m) /\ Shown(s, g) = m.group
    BY <2>1, <2>2, GroupUpdatesAssumption DEF Delivers, Sound, Truthful, Shown
  <2> QED BY <2>3 DEF Matches
<1> QED BY InitGroupUpdatesInv, NextGroupUpdatesInv, <1>1, PTL DEF GroupUpdatesSpec

\* What the filter shows is what it lets pass of the joined group.
LEMMA VisibleIs ==
  ASSUME LogInv, NEW s \in Subscribers, NEW g \in GroupIds
  PROVE  Visible(s, g) = Filtered(JoinedGroup(g), side[s])
<1>1. MapsTypeOK
  BY DEF LogInv, IInv, TypeOK, MapsTypeOK
<1>2. groups[g] # None =>
        JoinedGroup(g) # None /\ JoinedGroup(g).side = groups[g].side
  BY <1>1, JoinedFields DEF JoinedFieldsOK
<1>3. groups[g] = None => JoinedGroup(g) = None
  BY DEF JoinedGroup
<1> QED BY <1>2, <1>3 DEF Visible, Filtered

\* While a subscriber is served, its view and what is on its way to it add up
\* to what its filter shows of the cache (state.rs:446-454).
THEOREM NothingIsMissed == GroupUpdatesSpec => []NothingMissed
<1>1. ASSUME GroupUpdatesInv PROVE NothingMissed
  <2> SUFFICES ASSUME NEW s \in Subscribers, NEW g \in GroupIds,
                      Forward!Served(s),
                      NEW events,
                      events = {i \in ToCome(s) : groupUpdates[i].id = g},
                      NEW v, v = Visible(s, g)
               PROVE  \/ events # {} /\ groupUpdates[Max(events)].group = v
                      \/ events = {} /\ TellsLast(Pending(s), g, v)
                      \/ /\ events = {} /\ Silent(Pending(s), g)
                         /\ AfterSnapshot(s, g) = v
    BY DEF NothingMissed
  <2>1. LogInv /\ SubscriberTypeOK /\ Delivers(s) /\ UpToDate(s)
    BY <1>1 DEF GroupUpdatesInv, SubscriberInv
  <2>2. OnItsWay(s, g, v)
    BY <2>1, VisibleIs DEF UpToDate, Forward!Served
  <2>3. CASE LastAt(groupUpdates, ToCome(s), g, v)
    <3>1. PICK i \in ToCome(s) :
            /\ groupUpdates[i].id = g /\ groupUpdates[i].group = v
            /\ \A j \in ToCome(s) : j > i => groupUpdates[j].id # g
      BY <2>3 DEF LastAt
    <3>2. ToCome(s) \subseteq 1..Len(groupUpdates) /\ Len(groupUpdates) \in Nat
      <4>1. task[s].received \in Nat /\ Len(groupUpdates) \in Nat
        BY <2>1, TaskType, NumbersOfEvents
      <4> QED BY <4>1 DEF ToCome
    <3>3. i \in events /\ events \subseteq 1..Len(groupUpdates)
      BY <3>1, <3>2
    <3>4. \A j \in events : j <= i
      BY <3>1, <3>2
    <3>5. Max(events) = i
      BY <3>2, <3>3, <3>4, LastPlaceIs
    <3> QED BY <3>1, <3>3, <3>5
  <2>4. CASE NoneAt(groupUpdates, ToCome(s), g) /\ TellsLast(Pending(s), g, v)
    BY <2>4 DEF NoneAt
  <2>5. CASE /\ NoneAt(groupUpdates, ToCome(s), g) /\ Silent(Pending(s), g)
             /\ Shows(view[s], task[s].snapshot, g, v)
    <3>1. events = {}
      BY <2>5 DEF NoneAt
    <3>2. CASE \E m \in task[s].snapshot : m.id = g
      <4>1. PICK m \in task[s].snapshot : m.id = g
        BY <3>2
      <4>2. \A n \in task[s].snapshot : n.id = g => n = m
        BY <2>1, <4>1 DEF Delivers
      <4>3. (CHOOSE n \in task[s].snapshot : n.id = g) = m
        BY <4>1, <4>2
      <4>4. m.group = v
        BY <2>5, <4>1, <4>2 DEF Shows
      <4> QED BY <2>5, <3>1, <3>2, <4>3, <4>4 DEF AfterSnapshot
    <3>3. CASE \A m \in task[s].snapshot : m.id # g
      BY <2>5, <3>1, <3>3 DEF Shows, AfterSnapshot, Shown
    <3> QED BY <3>2, <3>3
  <2> QED BY <2>2, <2>3, <2>4, <2>5 DEF OnItsWay
<1> QED BY InitGroupUpdatesInv, NextGroupUpdatesInv, <1>1, PTL DEF GroupUpdatesSpec

-----------------------------------------------------------------------------
(* The subscription implements the feed. *)

HistoryOK ==
  sequence \in Nat =>
    \A s, g :
      /\ Len(History(s, g)) = sequence + 1
      /\ \E S : History(s, g) \in Seq(S)
      /\ \A t \in 1..sequence+1 : History(s, g)[t] = ValueAt(s, g, t - 1)

LEMMA HistoryIs == HistoryOK
<1> SUFFICES ASSUME sequence \in Nat, NEW s, NEW g
             PROVE  /\ Len(History(s, g)) = sequence + 1
                    /\ \E S : History(s, g) \in Seq(S)
                    /\ \A t \in 1..sequence+1 :
                         History(s, g)[t] = ValueAt(s, g, t - 1)
  BY DEF HistoryOK
<1> DEFINE S == {ValueAt(s, g, t - 1) : t \in 1..sequence+1}
           h == [t \in 1..sequence+1 |-> ValueAt(s, g, t - 1)]
<1>1. h \in [1..sequence+1 -> S] /\ sequence + 1 \in Nat
  OBVIOUS
<1>2. h \in Seq(S) /\ Len(h) = sequence + 1
  <2> HIDE DEF S, h
  <2>1. PICK n \in Nat : n = sequence + 1
    BY <1>1
  <2>2. h \in [1..n -> S]
    BY <1>1, <2>1
  <2>3. h \in Seq(S) /\ Len(h) = n
    BY <2>2
  <2> QED BY <2>1, <2>3
<1>3. History(s, g) = h
  BY DEF History
<1>4. \A t \in 1..sequence+1 : h[t] = ValueAt(s, g, t - 1)
  OBVIOUS
<1> HIDE DEF S, h
<1> QED BY <1>2, <1>3, <1>4

LEMMA HistoryIsNext == HistoryOK'
BY HistoryIs, PTL

\* The past is not rewritten, whatever the cache does next.
LEMMA HistoryGrows ==
  ASSUME LogInv, [Next]_cacheVars, UNCHANGED side, NEW s, NEW g
  PROVE  Feeds!IsPrefix(History(s, g), History(s, g)')
<1>1. /\ sequence \in Nat /\ sequence' \in Nat /\ sequence <= sequence'
  BY NumbersOfEvents, GroupTypesNext, LogsGrow
<1>2. /\ Len(History(s, g)) = sequence + 1
      /\ \E S : History(s, g) \in Seq(S)
      /\ \A t \in 1..sequence+1 : History(s, g)[t] = ValueAt(s, g, t - 1)
  BY <1>1, HistoryIs DEF HistoryOK
<1>3. /\ Len(History(s, g)') = sequence' + 1
      /\ \E S : History(s, g)' \in Seq(S)
      /\ \A t \in 1..sequence'+1 : History(s, g)'[t] = ValueAt(s, g, t - 1)'
  BY <1>1, HistoryIsNext DEF HistoryOK
<1>S. PICK S : History(s, g) \in Seq(S)
  BY <1>2
<1>T. PICK T : History(s, g)' \in Seq(T)
  BY <1>3
<1>4. PICK a \in Seq(S) : a = History(s, g)
  BY <1>S
<1>5. PICK b \in Seq(T) : b = History(s, g)'
  BY <1>T
<1>6. ASSUME NEW t \in 1..Len(a) PROVE b[t] = a[t]
  <2>1. t - 1 \in Nat /\ t - 1 <= sequence /\ t \in 1..sequence'+1 /\ t \in 1..sequence+1
    <3>1. t \in 1..sequence+1
      BY <1>2, <1>4
    <3>2. PICK n \in Nat : n = sequence
      BY <1>1
    <3>3. PICK m \in Nat : m = sequence'
      BY <1>1
    <3>4. n <= m /\ t \in 1..n+1
      BY <1>1, <3>1, <3>2, <3>3
    <3>5. t - 1 \in Nat /\ t - 1 <= n /\ t \in 1..m+1
      BY <3>4
    <3> QED BY <3>1, <3>2, <3>3, <3>5
  <2>2. ValueAt(s, g, t - 1)' = ValueAt(s, g, t - 1)
    BY <2>1, ValueKept
  <2> QED BY <1>2, <1>3, <1>4, <1>5, <2>1, <2>2
<1>7. Len(a) <= Len(b)
  BY <1>1, <1>2, <1>3, <1>4, <1>5
<1>8. Feeds!IsPrefix(a, b)
  BY <1>6, <1>7, PrefixIs DEF IsPrefix, Feeds!IsPrefix
<1> QED BY <1>4, <1>5, <1>8

\* The cache goes on.
LEMMA CacheIsChange ==
  ASSUME LogInv, [Next]_cacheVars, UNCHANGED subscriberVars
  PROVE  Feeds!Change
<1>1. UNCHANGED <<cacheDropped, task, client, side, view>>
  BY DEF subscriberVars
<1>2. \A s, g : Feeds!IsPrefix(History(s, g), History(s, g)')
  BY <1>1, HistoryGrows
<1>3. \A s, g : /\ Position(s, g)' = Position(s, g)
                /\ Shown(s, g)' = Shown(s, g)
  BY <1>1 DEF Position, Shown
<1>4. \A s : Excused(s)' = Excused(s)
  BY <1>1 DEF Excused, Forward!Excused
<1> QED BY <1>2, <1>3, <1>4 DEF Feeds!Change

\* Whatever leaves the cache and the view alone.
LEMMA QuietIsExcuse ==
  ASSUME UNCHANGED <<cacheVars, side, view>>,
         \A s \in Subscribers : Excused(s) => Excused(s)'
  PROVE  Feeds!Excuse
<1>1. UNCHANGED <<groupUpdates, sequence>>
  BY DEF cacheVars
<1>2. \A s, g, n : ValueAt(s, g, n)' = ValueAt(s, g, n)
  BY <1>1 DEF ValueAt, EventsUntil, Matches
<1>3. \A s, g : History(s, g)' = History(s, g)
  BY <1>1, <1>2 DEF History
<1>4. \A s, g : /\ Position(s, g)' = Position(s, g)
                /\ Shown(s, g)' = Shown(s, g)
  BY DEF Position, Shown
<1> QED BY <1>3, <1>4 DEF Feeds!Excuse, Followers

\* The client shows what the message says, as of its number.
LEMMA ReceiptIsFollow ==
  ASSUME LogInv, SubscriberTypeOK, NEW s \in Subscribers, Shape(s), Delivers(s),
         ClientReceives(s), Head(queue[s]) # Aborted, UNCHANGED <<cacheVars, side>>
  PROVE  \E f \in Followers : Feeds!Follow(f)
<1>1. PICK h : h = Head(queue[s])
  OBVIOUS
<1>2. /\ client[s].connected /\ queue[s] # <<>>
      /\ view' = [view EXCEPT ![s][h.id] = h]
      /\ UNCHANGED <<cacheDropped, task>>
      /\ client' = [client EXCEPT ![s].aborted = @ \/ h = Aborted]
  BY <1>1 DEF ClientReceives, Forward!ClientReceives
<1>3. Len(queue[s]) \in Nat /\ Len(queue[s]) > 0 /\ DOMAIN queue[s] = 1..Len(queue[s])
      /\ h = queue[s][1] /\ h \in {Aborted} \cup GroupEvent
  BY <1>1, <1>2, TaskType, TailElements
<1>4. 1 \in DOMAIN Pending(s) /\ Pending(s)[1] = h
  <2>1. CASE task[s].update = None
    BY <1>3, <2>1, PendingIs DEF PendingOK
  <2>2. CASE task[s].update # None
    <3>1. task[s].update \in {Aborted} \cup GroupEvent
      BY <2>2, TaskType
    <3>2. Pending(s) = Append(queue[s], task[s].update)
      BY <2>2, PendingIs DEF PendingOK
    <3> QED BY <1>3, <3>1, <3>2, TaskType, AppendElements
  <2> QED BY <2>1, <2>2
<1>5. h \in GroupEvent /\ h # Aborted
  BY <1>1, <1>3
<1>6. PICK g \in GroupIds : g = h.id
  BY <1>5 DEF GroupEvent
<1>7. /\ h.sequence \in 1..sequence /\ h.group = ValueAt(s, g, h.sequence)
  BY <1>2, <1>4, <1>5, <1>6 DEF Delivers, Sound, Truthful
<1>8. view[s][g] # None => view[s][g].sequence \in Nat
                             /\ view[s][g].sequence < h.sequence
  <2>1. view[s][g] # None => view[s][g].sequence < h.sequence
    BY <1>2, <1>4, <1>5, <1>6 DEF Delivers, InOrder
  <2>2. view[s][g] # None => view[s][g] \in GroupEvent
    BY TaskType
  <2> QED BY <2>1, <2>2 DEF GroupEvent
<1>9. sequence \in Nat
  BY NumbersOfEvents
<1> DEFINE p == h.sequence + 1
<1>10. p \in Position(s, g)+1 .. Len(History(s, g))
  BY <1>7, <1>8, <1>9, HistoryIs DEF Position, HistoryOK
<1>11. History(s, g)[p] = h.group
  BY <1>7, <1>9, HistoryIs DEF HistoryOK
<1>12. /\ Position(s, g)' = p /\ Shown(s, g)' = h.group
       /\ \A t \in Subscribers, k \in GroupIds : t # s \/ k # g =>
            Position(t, k)' = Position(t, k) /\ Shown(t, k)' = Shown(t, k)
  <2>1. view'[s][g] = h
    BY <1>2, <1>6, TaskType
  <2>2. \A t \in Subscribers, k \in GroupIds :
          t # s \/ k # g => view'[t][k] = view[t][k]
    BY <1>2, <1>6, TaskType
  <2>3. h # None
    BY <1>5, GroupUpdatesAssumption
  <2> QED BY <2>1, <2>2, <2>3 DEF Position, Shown
<1>13. \A t, k : History(t, k)' = History(t, k)
  <2>1. UNCHANGED <<groupUpdates, sequence, side>>
    BY DEF cacheVars
  <2>2. \A t, k, n : ValueAt(t, k, n)' = ValueAt(t, k, n)
    BY <2>1 DEF ValueAt, EventsUntil, Matches
  <2> QED BY <2>1, <2>2 DEF History
<1>14. \A t \in Subscribers : Excused(t)' = Excused(t)
  <2>1. \A t \in Subscribers : client'[t] = client[t]
    BY <1>2, <1>5, TaskType
  <2> QED BY <1>2, <2>1 DEF Excused, Forward!Excused
<1>15. ~Excused(s)
  BY <1>2 DEF Shape, Excused, Forward!Excused
<1>16. PICK f \in Followers : f = <<s, g>>
  BY DEF Followers
<1> HIDE DEF p
<1>17. ~[r \in Followers |-> Excused(r[1])][f]
  BY <1>15, <1>16
<1>18. /\ [r \in Followers |-> Position(r[1], r[2])]'
            = [[r \in Followers |-> Position(r[1], r[2])] EXCEPT ![f] = p]
       /\ [r \in Followers |-> Shown(r[1], r[2])]'
            = [[r \in Followers |-> Shown(r[1], r[2])] EXCEPT ![f] = h.group]
  <2>1. f[1] = s /\ f[2] = g
    BY <1>16
  <2>2. ASSUME NEW r \in Followers
        PROVE  /\ Position(r[1], r[2])' = IF r = f THEN p ELSE Position(r[1], r[2])
               /\ Shown(r[1], r[2])' = IF r = f THEN h.group ELSE Shown(r[1], r[2])
    <3>1. CASE r = f
      <4>1. PICK t \in Subscribers : t = r[1] /\ t = s
        BY <2>1, <3>1
      <4>2. PICK k \in GroupIds : k = r[2] /\ k = g
        BY <2>1, <3>1
      <4> QED BY <1>12, <3>1, <4>1, <4>2
    <3>2. CASE r # f
      <4>1. r = <<r[1], r[2]>> /\ r[1] \in Subscribers /\ r[2] \in GroupIds
        BY DEF Followers
      <4>2. r[1] # s \/ r[2] # g
        BY <1>16, <3>2, <4>1
      <4> QED BY <1>12, <3>2, <4>1, <4>2
    <3> QED BY <3>1, <3>2
  <2>3. /\ [r \in Followers |-> Position(r[1], r[2])]'
            = [r \in Followers |-> IF r = f THEN p ELSE Position(r[1], r[2])]
        /\ [r \in Followers |-> Shown(r[1], r[2])]'
            = [r \in Followers |-> IF r = f THEN h.group ELSE Shown(r[1], r[2])]
    BY <2>2 DEF Followers
  <2> QED BY <2>3
<1>19. /\ p \in [r \in Followers |-> Position(r[1], r[2])][f]+1
               .. Len([r \in Followers |-> History(r[1], r[2])][f])
       /\ [r \in Followers |-> History(r[1], r[2])][f][p] = h.group
  BY <1>10, <1>11, <1>16
<1>20. /\ UNCHANGED [r \in Followers |-> History(r[1], r[2])]
       /\ UNCHANGED [r \in Followers |-> Excused(r[1])]
  BY <1>13, <1>14 DEF Followers
<1>21. Feeds!Follow(f)
  BY <1>17, <1>18, <1>19, <1>20 DEF Feeds!Follow
<1> QED BY <1>16, <1>21

\* Nothing excuses a client but its own leaving, its abort, or a cache that was
\* dropped before its call, and none of them is undone.
LEMMA StaysExcused ==
  ASSUME SubscriberTypeOK, NEW s \in Subscribers, SubscriberStep(s)
  PROVE  \A t \in Subscribers : Excused(t) => Excused(t)'
<1>1. OthersStill(s)
  BY SubscriberStepOthers
<1>2. ASSUME NEW t \in Subscribers, t # s, Excused(t) PROVE Excused(t)'
  <2>1. cacheDropped => cacheDropped'
    BY DEF SubscriberStep, TaskStep, Forward!ForwardStep, Forward!Subscribe,
           ReadSnapshot, Forward!ReadSnapshot, Receive, Forward!Receive,
           Forward!SendSnapshot, Forward!SendUpdate, Forward!Lag,
           Forward!SendAborted, Forward!Closed, Forward!ClientGone,
           Forward!Disconnect, ClientReceives, Forward!ClientReceives
  <2> QED BY <1>1, <1>2, <2>1 DEF OthersStill, Excused, Forward!Excused
<1>3. Forward!Excused(s) => Forward!Excused(s)'
  <2>1. CASE ClientReceives(s)
    BY <2>1, ClientReceivesDoes DEF Forward!Excused
  <2>2. CASE Forward!Disconnect(s) /\ UNCHANGED view
    BY <2>2, DisconnectDoes DEF Forward!Excused
  <2>3. CASE Forward!Subscribe(s) \/ TaskStep(s)
    BY <2>3 DEF TaskStep, Forward!ForwardStep, Forward!Subscribe, ReadSnapshot,
                Forward!ReadSnapshot, Receive, Forward!Receive,
                Forward!SendSnapshot, Forward!SendUpdate, Forward!Lag,
                Forward!SendAborted, Forward!Closed, Forward!ClientGone,
                Forward!Excused
  <2> QED BY <2>1, <2>2, <2>3 DEF SubscriberStep
<1>4. task[s].pc = "idle" /\ cacheDropped => Excused(s)'
  <2>1. CASE ClientReceives(s)
    BY <2>1 DEF ClientReceives, Forward!ClientReceives, Excused
  <2>2. CASE (Forward!Subscribe(s) \/ TaskStep(s) \/ Forward!Disconnect(s))
               /\ UNCHANGED view
    BY <2>2 DEF TaskStep, Forward!ForwardStep, Forward!Subscribe, ReadSnapshot,
                Forward!ReadSnapshot, Receive, Forward!Receive, Forward!Receiving,
                Forward!SendSnapshot, Forward!SendUpdate, Forward!Lag,
                Forward!SendAborted, Forward!Closed, Forward!ClientGone,
                Forward!Disconnect
  <2> QED BY <2>1, <2>2 DEF SubscriberStep
<1> QED BY <1>2, <1>3, <1>4 DEF Excused

LEMMA InitFeed == GroupUpdatesInit => Feeds!Init
<1> SUFFICES ASSUME GroupUpdatesInit PROVE Feeds!Init
  OBVIOUS
<1>1. /\ sequence = 0 /\ groupUpdates = <<>> /\ cacheDropped = FALSE
      /\ client = [s \in Subscribers |-> [connected |-> TRUE, aborted |-> FALSE]]
      /\ view = [s \in Subscribers |-> [g \in GroupIds |-> None]]
  BY DEF GroupUpdatesInit, Init, Forward!Init
<1>2. ASSUME NEW s \in Subscribers, NEW g \in GroupIds
      PROVE  /\ History(s, g) = <<None>> /\ Position(s, g) = 1
             /\ Shown(s, g) = None /\ Excused(s) = FALSE
  <2>1. \A n : ValueAt(s, g, n) = None
    BY <1>1 DEF ValueAt, EventsUntil
  <2>2. History(s, g) = [t \in 1..1 |-> None]
    BY <1>1, <2>1 DEF History
  <2>3. [t \in 1..1 |-> None] = <<None>>
    OBVIOUS
  <2> QED BY <1>1, <2>2, <2>3 DEF Position, Shown, Excused, Forward!Excused
<1> QED BY <1>2 DEF Feeds!Init, Followers

LEMMA NextFeed ==
  GroupUpdatesInv /\ [GroupUpdatesNext]_vars => [Feeds!Next]_(Feeds!vars)
<1> SUFFICES ASSUME GroupUpdatesInv, [GroupUpdatesNext]_vars
             PROVE  Feeds!Next
  OBVIOUS
<1>1. /\ LogInv /\ SubscriberTypeOK
      /\ \A s \in Subscribers : Shape(s) /\ Delivers(s)
  BY DEF GroupUpdatesInv, SubscriberInv
<1>2. CASE [Next]_cacheVars /\ UNCHANGED subscriberVars
  BY <1>1, <1>2, CacheIsChange DEF Feeds!Next
<1>3. CASE DropCache /\ UNCHANGED <<cacheVars, side>>
  <2>1. UNCHANGED <<task, client, view>> /\ cacheDropped' = TRUE
    BY <1>3 DEF DropCache, Forward!DropCache
  <2>2. \A s \in Subscribers : Excused(s) => Excused(s)'
    BY <2>1 DEF Excused, Forward!Excused
  <2> QED BY <1>3, <2>1, <2>2, QuietIsExcuse DEF Feeds!Next
<1>4. ASSUME NEW s \in Subscribers, SubscriberStep(s), UNCHANGED <<cacheVars, side>>
      PROVE  Feeds!Next
  <2>1. \A t \in Subscribers : Excused(t) => Excused(t)'
    BY <1>1, <1>4, StaysExcused
  <2>2. CASE UNCHANGED view
    BY <1>4, <2>1, <2>2, QuietIsExcuse DEF Feeds!Next
  <2>3. CASE ClientReceives(s) /\ Head(queue[s]) = Aborted
    BY <1>4, <2>1, <2>3, QuietIsExcuse DEF ClientReceives, Feeds!Next
  <2>4. CASE ClientReceives(s) /\ Head(queue[s]) # Aborted
    BY <1>1, <1>4, <2>4, ReceiptIsFollow DEF Feeds!Next
  <2> QED BY <1>4, <2>2, <2>3, <2>4 DEF SubscriberStep
<1>5. CASE GroupUpdatesNext
  <2>1. CacheWrite \/ CacheSend => [Next]_cacheVars
    BY DEF CacheWrite, CacheSend, Next
  <2> QED BY <1>2, <1>3, <1>4, <1>5, <2>1 DEF GroupUpdatesNext
<1>6. CASE UNCHANGED vars
  BY <1>2, <1>6 DEF vars
<1> QED BY <1>5, <1>6

\* The subscription implements the feed: every client's view of every group is a
\* value that its filter once showed, each newer than the last, and an excused
\* client's view does not change (group.rs:83-134).
THEOREM FollowsTheFeed == GroupUpdatesSpec => FollowsFeed
<1>1. GroupUpdatesSpec => []GroupUpdatesInv
  BY InitGroupUpdatesInv, NextGroupUpdatesInv, PTL DEF GroupUpdatesSpec
<1> QED BY <1>1, InitFeed, NextFeed, PTL
        DEF GroupUpdatesSpec, FollowsFeed, Feeds!Spec
=============================================================================
