---------------------------- MODULE GroupUpdates ----------------------------
(***************************************************************************)
(* SubscribeGroupUpdates (src/services/group.rs) on top of the state cache:*)
(* Forwarding on the channel of group events, with a side filter.          *)
(*                                                                         *)
(* Between the receiver and the snapshot, and between any two awaits of    *)
(* the task, the engine goes on writing.                                   *)
(***************************************************************************)
EXTENDS StateCache

CONSTANTS Subscribers, BroadcastCapacity, QueueCapacity, Aborted

ASSUME GroupUpdatesAssumption ==
  /\ BroadcastCapacity \in Nat \ {0} /\ QueueCapacity \in Nat \ {0}
  /\ Aborted \notin GroupEvent /\ None \notin GroupEvent

VARIABLES
  cacheDropped, task, queue, client,   \* see Forwarding
  side,   \* the filter each subscriber asks for
  view    \* the last message about each group that its client received

Forward == INSTANCE Forwarding WITH updates <- groupUpdates, tail <- groupTail

subscriberVars == <<cacheDropped, task, queue, client, side, view>>
vars == <<cacheVars, subscriberVars>>

Filters == ValidSides \cup {None}

SubscriberTypeOK ==
  /\ Forward!TypeOK(GroupEvent)
  /\ side \in [Subscribers -> Filters]
  /\ view \in [Subscribers -> [GroupIds -> GroupEvent \cup {None}]]

-----------------------------------------------------------------------------
(* What the subscription adds to Forwarding *)

(* Mutants *)
MatchesAnything(s, e) == TRUE
RemovalsFiltered(s, e) == e.group # None /\ MatchesSide(e.group.side, side[s])

\* matches_side: a removal carries no side and passes every filter.
Matches(s, e) == e.group = None \/ MatchesSide(e.group.side, side[s])

\* The groups that the snapshot joins and filters, as messages.
Snapshot(s) ==
  LET listed == ListGroups(side[s])
  IN  {[sequence |-> sequence, id |-> g, group |-> listed[g]] : g \in DOMAIN listed}

\* The snapshot waits for the write lock.
ReadSnapshot(s) == ~WriteLocked /\ Forward!ReadSnapshot(s, Snapshot(s), sequence)

Receive(s) == Forward!Receive(s, Matches(s, Forward!NextUpdate(s)))

\* The client's side of the contract: an upsert replaces, a removal deletes.
ClientReceives(s) ==
  /\ Forward!ClientReceives(s)
  /\ view' = IF Head(queue[s]) = Aborted THEN view
             ELSE [view EXCEPT ![s][Head(queue[s]).id] = Head(queue[s])]

TaskStep(s) == ReadSnapshot(s) \/ Receive(s) \/ Forward!ForwardStep(s)

SubscriberStep(s) ==
  \/ (Forward!Subscribe(s) \/ TaskStep(s) \/ Forward!Disconnect(s)) /\ UNCHANGED view
  \/ ClientReceives(s)

DropCache == ~WriteLocked /\ Forward!DropCache /\ UNCHANGED view

-----------------------------------------------------------------------------
CacheWrite == ~cacheDropped /\ Write
CacheSend == SendGroupUpdate \/ SendSimulationUpdate

GroupUpdatesInit ==
  /\ Init /\ Forward!Init
  /\ side \in [Subscribers -> Filters]
  /\ view = [s \in Subscribers |-> [g \in GroupIds |-> None]]

GroupUpdatesNext ==
  \/ (CacheWrite \/ CacheSend) /\ UNCHANGED subscriberVars
  \/ (DropCache \/ \E s \in Subscribers : SubscriberStep(s))
     /\ UNCHANGED <<cacheVars, side>>

GroupUpdatesSpec == GroupUpdatesInit /\ [][GroupUpdatesNext]_vars

\* A write does not stop halfway, the runtime polls a task that can go on, and
\* a client subscribes and, while connected, reads what is queued for it.
FairSpec ==
  /\ GroupUpdatesSpec
  /\ WF_vars(CacheSend /\ UNCHANGED subscriberVars)
  /\ \A s \in Subscribers :
       /\ WF_vars(Forward!Subscribe(s) /\ UNCHANGED <<cacheVars, side, view>>)
       /\ WF_vars(TaskStep(s) /\ UNCHANGED <<cacheVars, side, view>>)
       /\ WF_vars(ClientReceives(s) /\ UNCHANGED <<cacheVars, side>>)

-----------------------------------------------------------------------------
(* Properties *)

\* What the cache holds for a subscriber's filter, what its client shows, and
\* what it is to be shown once the whole snapshot is out.
Visible(s, g) ==
  IF groups[g] # None /\ MatchesSide(groups[g].side, side[s])
  THEN JoinedGroup(g) ELSE None

Shown(s, g) == IF view[s][g] = None THEN None ELSE view[s][g].group

AfterSnapshot(s, g) ==
  IF \E m \in task[s].snapshot : m.id = g
  THEN (CHOOSE m \in task[s].snapshot : m.id = g).group ELSE Shown(s, g)

\* The messages queued and the one in the task's hand, in order, and where in
\* the channel the events are that will follow them.
Pending(s) ==
  queue[s] \o (IF task[s].update = None THEN <<>> ELSE <<task[s].update>>)

ToCome(s) ==
  {i \in task[s].received+1 .. Len(groupUpdates) :
     ~Forward!InSnapshot(s, groupUpdates[i]) /\ Matches(s, groupUpdates[i])}

\* While a subscriber is served, its view and what is on its way to it always
\* add up to what its filter shows of the cache: no change is missed, and none
\* comes in the wrong order, whenever it subscribed (state.rs:446-454).
NothingMissed ==
  \A s \in Subscribers, g \in GroupIds :
    LET events == {i \in ToCome(s) : groupUpdates[i].id = g}
    IN  Forward!Served(s) =>
          \/ events # {} /\ groupUpdates[Max(events)].group = Visible(s, g)
          \/ events = {} /\ TellsLast(Pending(s), g, Visible(s, g))
          \/ /\ events = {} /\ Silent(Pending(s), g)
             /\ AfterSnapshot(s, g) = Visible(s, g)

\* A client never sees a group of the other side.
FilterRespected ==
  \A s \in Subscribers, g \in GroupIds :
    Shown(s, g) # None => MatchesSide(Shown(s, g).side, side[s])

\* Every subscriber follows every group.  Time is told by the sequence counter:
\* when it stood at n, the subscriber's filter showed ValueAt(s, g, n) of g.
EventsUntil(g, n) ==
  {i \in DOMAIN groupUpdates : groupUpdates[i].id = g /\ groupUpdates[i].sequence <= n}

ValueAt(s, g, n) ==
  LET events == EventsUntil(g, n)
      last == groupUpdates[Max(events)]
  IN  IF events = {} \/ ~Matches(s, last) THEN None ELSE last.group

History(s, g) == [t \in 1..sequence+1 |-> ValueAt(s, g, t - 1)]

Position(s, g) == IF view[s][g] = None THEN 1 ELSE view[s][g].sequence + 1

Excused(s) == Forward!Excused(s) \/ (task[s].pc = "idle" /\ cacheDropped)

Followers == Subscribers \X GroupIds

Feeds ==
  INSTANCE Feed WITH
    Followers <- Followers,
    Absent <- None,
    history <- [f \in Followers |-> History(f[1], f[2])],
    position <- [f \in Followers |-> Position(f[1], f[2])],
    view <- [f \in Followers |-> Shown(f[1], f[2])],
    excused <- [f \in Followers |-> Excused(f[1])]

\* The subscription implements the feed: a client shows each group as it once
\* was, never goes back to an older value when the snapshot is followed by
\* events it already holds (group.rs:98-102), and gets nothing after an abort.
FollowsFeed == Feeds!Spec

\* A client that stays ends up with what its filter shows of the cache, or
\* knows that it must resubscribe.
CatchesUp == Feeds!CatchesUp

\* A subscriber that lags hears so, unless it leaves first (group.rs:121-124).
LagIsTold == Forward!LagIsTold

\* The task of a client that left ends, even if no group ever changes again
\* (group.rs:92-95).
TaskEnds == Forward!TaskEnds
=============================================================================
