------------------------- MODULE SimulationUpdates -------------------------
(***************************************************************************)
(* SubscribeSimulationUpdates (src/services/simulation.rs) on top of the   *)
(* state cache: Forwarding on the channel of simulation events, without a  *)
(* filter, from a snapshot of at most one message.                         *)
(***************************************************************************)
EXTENDS StateCache

CONSTANTS Subscribers, BroadcastCapacity, QueueCapacity, Aborted

ASSUME SimulationUpdatesAssumption ==
  /\ BroadcastCapacity \in Nat \ {0} /\ QueueCapacity \in Nat \ {0}
  /\ Aborted \notin SimulationEvent /\ None \notin SimulationEvent

VARIABLES
  cacheDropped, task, queue, client,   \* see Forwarding
  view    \* the last message that each client received

Forward ==
  INSTANCE Forwarding WITH updates <- simulationUpdates, tail <- simulationTail

subscriberVars == <<cacheDropped, task, queue, client, view>>
vars == <<cacheVars, subscriberVars>>

SubscriberTypeOK ==
  /\ Forward!TypeOK(SimulationEvent)
  /\ view \in [Subscribers -> SimulationEvent \cup {None}]

-----------------------------------------------------------------------------
(* What the subscription adds to Forwarding *)

\* Nothing is sent while there is no state.
Snapshot ==
  IF simulation_state = None THEN {}
  ELSE {[sequence |-> sequence, state |-> simulation_state]}

(* Mutants *)
\* A state and a number that were read under two locks, another write between.
ReadTornSnapshot(s) ==
  /\ ~WriteLocked
  /\ \E n \in {sequence, sequence + 1} : Forward!ReadSnapshot(s, Snapshot, n)

ReadSnapshot(s) == ~WriteLocked /\ Forward!ReadSnapshot(s, Snapshot, sequence)

Receive(s) == Forward!Receive(s, TRUE)

ClientReceives(s) ==
  /\ Forward!ClientReceives(s)
  /\ view' = IF Head(queue[s]) = Aborted THEN view
             ELSE [view EXCEPT ![s] = Head(queue[s])]

TaskStep(s) == ReadSnapshot(s) \/ Receive(s) \/ Forward!ForwardStep(s)

SubscriberStep(s) ==
  \/ (Forward!Subscribe(s) \/ TaskStep(s) \/ Forward!Disconnect(s)) /\ UNCHANGED view
  \/ ClientReceives(s)

DropCache == ~WriteLocked /\ Forward!DropCache /\ UNCHANGED view

-----------------------------------------------------------------------------
CacheWrite == ~cacheDropped /\ Write
CacheSend == SendGroupUpdate \/ SendSimulationUpdate

SimulationUpdatesInit ==
  Init /\ Forward!Init /\ view = [s \in Subscribers |-> None]

SimulationUpdatesNext ==
  \/ (CacheWrite \/ CacheSend) /\ UNCHANGED subscriberVars
  \/ (DropCache \/ \E s \in Subscribers : SubscriberStep(s)) /\ UNCHANGED cacheVars

SimulationUpdatesSpec ==
  SimulationUpdatesInit /\ [][SimulationUpdatesNext]_vars

\* As for the group subscriptions.
FairSpec ==
  /\ SimulationUpdatesSpec
  /\ WF_vars(CacheSend /\ UNCHANGED subscriberVars)
  /\ \A s \in Subscribers :
       /\ WF_vars(Forward!Subscribe(s) /\ UNCHANGED <<cacheVars, view>>)
       /\ WF_vars(TaskStep(s) /\ UNCHANGED <<cacheVars, view>>)
       /\ WF_vars(ClientReceives(s) /\ UNCHANGED cacheVars)

-----------------------------------------------------------------------------
(* Properties *)

Shown(s) == IF view[s] = None THEN None ELSE view[s].state

\* The messages queued and the one in the task's hand, in order, and where in
\* the channel the events are that will follow them.
Pending(s) ==
  queue[s] \o (IF task[s].update = None THEN <<>> ELSE <<task[s].update>>)

ToCome(s) ==
  {i \in task[s].received+1 .. Len(simulationUpdates) :
     ~Forward!InSnapshot(s, simulationUpdates[i])}

AfterSnapshot(s) ==
  IF task[s].snapshot # {}
  THEN (CHOOSE m \in task[s].snapshot : TRUE).state ELSE Shown(s)

\* While a subscriber is served, the last message on its way to it, or else
\* its view, is the state of the simulation: also when a reset, which sends
\* on both channels, falls between its receiver and its snapshot.
NothingMissed ==
  \A s \in Subscribers :
    Forward!Served(s) =>
      simulation_state =
        IF ToCome(s) # {} THEN simulationUpdates[Max(ToCome(s))].state
        ELSE IF Pending(s) # <<>> THEN Last(Pending(s)).state
        ELSE AfterSnapshot(s)

\* Time is told by the sequence counter: when it stood at n, the simulation's
\* state was StateAt(n).
StateAt(n) ==
  LET events == {i \in DOMAIN simulationUpdates : simulationUpdates[i].sequence <= n}
  IN  IF events = {} THEN None ELSE simulationUpdates[Max(events)].state

Position(s) == IF view[s] = None THEN 1 ELSE view[s].sequence + 1

Excused(s) == Forward!Excused(s) \/ (task[s].pc = "idle" /\ cacheDropped)

Feeds ==
  INSTANCE Feed WITH
    Followers <- Subscribers,
    Absent <- None,
    history <- [s \in Subscribers |->
      [t \in 1..sequence+1 |-> StateAt(t - 1)]],
    position <- [s \in Subscribers |-> Position(s)],
    view <- [s \in Subscribers |-> Shown(s)],
    excused <- [s \in Subscribers |-> Excused(s)]

\* The subscription implements the feed: a client shows states the simulation
\* really had, each newer than the last (simulation.rs:83-88).
FollowsFeed == Feeds!Spec

\* A client that stays shows the state of the simulation in the end, or knows
\* that it must resubscribe.
CatchesUp == Feeds!CatchesUp

\* A subscriber that lags hears so, unless it leaves first (simulation.rs:93).
LagIsTold == Forward!LagIsTold

\* The task of a client that left ends, even if the state never changes again
\* (simulation.rs:76-78).
TaskEnds == Forward!TaskEnds
=============================================================================
