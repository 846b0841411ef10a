# A TLA+ verification of minerva-server

minerva-server is a Rust library that an engine plugin embeds: the engine thread
feeds a cache of the simulation, gRPC clients read it and subscribe to its
changes, and clients' commands travel the other way to the engine. These modules
model the cache, the services, both subscriptions, the command path and the life
of the server as the code in `src/` implements them, check them with TLC on small
instances, and prove every safety property that the passing runs check, and the
refinements, for any instance with TLAPS.

Paths below are relative to the crate (`src/state.rs` is the crate's
`src/state.rs`); line numbers are those of the modelled commit.

## The system

| Component | Code | State it keeps | Modules |
|---|---|---|---|
| State cache | `src/state.rs` | `Inner` behind a `RwLock`: units, groups, the member index, simulation info and state, locations, the event counter; two broadcast channels | `StateCache` |
| Unit, group, location and simulation services: reads | `src/services/` | none | `Queries` |
| Group subscriptions | `src/services/group.rs` | one task per subscriber, with a broadcast receiver and a bounded queue to the client | `GroupUpdates` on `Forwarding`, implementing `Feed` |
| Simulation subscriptions | `src/services/simulation.rs` | the same, for the simulation's state | `SimulationUpdates` on `Forwarding`, implementing `Feed` |
| Command dispatcher | `src/commands.rs` | pending commands behind a reentrant mutex, the id counter | `Dispatcher`, implementing `CommandContract` |
| Command decoding | `src/commands.rs`, the messages of `src/gen/` | none | `Commands` |
| Command service | `src/services/command.rs` | none: between cache and dispatcher | `CommandService` |
| Server | `src/server.rs` | a thread with a runtime, the shutdown signal, the grace period | `Server` (partly: not `serve()`) |
| Generated clients and servers | `src/gen/` | none | `Api` (partly: the paths) |
| Ids, benches | `src/ids.rs`, `benches/` | none but the id counter | not modelled |

How they interact:

- The engine thread calls the cache's writes. A write takes the write lock,
  changes the maps, and sends its events on the broadcast channels before it
  releases the lock.
- A subscription takes a receiver, then reads a snapshot and the counter under
  the read lock. A task sends the snapshot, then forwards every event numbered
  above the snapshot, through an mpsc queue to the response stream.
- `send_command` decodes, reads the cache, then waits in `Dispatcher::send`,
  which calls the engine's `CommandSink` under the lock; the engine calls
  `complete` or `cancel_all` from any thread, or from inside the sink.
- A reset of the engine is `clear()` on the cache and `cancel_all()` on the
  dispatcher, two independent calls (`src/state.rs:349-352`).
- `ServerHandle::spawn` puts all of this on a thread of its own; `shutdown()` and
  drop signal that thread and join it, while its tasks may be inside the sink.

What is hard, and what makes each component correct:

- *Cache.* Two representations of membership (the units' `group_id`, the index)
  that every write must keep in step; events derived from a comparison of a
  group before and after the write; numbers that must survive a reset. Correct
  when index and units agree, when whoever replays all events has exactly the
  cached groups, and when numbers follow the order of the writes.
- *Subscriptions.* Three actors (engine, task, client) with no common lock:
  writes and half-sent writes fall between receiver and snapshot, the task waits
  for a slow client while the channel overruns, clients leave at any time, the
  cache may be dropped. Correct when the client sees no gap, no older state
  after newer, no group of the other side, and is told when it was left behind.
- *Dispatcher.* Acknowledgement, cancellation, timeout, a dropped request and a
  panic of the sink race for one entry of the map. Correct when the entry goes
  with the call, when the engine and the caller agree, and when every call ends.
- *Command service.* Cache and dispatcher have no lock in common, so writes and
  resets fall between lookup, dispatch and answer. Correct when the client is
  told what became of its command, and when a reset is final.
- *Server.* Five kinds of actors, of which the clients may do as they like.
  Correct when `spawn()`, `shutdown()` and drop always return, when nothing is
  left then, and when calls in progress got their grace period.

`PROJECT.json` lists the components with what is modelled of each, every hazard
at its line with the properties that cover it, and for each definition the lines
it stands for.

## The modules

The composition, `A -> B` for A using B:

    Queries -> StateCache <- GroupUpdates, SimulationUpdates -> Forwarding, Feed
               StateCache <- CommandService -> Commands, Dispatcher -> CommandContract
                             Server -> Api

Each proof module extends the module it is about and, where it needs them, the
proofs of what that one is built on:

    StateCacheProofs <- EventLogProofs <- GroupUpdatesProofs, SimulationUpdatesProofs
    StateCacheProofs <- QueriesProofs
    DispatcherProofs      CommandServiceProofs      ServerProofs

### StateCache

`units`, `groups` and `members` are the three maps of `Inner` as total functions
into `None` or the entry; a unit is reduced to its `group_id` and the rest as one
value, a group to its side, the rest, and (joined) its units. `simulation_info`,
`simulation_state`, `locations` and `sequence` are the fields of those names.

One action per public write; its guard is the code's early return, and a call
that changes nothing is a stuttering step. `EmitIfChanged(g)` compares
`JoinedGroup(g)` with its primed self, which is the code's `before` and `after`:
the code captures `before` ahead of its first mutation in every write.

A write is one step for the maps, since nobody reads them while the lock is held,
but its *sends* are steps of their own. `groupUpdates` and `simulationUpdates`
are everything the channels ever carry, `groupTail` and `simulationTail` how far
sending has come; the lock is held (`WriteLocked`) exactly while something is
left to send. A receiver can therefore be created, or poll, in the middle of a
write. Events of `upsert_group_with_units` and `clear` that the code sends in the
order of a `HashMap` come in every order.

Sends take the events in the order in which they were numbered, and no write
begins while another sends: that is the write lock, which the model takes over
rather than derives. `SequenceOrdered` therefore says that each write numbers its
own events right, across both channels and resets, and would see an event that
takes another's place (its mutant `SendOvertaken`); it cannot say what code that
sent outside of the lock would do.

`Sides` are the `i32` values a stored group may have, `ValidSides` those that
decode: a filter never matches the others. Removing an unknown unit or group does
nothing. Units may name a group that is not cached.

### Queries

What each unary handler replies to each request, as a value of the cache's
state: `parse_side` on the side as it arrives, `not_found`, `unavailable`. The
handlers keep no state and read under one lock, so a reply is an operator, not an
action. `RepliesAgree` compares the replies with each other, which the code
computes in three ways: by scanning the units, by joining through the index, and
by looking one up.

### Forwarding, GroupUpdates, SimulationUpdates and Feed

`forward_group_updates` and `forward_simulation_updates` are the same loop over
different events, written twice. `Forwarding` has that loop once, over `updates`
and `tail`; `GroupUpdates` and `SimulationUpdates` instantiate it on the cache's
two channels and add what differs: the filter and a snapshot of many messages, or
a snapshot of at most one.

`task[s]` is the call and then the task: its program counter, how many events its
receiver is past, what is left of the snapshot and the snapshot's number, the
event it is sending. `queue[s]` is the mpsc channel, `client[s]` the reader, and
`view[s]` what it shows: it replaces a group on an upsert and deletes it on a
removal, which is the contract of the protocol. `Subscribe` and `ReadSnapshot`
are the two halves of the cache's `subscribe_*_updates`. The task's awaits
(`tx.send`, the `select!`) are where others interleave, so each one ends an
action. A receiver lags when more than `BroadcastCapacity` events were sent that
it is not past. The messages in the queue carry the number of their event, which
the wire does not: the properties use it, no action does.

`Feed` is what a subscription promises, with no numbers, snapshots, channel or
queue: a follower of one thing shows values the thing really had, each newer than
the last, and the last one in the end unless it left or was told that it must
resubscribe. Both subscriptions implement it. For groups a follower is a
subscriber with a group, the history is that group's values *under the
subscriber's filter*, and the position of a view comes from the number it
carries; `FollowsFeed` is the safety part, `CatchesUp` the liveness part.

### Dispatcher and CommandContract

A call of `send()` stands for its id: ids come from a 64-bit counter and are not
reused. `pc` is where the call is, `owner` who holds the reentrant mutex,
`pending` the keys of the map, `rx` what was put into the call's oneshot channel,
`outcome` how the call ends. Cancellation is told apart from an engine's failure
here, the code tells them apart by the reason.

The critical section of `send()` spans insertion and dispatch, with other threads
running in between but locked out; those of `complete()`, `cancel_all()` and the
guard's drop are one step. `by` in `Complete(by, c, ack)` is the call from inside
whose `dispatch()` the engine calls back, or `None` for a thread of its own. The
engine acknowledges only ids it was given.

One poll of `tokio::time::timeout` looks at the receiver (`PollReceiver`) and
then at the clock (`PollDeadline`); an answer that comes in between is lost to
the timeout, as in the code. A timed-out call keeps its entry until `DropGuard`.
`Received` has the code's `Ok(Err(_))` branch: a receiver whose sender went unused
with its entry reads as "cancelled". No step leads there (see "Disagreements"), so
a command whose entry went too early would be told "cancelled" at once; that
`cancel_all()` reaches every command the engine was told of, as long as its call
has not returned, is `ResetAnswersAll`. On a panic of the sink the lock
is released before the guard drops, the guard being declared outside of the
block: the comment at `src/commands.rs:178-182` has it still held, which the
reentrancy would allow too.

`CommandContract` is the same seen from outside, with no lock, map or polling:
the engine is told of a command once, answers at most once and only before the
call returns, and the call ends with that very answer or because it gave up. A
reset may answer any number of commands in one step. `Dispatcher` implements it
(`ImplementsContract`), checked and proved.

### Commands and CommandService

`Commands` has the five messages with the fields `from_proto` requires of each,
and `group_id()`, which of a support is the *supporter*. Strings are members of a
set or `Empty`.

`CommandService` composes `StateCache` with `Dispatcher`, both in full. `stage[c]`
is where the handler of call `c` is: a request arrives and is decoded
(`SendCommand`), the group is looked up under the cache's read lock
(`LookUpGroup`), the dispatcher takes over, and its outcome is translated into the
response (`Reply`). `CancelCommands` is `cancel_all()`, at any time, from any thread or from
inside the sink; a reset is `ResetCache` and the first `CancelCommands` after it,
with everything else allowed in between. `outdated` remembers what the first found
in flight once the second has happened, `wasKnown` which calls could have found
their group.

### Api and Server

`Api` is the generated code as two relations: the path that each client method
sends to, and the handler that each server has for a path, with the services that
`serve_on` adds. `Routes` is the router with its two kinds of "unimplemented".

`Server` has the owner's calls (`Spawn`, `SpawnReturns`, `Shutdown`,
`JoinReturns`; `ready` is "dropped" when the thread panics before it is ready,
and `spawn()` fails then too), the thread's `block_on` (`BuildRuntime` to `EndThread`), the task
that turns the oneshot into the watch both shutdown futures wait for (`Watch`),
the grace timer, and per connection a call with its phases. `Handle` answers
through `Api`, so a service that is forgotten or a path that is misspelt is seen
as an answer by the wrong handler. A command inside the sink cannot be cut:
the runtime's drop waits for what its workers are running, and only then does the
thread end and the join return.

## The runs

| Run | Instance | Distinct states | What it shows |
|---|---|---|---|
| `state_cache` | 2 units, 3 groups, a side that decodes and one that does not, 2 simulation states, 4 events | 266,838 | index, replies and both event logs agree with the cache after any writes; one counter numbers both channels in order, across resets |
| `group_updates` | 2 groups without units, 1 subscriber, 4 events, channel of 2, queue of 1 | 359,791 | nothing missed or shown to the wrong side; implements `Feed` |
| `group_updates_live` | the same, 3 events, channel of 1 | 113,200 | clients catch up or are told; tasks end |
| `simulation_updates` | 1 group, 2 states, 1 subscriber, 4 events, channel of 2, queue of 1 | 174,552 | the same for the simulation's state, safety and liveness |
| `dispatcher` | 3 calls | 50,961 | entries, engine and callers agree under every race; implements `CommandContract` |
| `dispatcher_live` | 2 calls, one acknowledged from inside `dispatch()` | 3,000 | every call ends |
| `dispatcher_late_ack` | 2 calls | violated | see "Disagreements" |
| `dispatcher_cancelled_sender` | 2 calls | violated | see "Disagreements" |
| `command_service` | 2 calls, 3 requests, 1 group that comes and goes, 3 events | 335,336 | clients are told the truth, only commands of known groups are sent, resets are final |
| `command_service_live` | 2 calls, one acknowledged from inside, 2 events | 40,884 | every request is answered |
| `command_unknown_group` | 1 call | violated | see "Disagreements" |
| `server` | 2 connections, all 9 methods | 105,796 | shutdown ends, leaves nothing, honours the grace period; every method reaches its handler |

### Bounds, and why they are enough

- `MaxSequence` bounds the events ever sent. Four are a group that appears,
  changes sides (two events) and goes, or two moves of a unit between cached
  groups; every write sends at most one event per group it touches plus one for a
  change of sides, and the counter lets such a write through whole. Writes
  without events are not bounded. For the command service, three events let its
  one group come, go (also by a reset) and come again around a lookup.
- Three groups let one `upsert_group_with_units` take units from two others,
  with one event each; two units let it keep one and drop or steal the other.
  The data of units and groups takes one value: that a change of data is told
  needs no more than that the joined values differ, which membership and sides
  show.
- One subscriber: subscribers share nothing but the channel, which they only
  read. Its groups have no units, which only make their values richer. The group
  of `simulation_updates` is there to advance the shared counter.
- `BroadcastCapacity` of 1 or 2 against 3 or 4 events makes lagging common, at
  every point of the loop; the queue of 1 makes every send wait. In the code the
  capacities are 256 and 16.
- Three calls: one that holds the lock, one that waits for it, one that is
  pending. No action of the dispatcher looks at more than two, and two are enough
  for the service, whose handlers share only the lock.
- The requests of `command_service`: one that decodes and whose group comes and
  goes, one that lacks its position, and a support whose supporter never exists
  while the supported group does.
- Two connections: one that keeps a drain from ending while the other is cut or
  closed. A connection has one call at a time; concurrent streams of one
  connection are like those of two.
- Units, groups, simulation states and calls are interchangeable, so the safety runs of the cache
  and of the dispatcher use symmetry; no run with a liveness property does.

Deadlock is checked in the cache's runs, where a reset is always possible until
the bound and `SetLocations` or an event-free write beyond it. It is off for the
subscriptions, where the cache may be dropped with everybody gone, for the
dispatcher and the command service, where all calls may be over, and for the
server, which may be dropped.

### Fairness

- Subscriptions: weak fairness of a write's sends (a thread does not stop
  half-way), of a call that has begun and of each task (the runtime polls what
  was woken) and of the client's reads while it is connected. Nothing is assumed
  of the engine or of when clients leave. A client that stays but never reads
  would block its task for good, as in the code.
- `Dispatcher`: weak fairness of each call's steps and of the clock; strong
  fairness of the two steps that take the lock, since parking_lot's mutex is
  eventually fair: a thread that keeps finding the lock free now and then gets
  it. `dispatch()` returns, as its documentation demands (`src/commands.rs:131`),
  and a sink that acknowledges synchronously does so first. No engine has to
  acknowledge from outside, so `SendEnds` holds against a dead engine too.
- `CommandService`: the same, and strong fairness of `LookUpGroup`, whose
  `RwLock` is as fair: an engine that writes for ever does not keep a reader out.
- `Server`: weak fairness of the threads' and tasks' own steps and of the grace
  timer. The sink returns; a command in flight ends by its timeout at the latest.
  Nothing is assumed of clients, nor that the owner ever calls `shutdown()`, nor
  that serving fails.

## What is proved

For every value of the constants that satisfies the modules' assumptions, every
invariant and action property of the passing runs, and all three refinements;
the runs show them on a small instance.

The assumptions are what the code's types give: finite sets of units and groups,
sides that decode among the sides, capacities of at least one, methods that the
clients have, calls acknowledged from inside `dispatch()` among the calls, and
`None`, the mark of an aborted stream and the outcomes of a command distinct from
the data they stand beside. No assumption bounds a set, and `MaxSequence` is any
number: the bound on the events is there, at any height.

### The cache

`StateCacheProofs`: `TypeCorrect`, `IndexCorrect`, `NoMemberSetLeaks`,
`BroadcastCorrect`.

- The invariant `IInv` is `TypeOK`, `IndexAgrees`, `NoLeakedMemberSet` and
  `EventsTellCache`. `IndexAgrees` must be part of it: the code moves a unit by
  unlinking it from the group that the *unit* names, and emits events for that
  group, which covers all groups whose joined value changes only because no other
  group's index holds the unit.
- One lemma per write (`UpsertUnitTells`, ...) shows that it keeps the maps typed
  and in agreement, and that its list of events accounts for the change of every
  group (`GroupsTold`): silence if the joined value is the same, otherwise one
  event with the new value, and a removal before it if the sides differ
  (`Accounts`). `EmitIfChangedTells` and `SideChangeTells` are the pieces,
  `ConcatTells` puts lists of events together, `EnumerationCovers` handles the
  arbitrary order of the `HashMap`.
- `ToldTells` then appends such a list to the log once for all writes.

`EventLogProofs`: `NumbersCorrect`, `NoEventIsRedundant`, `SideChangesAnnounced`,
`UnitsOfEventsBelong`, `SimulationBroadcastCorrect`.

- The invariant `LogInv` is `IInv` with these properties of the whole history. A
  property that compares an event with the one before it about the same group is
  not inductive by itself: it needs `EventsTellCache`, which says that the last
  event is what the write compares with. `NewEventFollows` is that argument, made
  once for the two shapes `Accounts` allows. `SequenceOrdered` needs that a write
  numbers its events from the counter on, for both channels at once.

`QueriesProofs`: `RepliesCorrect`, from `IndexAgrees` and `TypeOK` alone: the scan,
the join and the lookup agree because the index does.

### The subscriptions

`GroupUpdatesProofs` and `SimulationUpdatesProofs`: `NothingIsMissed`,
`FollowsTheFeed` (the refinement of `Feed`), `SubscriberTypesCorrect`, and for
groups `FilterIsRespected`. The invariant of a subscriber adds to `LogInv`:

- `Shape`: what the program counter, queue, client and snapshot say of each
  other, e.g. that an abort is the last thing in a queue and its task is over;
- `Delivers`: every message in view, snapshot, queue or the task's hand is
  `Sound`. It is `Truthful`: its value is what the filter showed of its group
  when the counter stood at its number (`ValueAt`). And it is `Older` than every
  event the task will still forward. The messages on the way are `InOrder`, and
  none is about a group whose snapshot message is still to be sent;
- `UpToDate`: while the task serves a connected client, the last thing on its
  way, or else its view, is what the filter shows of the cache: `NothingMissed`
  in the form in which every step can be followed.

`UpToDate` is not inductive alone. The code drops an event with
`sequence <= snapshot_sequence`; that nothing is lost by it is that those events
say no more than the snapshot does, which is where the numbers' order and
`EventsTellCache` come in: a receiver may be created in the middle of a write
whose events are still being sent, but the snapshot waits for the lock. That an
event is never older than what a client shows needs `Older`.

`ValueAt` tells time by the counter and so never changes for the past
(`ValueKept`, `HistoryGrows`); with it a view's number is its position in the
history of `Feed`, each message received is a later position with the value of
that position, and each write only appends to the history.

### The dispatcher and the command service

`DispatcherProofs`: `DispatcherTypesCorrect`, `EntriesNeverLeak`,
`CancelledKnownToEngine`, `ResetReachesAll`, `AcknowledgementAgrees` and, from
the same invariant, that the dispatcher implements `CommandContract`
(`DispatcherKeepsContract`). The invariant is the checked properties, and

- `LockHeld`: the lock is held exactly from insertion to the end of `dispatch()`,
- `Fresh`: the engine cannot know of a call before,
- `DispatchedIfPast`: a call past the critical section was dispatched,
- `Unanswered`: an entry in the map has an unused sender,
- `SenderAlive`: a call between insertion and return has its entry in the map or
  an answer in its receiver. From it follow `ResetAnswersAll`, and that no poll
  finds a sender dropped unused.

`LockedOut` is the heart: whoever may run `cancel_all()` finds no entry that is
inserted and not dispatched, because its call would hold the lock. That is also
what makes a cancellation an answer the contract allows.

`CommandServiceProofs`: `ActorWasKnown` (`DispatchedWasKnown`), `NoAckAfterReset`
(`ResetIsFinal`), `RepliesAreTruthful`, `ServiceTypesCorrect`, and that the
service uses the dispatcher as its specification says (`DispatcherInService`),
whatever the cache does meanwhile.

- For the first two the invariant says that a call is begun only after its group
  was found (`KnownBeforeSent`), and that a command found in flight by a reset is
  past its insertion, so that once `cancel_all()` emptied the map nothing puts it
  back (`OutdatedIsOver`). `Forth` is what all steps of the dispatcher have in
  common: this part looks at nothing else of it.
- `ServiceInv` adds the dispatcher's invariant (`SenderAlive` too), a receiver holding an
  acknowledgement exactly if the engine's was accepted (`AnswerIsAck`), a delivered
  outcome being what the receiver held (`Heard`), and `RepliesMatch`: a rejection
  belongs to a call that never began, any other reply to one that is over and
  translates its outcome. The dispatcher's invariant is proved here again for the
  instance inside the service: the prover cites no theorem through `INSTANCE`.

### The server

`ServerProofs`: `TypeCorrect`, `NothingIsLeft` (`StoppedIsStopped`), `PathsAgree`
(`OwnHandler`) and `CutOnlyAfterGrace` (`GraceHonoured`). The invariant adds where
the thread can be for what the owner has seen of it (`ThreadAgrees`), that nothing
is served without it (`NothingServed`), why serving was over while connections were
open (`StoppedFor`), and that only commands reach the sink (`CommandsOnly`).
`RouteIsOwn` is the lemma about the generated code: of all paths of all services,
a method's leads to its own handler and to no other.

### Only model-checked

Liveness, which the prover cannot do under fairness: `CatchesUp`, `LagIsTold`,
`TaskEnds`, `SendEnds`, `EveryRequestAnswered`, `CallsReturn`. The three
disagreements below are counterexamples, which TLC finds.

## Disagreements between code and documentation

*A late acknowledgement.* `src/commands.rs:199-200` says that `complete()` returns
`false` for a command that already timed out. The timeout is decided in `send()`,
and the entry is removed later, by the guard that takes the lock for it;
`complete()` in between finds the entry and returns `true`, while the caller is
told "timeout" (`LateAckRefused`, run `dispatcher_late_ack`). The engine may thus
take a command for acknowledged in time that its sender has given up on. What does
hold is `AckAgrees`: the caller never hears a *delivered* outcome other than the
one accepted.

*A dropped sender.* `src/commands.rs:193` says of the arm that returns "cancelled"
that the sender "was dropped without completing, e.g. via cancel_all()".
`cancel_all()` sends `Failure("cancelled")` through each sender
(`src/commands.rs:211-216`), so a cancelled call takes the first arm
(`CancelledIsDropped`, run `dispatcher_cancelled_sender`), and the commented arm is
never taken. The caller is told the same either way.

*An unknown group.* `src/services/command.rs:28-29` says that a command is failed
"rather than dispatching a command the engine has no group to act on". The lookup
releases the cache's lock before the dispatch, so a removal or a reset in between
has the command dispatched for a group that is gone (`DispatchedGroupKnown`, run
`command_unknown_group`). What does hold is `DispatchedWasKnown`: the group was
cached at some moment of the call.

## Not modelled

- `serve()`, for embedders that have a runtime of their own: it is `serve_on`
  with the embedder's future as its only signal, without thread and grace period.
- Compression, size limits, interceptors and the protobuf codec: generated
  configuration of tonic and prost; the transport itself.
- Which of several missing fields `from_proto` names, and other wording.
- Overflow of the two 64-bit counters, and `src/ids.rs`, whose newtypes are
  values here.
- A sink that breaks its contract by blocking, or a handler that calls
  `shutdown()` and so joins the thread it runs on.
- Getters that clone one field of the cache and that no service uses; benches.
- Reads concurrent with writes inside the cache: the lock excludes them, and the
  model relies on it.

## Plan

The models, the runs and the safety proofs are complete. What is left for the
proofs is to bring the lemmas that both subscriptions share, about `Forwarding`'s
steps and about queues, closer together, and to state what the liveness
properties rest on where it is a safety fact: that a task which waits has
something that will wake it, and that a call which waits for the lock waits for
a call that holds it.
