------------------------------- MODULE Server -------------------------------
(***************************************************************************)
(* The life of a server (src/server.rs): ServerHandle::spawn starts a      *)
(* thread with a runtime, binds and serves; shutdown() and drop signal it  *)
(* and join it; the drain of open connections has a grace period.          *)
(*                                                                         *)
(* Actors: the thread that owns the handle, the server's thread in its     *)
(* block_on, the task that watches for the signal, the grace timer, the    *)
(* runtime's tasks (one per connection) and the clients, who may do as     *)
(* they like.  A connection has at most one call at a time here.           *)
(***************************************************************************)
EXTENDS Api

CONSTANTS
  Connections,
  Called        \* methods of the generated clients that get called

ASSUME ServerAssumption == Called \subseteq {s.method : s \in Client}

VARIABLES
  owner,      \* "idle", "spawning" in ready_rx.recv(), "running" with a handle,
              \* "joining", "failed" without, "dropped"
  handle,     \* what the handle still holds: the signal's sender, the thread
  dropping,   \* the owner's call of shutdown() is that of drop
  thread,     \* "none", "building", "binding", "serving", "stopping" while
              \* the runtime is dropped, "ended"
  ready,      \* what ready_rx receives: "nothing", "bound", "error", or "dropped"
              \* when the thread panics before it has sent anything
  signal,     \* the oneshot: "open", or "closed" once sent to or dropped
  fired,      \* the watch
  grace,      \* the timer in `forced`: "off", "running", "elapsed"
  serve,      \* serve_on: "none", "accepting", "draining", "finished",
              \* "failed", or "forced" when dropped by the select!
  listening,  \* the socket is bound
  connection, \* "none", "open", "closed"
  call        \* of each connection: its method, and where it is

threadVars == <<thread, ready, signal, fired, grace, serve, listening>>
ownerVars == <<owner, handle, dropping>>
clientVars == <<connection, call>>
vars == <<ownerVars, threadVars, clientVars>>

\* phase: "none", "handling", "dispatching" inside the engine's sink,
\* "awaiting" its acknowledgement, "streaming", "answered" by `by`, "left" by
\* the client, "cut" by the server.
Call == [phase : {"none", "handling", "dispatching", "awaiting", "streaming",
                  "answered", "left", "cut"},
         method : Called \cup {"none"},
         by : Called \cup {"none", "unimplemented"}]

NoCall == [phase |-> "none", method |-> "none", by |-> "none"]

ServerTypeOK ==
  /\ owner \in {"idle", "spawning", "running", "joining", "failed", "dropped"}
  /\ handle \in {[sender |-> held, thread |-> held] : held \in BOOLEAN}
  /\ dropping \in BOOLEAN
  /\ thread \in {"none", "building", "binding", "serving", "stopping", "ended"}
  /\ ready \in {"nothing", "bound", "error", "dropped"}
  /\ signal \in {"open", "closed"}
  /\ fired \in BOOLEAN
  /\ grace \in {"off", "running", "elapsed"}
  /\ serve \in {"none", "accepting", "draining", "finished", "failed", "forced"}
  /\ listening \in BOOLEAN
  /\ connection \in [Connections -> {"none", "open", "closed"}]
  /\ call \in [Connections -> Call]

-----------------------------------------------------------------------------
(* The owner of the handle *)

\* Cache, dispatcher and channels are made; the thread may fail to start.
Spawn ==
  /\ owner = "idle"
  /\ \/ owner' = "spawning" /\ thread' = "building"
     \/ owner' = "failed" /\ UNCHANGED thread
  /\ UNCHANGED <<handle, dropping, ready, signal, fired, grace, serve, listening>>

\* recv() returns what the thread sent, or an error if it never will.  A
\* handle is made, or everything of the attempt is dropped: the sender too.
SpawnReturns ==
  /\ owner = "spawning" /\ ready # "nothing"
  /\ IF ready = "bound"
     THEN /\ owner' = "running" /\ handle' = [sender |-> TRUE, thread |-> TRUE]
          /\ UNCHANGED signal
     ELSE /\ owner' = "failed" /\ signal' = "closed"
          /\ UNCHANGED handle
  /\ UNCHANGED <<dropping, thread, ready, fired, grace, serve, listening>>

(* Mutants *)
\* shutdown() only signals, and leaves the join to drop.
ShutdownOnlySignals(drop) ==
  /\ owner = "running"
  /\ signal' = IF handle.sender THEN "closed" ELSE signal
  /\ handle' = [sender |-> FALSE, thread |-> handle.thread /\ ~drop]
  /\ owner' = IF ~drop THEN owner
              ELSE IF handle.thread THEN "joining" ELSE "dropped"
  /\ dropping' = (drop /\ handle.thread)
  /\ UNCHANGED <<thread, ready, fired, grace, serve, listening>>

\* shutdown(), or drop: takes the sender and the thread, once.  With no thread
\* left to join the call returns at once.
Shutdown(drop) ==
  /\ owner = "running"
  /\ signal' = IF handle.sender THEN "closed" ELSE signal
  /\ handle' = [sender |-> FALSE, thread |-> FALSE]
  /\ owner' = IF handle.thread THEN "joining"
              ELSE IF drop THEN "dropped" ELSE owner
  /\ dropping' = (drop /\ handle.thread)
  /\ UNCHANGED <<thread, ready, fired, grace, serve, listening>>

JoinReturns ==
  /\ owner = "joining" /\ thread = "ended"
  /\ owner' = IF dropping THEN "dropped" ELSE "running"
  /\ dropping' = FALSE
  /\ UNCHANGED <<handle, threadVars>>

-----------------------------------------------------------------------------
(* The server's thread *)

BuildRuntime ==
  /\ thread = "building"
  /\ \/ thread' = "binding" /\ UNCHANGED ready
     \/ thread' = "ended" /\ ready' \in {"error", "dropped"}
  /\ UNCHANGED <<ownerVars, signal, fired, grace, serve, listening>>

\* The address is told before the first connection is accepted.
Bind ==
  /\ thread = "binding"
  /\ \/ /\ thread' = "serving" /\ ready' = "bound"
        /\ serve' = "accepting" /\ listening' = TRUE
     \/ /\ thread' = "stopping" /\ ready' \in {"error", "dropped"}
        /\ UNCHANGED <<serve, listening>>
  /\ UNCHANGED <<ownerVars, signal, fired, grace>>

\* The task that waits for the oneshot: its sender used or dropped.
Watch ==
  /\ thread = "serving" /\ signal = "closed" /\ ~fired
  /\ fired' = TRUE
  /\ UNCHANGED <<ownerVars, thread, ready, signal, grace, serve, listening>>

\* `graceful` resolves: no connection is accepted any more.
Drain ==
  /\ serve = "accepting" /\ fired
  /\ serve' = "draining"
  /\ UNCHANGED <<ownerVars, thread, ready, signal, fired, grace, listening>>

(* Mutants *)
\* One signal, two waiters: whoever comes first consumes it.
StartGraceIfUnconsumed ==
  /\ thread = "serving" /\ grace = "off" /\ fired /\ serve = "accepting"
  /\ grace' = "running"
  /\ UNCHANGED <<ownerVars, thread, ready, signal, fired, serve, listening>>

\* `forced` sees the same signal, and sleeps.
StartGrace ==
  /\ thread = "serving" /\ grace = "off" /\ fired
  /\ grace' = "running"
  /\ UNCHANGED <<ownerVars, thread, ready, signal, fired, serve, listening>>

GraceElapses ==
  /\ thread = "serving" /\ grace = "running"
  /\ grace' = "elapsed"
  /\ UNCHANGED <<ownerVars, thread, ready, signal, fired, serve, listening>>

\* block_on returns: its listener is gone, what it spawned is not.
StopServing(how) ==
  /\ thread' = "stopping" /\ serve' = how /\ listening' = FALSE
  /\ UNCHANGED <<ownerVars, ready, signal, fired, grace>>

\* The select!: serve_on ends once every connection has, or fails ...
ServeReturns ==
  /\ thread = "serving" /\ serve = "draining"
  /\ \A c \in Connections : connection[c] # "open"
  /\ StopServing("finished")

ServeFails ==
  /\ thread = "serving" /\ serve \in {"accepting", "draining"}
  /\ StopServing("failed")

(* Mutants *)
ForceAtOnce ==
  /\ thread = "serving" /\ grace = "running"
  /\ StopServing("forced")

\* ... or the grace period elapses first.
ForceClosed ==
  /\ thread = "serving" /\ grace = "elapsed"
  /\ StopServing("forced")

(* Mutants *)
\* The runtime is shut down in the background: nobody waits for its workers.
EndInBackground ==
  /\ thread = "stopping"
  /\ thread' = "ended"
  /\ UNCHANGED <<ownerVars, ready, signal, fired, grace, serve, listening>>

\* The runtime's drop waits for what its workers are running, and drops tasks.
EndThread ==
  /\ thread = "stopping"
  /\ \A c \in Connections :
       connection[c] # "open" /\ call[c].phase # "dispatching"
  /\ thread' = "ended"
  /\ UNCHANGED <<ownerVars, ready, signal, fired, grace, serve, listening>>

-----------------------------------------------------------------------------
(* The tasks of the runtime, and the clients *)

Running(c) == connection[c] = "open" /\ thread \in {"serving", "stopping"}
Over(c) == call[c].phase \in {"none", "answered"}

Go(c, phase) == call' = [call EXCEPT ![c].phase = phase]
Answer(c, by) == call' = [call EXCEPT ![c].phase = "answered", ![c].by = by]

\* The task of an open connection is dropped, but for the poll that is on.
CutConnection(c) ==
  /\ thread = "stopping" /\ connection[c] = "open"
  /\ call[c].phase # "dispatching"
  /\ connection' = [connection EXCEPT ![c] = "closed"]
  /\ IF Over(c) THEN UNCHANGED call ELSE Go(c, "cut")

Connect(c) ==
  /\ connection[c] = "none" /\ serve = "accepting" /\ thread = "serving"
  /\ connection' = [connection EXCEPT ![c] = "open"]
  /\ UNCHANGED call

\* A generated client calls one of its methods, and the server takes it.
Request(c) ==
  /\ connection[c] = "open" /\ thread = "serving" /\ Over(c)
  /\ \E m \in Called :
       call' = [call EXCEPT ![c] = [phase |-> "handling", method |-> m,
                                    by |-> "none"]]
  /\ UNCHANGED connection

\* The handler of the path runs: a read answers, a subscription starts to
\* stream, a command reaches the sink or is answered without.
Handle(c) ==
  /\ Running(c) /\ call[c].phase = "handling"
  /\ \E s \in Client :
       /\ s.method = call[c].method
       /\ \E route \in Routes(s.path) :
            \/ ~route.streams /\ Answer(c, route.handler)
            \/ route.streams /\ call' = [call EXCEPT ![c].phase = "streaming",
                                                     ![c].by = route.handler]
            \/ route.handler = "send_command" /\ Go(c, "dispatching")
  /\ UNCHANGED connection

\* The sink returns, to a call whose client may have left.
DispatchReturns(c) ==
  /\ call[c].phase = "dispatching"
  /\ Go(c, IF connection[c] = "open" THEN "awaiting" ELSE "left")
  /\ UNCHANGED connection

\* An acknowledgement, a cancellation, or the command's timeout.
CommandEnds(c) ==
  /\ Running(c) /\ call[c].phase = "awaiting"
  /\ Answer(c, "send_command")
  /\ UNCHANGED connection

\* A subscription ends by itself only with a lag.
StreamAborts(c) ==
  /\ Running(c) /\ call[c].phase = "streaming"
  /\ Go(c, "answered")
  /\ UNCHANGED connection

\* A client leaves, or closes the connection because the server drains it: the
\* handler's future is dropped, but for a sink that runs.
ClientCloses(c) ==
  /\ connection[c] = "open"
  /\ connection' = [connection EXCEPT ![c] = "closed"]
  /\ IF Over(c) \/ call[c].phase = "dispatching" THEN UNCHANGED call ELSE Go(c, "left")

-----------------------------------------------------------------------------
Init ==
  /\ owner = "idle" /\ dropping = FALSE
  /\ handle = [sender |-> FALSE, thread |-> FALSE]
  /\ thread = "none" /\ ready = "nothing" /\ signal = "open"
  /\ fired = FALSE /\ grace = "off" /\ serve = "none" /\ listening = FALSE
  /\ connection = [c \in Connections |-> "none"]
  /\ call = [c \in Connections |-> NoCall]

OwnerReturns == SpawnReturns \/ JoinReturns

ThreadStep ==
  \/ BuildRuntime \/ Bind \/ Drain \/ StartGrace \/ ServeReturns \/ ForceClosed
  \/ EndThread

ServerTask(c) ==
  \/ Handle(c) \/ DispatchReturns(c) \/ CommandEnds(c) \/ CutConnection(c)

Next ==
  \/ /\ \/ Spawn \/ OwnerReturns \/ (\E drop \in BOOLEAN : Shutdown(drop))
        \/ ThreadStep \/ Watch \/ GraceElapses \/ ServeFails
     /\ UNCHANGED clientVars
  \/ /\ \E c \in Connections :
          \/ ServerTask(c) \/ StreamAborts(c)
          \/ Connect(c) \/ Request(c) \/ ClientCloses(c)
     /\ UNCHANGED <<ownerVars, threadVars>>

Spec == Init /\ [][Next]_vars

\* Threads and tasks that can go on do, the clock does, dispatch() returns and
\* a command ends within its timeout.  Nothing is assumed of clients or of
\* when, or whether, the owner calls shutdown().
FairSpec ==
  /\ Spec
  /\ WF_vars(OwnerReturns /\ UNCHANGED clientVars)
  /\ WF_vars(BuildRuntime /\ UNCHANGED clientVars)
  /\ WF_vars(Bind /\ UNCHANGED clientVars)
  /\ WF_vars(Watch /\ UNCHANGED clientVars)
  /\ WF_vars(Drain /\ UNCHANGED clientVars)
  /\ WF_vars(StartGrace /\ UNCHANGED clientVars)
  /\ WF_vars(GraceElapses /\ UNCHANGED clientVars)
  /\ WF_vars((ServeReturns \/ ForceClosed) /\ UNCHANGED clientVars)
  /\ WF_vars(EndThread /\ UNCHANGED clientVars)
  /\ \A c \in Connections : WF_vars(ServerTask(c) /\ UNCHANGED <<ownerVars, threadVars>>)

-----------------------------------------------------------------------------
(* Properties *)

\* spawn(), shutdown() and drop return, whatever the clients do: one that never
\* closes its connection, or streams for ever, only costs the grace period
\* (server.rs:40-46).
CallsReturn ==
  /\ owner = "spawning" ~> owner # "spawning"
  /\ owner = "joining" ~> owner # "joining"

\* When shutdown() or drop has returned, nothing of the server is left: no
\* thread, no socket, no connection, and no call inside the engine's sink,
\* which the engine may now unload.  A spawn() that failed leaves no socket.
StoppedIsStopped ==
  /\ owner = "dropped" \/ (owner = "running" /\ ~handle.sender) =>
       /\ thread = "ended" /\ ~listening
       /\ \A c \in Connections :
            connection[c] # "open" /\ call[c].phase # "dispatching"
  /\ owner = "failed" => ~listening

\* The server cuts a call only after the grace period, or because serving
\* failed: a shutdown lets the calls in progress end.
GraceHonoured ==
  [][\A c \in Connections :
       call'[c].phase = "cut" /\ call[c].phase # "cut" =>
         grace = "elapsed" \/ serve = "failed"]_vars

\* A generated client's call is answered, if at all, by the handler of its own
\* method: client and server agree on the paths, and serve_on adds every
\* service.
OwnHandler ==
  \A c \in Connections : call[c].by \in {"none", call[c].method}
=============================================================================
