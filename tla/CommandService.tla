--------------------------- MODULE CommandService ---------------------------
(***************************************************************************)
(* SendCommand (src/services/command.rs) between the state cache and the   *)
(* dispatcher, and a reset of the engine, which is clear() on the one and  *)
(* cancel_all() on the other.                                              *)
(*                                                                         *)
(* Cache and dispatcher have a lock each and nothing in common: the group  *)
(* of a command is looked up in one step and the command dispatched in     *)
(* later ones, with the engine's writes and resets in between.             *)
(***************************************************************************)
EXTENDS StateCache, Commands

CONSTANTS
  Calls, SyncAcked,                            \* see Dispatcher
  Requests                                     \* the requests clients send

VARIABLES
  pc, owner, pending, rx, outcome, expired, dispatched, acked,  \* Dispatcher
  stage,     \* of the handler: "idle", "lookup", "sending", "replied"
  request,   \* what it was called with
  reply,     \* what it answers
  resetting, \* the commands that were in flight at the clear() of a reset whose
             \* cancel_all() is still to come, or None
  outdated,  \* history: commands that a completed reset found in flight
  wasKnown   \* history: calls whose group was cached at some moment of the call

D == INSTANCE Dispatcher

dispatcherVars ==
  <<pc, owner, pending, rx, outcome, expired, dispatched, acked>>
handlerVars == <<stage, request, reply>>
resetVars == <<resetting, outdated>>
vars == <<cacheVars, dispatcherVars, handlerVars, resetVars, wasKnown>>

\* What a client is told; "broken" is the stream error of a handler that
\* panicked, "nothing" what a client gets that has gone.
Replies ==
  {"invalid_argument", "unknown group", "success", "failure", "cancelled",
   "timeout", "broken", "nothing"}

ASSUME CommandServiceAssumption ==
  /\ GroupIds \subseteq Strings
  /\ Requests \subseteq SendCommandRequest
  /\ None \notin SendCommandRequest
  /\ SyncAcked \subseteq Calls
  /\ None \notin Calls \cup Replies \cup D!Outcomes

ServiceTypeOK ==
  /\ D!TypeOK
  /\ stage \in [Calls -> {"idle", "lookup", "sending", "replied"}]
  /\ request \in [Calls -> Requests \cup {None}]
  /\ reply \in [Calls -> Replies \cup {None}]
  /\ resetting \in (SUBSET Calls) \cup {None}
  /\ outdated \subseteq Calls
  /\ wasKnown \subseteq Calls

-----------------------------------------------------------------------------
(* The handler *)

\* A request arrives and is decoded.
SendCommand(c) ==
  /\ stage[c] = "idle"
  /\ \E r \in Requests :
       /\ request' = [request EXCEPT ![c] = r]
       /\ IF Decodes(r)
          THEN /\ stage' = [stage EXCEPT ![c] = "lookup"]
               /\ UNCHANGED reply
          ELSE /\ stage' = [stage EXCEPT ![c] = "replied"]
               /\ reply' = [reply EXCEPT ![c] = "invalid_argument"]
  /\ UNCHANGED dispatcherVars

\* get_group, for the group that is to act.
Known(c) ==
  LET g == GroupIdOf(request[c])
  IN  g \in GroupIds /\ JoinedGroup(g) # None

LookUpGroup(c) ==
  /\ stage[c] = "lookup" /\ ~WriteLocked
  /\ IF Known(c)
     THEN /\ D!Send(c)
          /\ stage' = [stage EXCEPT ![c] = "sending"]
          /\ UNCHANGED reply
     ELSE /\ stage' = [stage EXCEPT ![c] = "replied"]
          /\ reply' = [reply EXCEPT ![c] = "unknown group"]
          /\ UNCHANGED dispatcherVars
  /\ UNCHANGED request

(* Mutants *)
\* Any outcome that is not an error of the dispatcher counts as a success.
NotFailedIsSuccess(o) == IF o = "timeout" THEN "success" ELSE o

\* The response for an outcome of send(): a failure carries its reason.  A
\* panicking handler breaks the stream, a dropped one answers nobody.
Translated(o) ==
  CASE o = "panicked" -> "broken" [] o = "dropped" -> "nothing" [] OTHER -> o

Reply(c) ==
  /\ stage[c] = "sending" /\ pc[c] = "done"
  /\ stage' = [stage EXCEPT ![c] = "replied"]
  /\ reply' = [reply EXCEPT ![c] = Translated(outcome[c])]
  /\ UNCHANGED <<dispatcherVars, request>>

\* What send() does by itself, and what may happen to it.
Sending(c) ==
  /\ D!Progress(c) \/ D!DispatchPanics(c) \/ D!Expire(c) \/ D!DropFuture(c)
  /\ UNCHANGED handlerVars

-----------------------------------------------------------------------------
(* The engine *)

InFlight == {c \in dispatched : pc[c] \in {"dispatching", "awaiting", "polled"}}

ResetCache ==
  /\ resetting = None /\ ~WriteLocked
  /\ Clear /\ sequence' <= MaxSequence
  /\ resetting' = InFlight
  /\ UNCHANGED outdated

\* cancel_all() may come at any time, from the sink too.  A reset that waits
\* for it is then over.
CancelCommands ==
  /\ \E by \in Calls \cup {None} : D!CancelAll(by)
  /\ outdated' = IF resetting = None THEN outdated ELSE outdated \cup resetting
  /\ resetting' = None

Acknowledge ==
  /\ \E by \in Calls \cup {None}, c \in Calls, ack \in D!Acks :
       D!Complete(by, c, ack)
  /\ UNCHANGED resetVars

-----------------------------------------------------------------------------
ServiceInit ==
  /\ Init /\ D!Init
  /\ stage = [c \in Calls |-> "idle"]
  /\ request = [c \in Calls |-> None]
  /\ reply = [c \in Calls |-> None]
  /\ resetting = None /\ outdated = {} /\ wasKnown = {}

HandlerStep(c) == SendCommand(c) \/ LookUpGroup(c) \/ Reply(c) \/ Sending(c)

CacheStep == Write \/ SendGroupUpdate \/ SendSimulationUpdate

ServiceStep ==
  \/ (\E c \in Calls : HandlerStep(c)) /\ UNCHANGED <<cacheVars, resetVars>>
  \/ CacheStep /\ UNCHANGED <<dispatcherVars, handlerVars, resetVars>>
  \/ ResetCache /\ UNCHANGED <<dispatcherVars, handlerVars>>
  \/ (CancelCommands \/ Acknowledge) /\ UNCHANGED <<cacheVars, handlerVars>>

\* The group that is to act on a request, as the contract has it.
Actor(r) == IF r.kind = "support" THEN r.supporter_group_id ELSE r.group_id

Observe ==
  wasKnown' = wasKnown \cup
    {c \in Calls : stage'[c] = "lookup" /\ Actor(request'[c]) \in
                                             {g \in GroupIds : groups'[g] # None}}

ServiceNext == ServiceStep /\ Observe

ServiceSpec == ServiceInit /\ [][ServiceNext]_vars

\* The steps that are fair: the sends of a write, and those of a handler.
CacheSend ==
  /\ SendGroupUpdate \/ SendSimulationUpdate
  /\ UNCHANGED <<dispatcherVars, handlerVars, resetVars>> /\ Observe

Alone(A) == A /\ UNCHANGED <<cacheVars, resetVars>> /\ Observe
InSend(A) == Alone(A /\ UNCHANGED handlerVars)

\* As for the dispatcher; a write sends all of its events, the runtime polls
\* the handler, and its turn to read the cache comes.
FairSpec ==
  /\ ServiceSpec
  /\ WF_vars(CacheSend)
  /\ \A c \in Calls :
       /\ SF_vars(Alone(LookUpGroup(c)))
       /\ SF_vars(InSend(D!Insert(c))) /\ SF_vars(InSend(D!DropGuard(c)))
       /\ WF_vars(InSend(D!Progress(c))) /\ WF_vars(InSend(D!Expire(c)))
       /\ WF_vars(Alone(Reply(c)))
  /\ \A c \in SyncAcked : WF_vars(InSend(D!SyncComplete(c)))

-----------------------------------------------------------------------------
(* Properties *)

\* What the client is told is what became of its command: success and failure
\* only if the engine's acknowledgement said so, and "unknown group" or
\* "invalid_argument" only if the engine never heard of it.
RepliesTruthful ==
  \A c \in Calls :
    /\ reply[c] \in D!Acks => acked[c] = {reply[c]}
    /\ reply[c] = "cancelled" => c \in dispatched /\ acked[c] = {}
    /\ reply[c] = "timeout" => c \in dispatched
    /\ reply[c] \in {"invalid_argument", "unknown group"} => c \notin dispatched

\* The engine is told of a command only if the group that is to act, which of
\* a support is the supporter, was cached at some moment of the call
\* (commands.rs:43-45).
DispatchedWasKnown == dispatched \subseteq wasKnown

\* A reset is final: no command that was in flight when it began is accepted
\* as acknowledged after it (commands.rs:211, state.rs:351-353).
ResetIsFinal ==
  [][\A c \in outdated : acked'[c] = acked[c]]_vars

\* Every request is answered, unless its client left, whatever the engine does
\* with the cache and whether or not it ever acknowledges a command.
EveryRequestAnswered ==
  \A c \in Calls : stage[c] # "idle" ~> stage[c] = "replied"

\* command.rs:28-29: no command is dispatched for which the engine has no group.
\* The cache may lose the group between lookup and dispatch.
DispatchedGroupKnown ==
  [][\A c \in dispatched' \ dispatched :
       groups[GroupIdOf(request[c])] # None]_vars
=============================================================================
