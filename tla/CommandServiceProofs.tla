------------------------ MODULE CommandServiceProofs ------------------------
(***************************************************************************)
(* What TLAPS proves of CommandService: what a command that reaches the    *)
(* engine, or outlives a reset, can be, for any calls, requests and groups.*)
(***************************************************************************)
EXTENDS CommandService, TLAPS

Told == {"dispatching", "awaiting", "polled", "leaving", "done"}
Stages == {"idle", "locking", "inserted"} \cup Told

\* As much of the state's type as the proofs need.
CallsTypeOK ==
  /\ pc \in [Calls -> Stages]
  /\ acked \in [Calls -> SUBSET D!Acks]
  /\ dispatched \subseteq Calls

Cached == {g \in GroupIds : groups[g] # None}

\* A call's group was found before its command is sent, and is known of while
\* it is to be looked up from the moment it is cached.
KnownBeforeSent ==
  /\ \A c \in Calls : pc[c] # "idle" => c \in wasKnown
  /\ dispatched \subseteq wasKnown
  /\ \A c \in Calls :
       stage[c] = "lookup" /\ Actor(request[c]) \in Cached => c \in wasKnown

\* A call that a reset found in flight has been inserted before, so that no
\* step puts it into the map again.
OutdatedIsOver ==
  /\ outdated \subseteq Calls
  /\ \A c \in outdated : c \notin pending /\ pc[c] \in Told
  /\ resetting # None =>
       resetting \subseteq Calls /\ \A c \in resetting : pc[c] \in Told

IInv == CallsTypeOK /\ KnownBeforeSent /\ OutdatedIsOver

-----------------------------------------------------------------------------
LEMMA InitIInv == ServiceInit => IInv
<1> SUFFICES ASSUME ServiceInit PROVE IInv
  OBVIOUS
<1>1. CallsTypeOK
  BY DEF ServiceInit, D!Init, CallsTypeOK, Stages
<1>2. KnownBeforeSent
  <2>1. \A c \in Calls : pc[c] = "idle" /\ stage[c] = "idle"
    BY DEF ServiceInit, D!Init
  <2>2. dispatched = {}
    BY DEF ServiceInit, D!Init
  <2> QED
    BY <2>1, <2>2 DEF KnownBeforeSent
<1>3. OutdatedIsOver
  BY DEF ServiceInit, OutdatedIsOver
<1> QED
  BY <1>1, <1>2, <1>3 DEF IInv

\* The lookup finds what the call names as its actor.
LEMMA KnownIsCached ==
  ASSUME NEW c \in Calls, Known(c)
  PROVE  Actor(request[c]) \in Cached
BY DEF Known, Actor, Cached, GroupIdOf, JoinedGroup

-----------------------------------------------------------------------------
(* What a step of the dispatcher may do to a call *)

\* What every step but Send has in common: it does not begin a call, a call
\* the engine was told of stays one, the map grows by calls that are waiting
\* for the lock, and complete() returns true only for a call in the map.
Forth ==
  /\ CallsTypeOK'
  /\ \A d \in Calls :
       /\ pc[d] = "idle" => pc'[d] = "idle"
       /\ pc[d] \in Told => pc'[d] \in Told
       /\ d \notin pending => acked'[d] = acked[d]
  /\ dispatched' \subseteq dispatched \cup {d \in Calls : pc[d] = "inserted"}
  /\ pending' \subseteq pending \cup {d \in Calls : pc[d] = "locking"}

LEMMA StutterForth ==
  ASSUME CallsTypeOK, UNCHANGED dispatcherVars
  PROVE  Forth
BY DEF dispatcherVars, Forth, CallsTypeOK

LEMMA SendingForth ==
  ASSUME CallsTypeOK, NEW c \in Calls, Sending(c)
  PROVE  Forth
<1> USE DEF CallsTypeOK, Forth, Stages, Told
<1>1. CASE D!Insert(c)
  BY <1>1 DEF D!Insert
<1>2. CASE D!Dispatch(c)
  BY <1>2 DEF D!Dispatch
<1>3. CASE D!DispatchReturns(c)
  BY <1>3 DEF D!DispatchReturns
<1>4. CASE D!PollReceiver(c)
  BY <1>4 DEF D!PollReceiver
<1>5. CASE D!PollDeadline(c)
  BY <1>5 DEF D!PollDeadline
<1>6. CASE D!DropGuard(c)
  BY <1>6 DEF D!DropGuard
<1>7. CASE D!DispatchPanics(c)
  BY <1>7 DEF D!DispatchPanics
<1>8. CASE D!Expire(c)
  BY <1>8 DEF D!Expire
<1>9. CASE D!DropFuture(c)
  BY <1>9 DEF D!DropFuture
<1> QED
  BY <1>1, <1>2, <1>3, <1>4, <1>5, <1>6, <1>7, <1>8, <1>9
  DEF Sending, D!Progress

LEMMA AcknowledgeForth ==
  ASSUME CallsTypeOK, Acknowledge
  PROVE  Forth /\ pc' = pc
<1>1. PICK by \in Calls \cup {None}, c \in Calls, ack \in D!Acks :
        D!Complete(by, c, ack)
  BY DEF Acknowledge
<1>2. pc' = pc /\ dispatched' = dispatched /\ pending' = pending \ {c}
  BY <1>1 DEF D!Complete
<1>3. c \in pending /\ acked' = [acked EXCEPT ![c] = @ \cup {ack}]
  BY <1>1 DEF D!Complete
<1> QED
  BY <1>2, <1>3 DEF CallsTypeOK, Forth

LEMMA CancelForth ==
  ASSUME CallsTypeOK, CancelCommands
  PROVE  Forth /\ pc' = pc /\ pending' = {}
BY DEF CancelCommands, D!CancelAll, CallsTypeOK, Forth

-----------------------------------------------------------------------------
\* What a step may do: besides the above, a lookup that finds the group begins
\* the call, and the end of a reset turns its commands into outdated ones.
Moves ==
  /\ CallsTypeOK'
  /\ \A d \in Calls :
       /\ pc[d] = "idle" /\ pc'[d] # "idle" => d \in wasKnown
       /\ pc[d] \in Told => pc'[d] \in Told
       /\ d \notin pending => acked'[d] = acked[d]
  /\ dispatched' \subseteq dispatched \cup {d \in Calls : pc[d] = "inserted"}
  /\ pending' \subseteq pending \cup {d \in Calls : pc[d] = "locking"}

Resets ==
  \/ UNCHANGED resetVars
  \/ outdated' = outdated /\ resetting' = InFlight /\ pc' = pc
  \/ /\ resetting # None /\ outdated' = outdated \cup resetting
     /\ resetting' = None /\ pc' = pc /\ pending' = {}

LEMMA ForthMoves == Forth => Moves
  BY DEF Forth, Moves

LEMMA LookUpMoves ==
  ASSUME IInv, NEW c \in Calls, LookUpGroup(c)
  PROVE  Moves
<1>1. CASE Known(c)
  <2>1. c \in wasKnown
    BY <1>1, KnownIsCached DEF IInv, KnownBeforeSent, LookUpGroup
  <2>2. D!Send(c)
    BY <1>1 DEF LookUpGroup
  <2> QED
    BY <2>1, <2>2 DEF D!Send, IInv, CallsTypeOK, Moves, Stages, Told
<1>2. CASE ~Known(c)
  <2>1. UNCHANGED dispatcherVars
    BY <1>2 DEF LookUpGroup
  <2> QED
    BY <2>1, StutterForth, ForthMoves DEF IInv
<1> QED
  BY <1>1, <1>2

LEMMA StepMoves ==
  ASSUME IInv, ServiceStep
  PROVE  Moves /\ Resets
<1>0. CallsTypeOK
  BY DEF IInv
<1>1. CASE (\E c \in Calls : HandlerStep(c)) /\ UNCHANGED <<cacheVars, resetVars>>
  <2> PICK c \in Calls : HandlerStep(c)
    BY <1>1
  <2>1. Moves
    <3>1. CASE SendCommand(c)
      BY <3>1, <1>0, StutterForth, ForthMoves DEF SendCommand
    <3>2. CASE LookUpGroup(c)
      BY <3>2, LookUpMoves
    <3>3. CASE Reply(c)
      BY <3>3, <1>0, StutterForth, ForthMoves DEF Reply, dispatcherVars
    <3>4. CASE Sending(c)
      BY <3>4, <1>0, SendingForth, ForthMoves
    <3> QED
      BY <3>1, <3>2, <3>3, <3>4 DEF HandlerStep
  <2> QED
    BY <1>1, <2>1 DEF Resets, resetVars
<1>2. CASE CacheStep /\ UNCHANGED <<dispatcherVars, handlerVars, resetVars>>
  <2>1. UNCHANGED dispatcherVars /\ UNCHANGED resetVars
    BY <1>2
  <2> QED
    BY <2>1, <1>0, StutterForth, ForthMoves DEF Resets
<1>3. CASE ResetCache /\ UNCHANGED <<dispatcherVars, handlerVars>>
  <2>1. UNCHANGED dispatcherVars
    BY <1>3
  <2>2. outdated' = outdated /\ resetting' = InFlight /\ pc' = pc
    BY <1>3, <2>1 DEF ResetCache, dispatcherVars
  <2> QED
    BY <2>1, <2>2, <1>0, StutterForth, ForthMoves DEF Resets
<1>4. CASE CancelCommands
  <2>1. Moves /\ pc' = pc /\ pending' = {}
    BY <1>4, <1>0, CancelForth, ForthMoves
  <2>2. CASE resetting = None
    <3>1. outdated' = outdated /\ resetting' = resetting
      BY <1>4, <2>2 DEF CancelCommands
    <3> QED
      BY <2>1, <3>1 DEF Resets, resetVars
  <2>3. CASE resetting # None
    BY <1>4, <2>1, <2>3 DEF Resets, CancelCommands
  <2> QED
    BY <2>2, <2>3
<1>5. CASE Acknowledge
  <2>1. Moves
    BY <1>5, <1>0, AcknowledgeForth, ForthMoves
  <2>2. UNCHANGED resetVars
    BY <1>5 DEF Acknowledge
  <2> QED
    BY <2>1, <2>2 DEF Resets
<1> QED
  BY <1>1, <1>2, <1>3, <1>4, <1>5 DEF ServiceStep

-----------------------------------------------------------------------------
LEMMA StepKnown ==
  ASSUME IInv, Moves, Observe
  PROVE  KnownBeforeSent'
<1>1. wasKnown \subseteq wasKnown'
  BY DEF Observe
<1>2. ASSUME NEW c \in Calls, pc'[c] # "idle" PROVE c \in wasKnown'
  BY <1>1, <1>2 DEF IInv, KnownBeforeSent, Moves
<1>3. dispatched' \subseteq wasKnown'
  BY <1>1 DEF IInv, KnownBeforeSent, Moves
<1>4. ASSUME NEW c \in Calls, stage'[c] = "lookup", (Actor(request[c]) \in Cached)'
      PROVE  c \in wasKnown'
  BY <1>4 DEF Observe, Actor, Cached
<1> QED
  BY <1>2, <1>3, <1>4 DEF KnownBeforeSent, Actor, Cached

LEMMA StepOutdated ==
  ASSUME IInv, Moves, Resets
  PROVE  OutdatedIsOver'
<1>1. CASE UNCHANGED resetVars
  BY <1>1 DEF IInv, OutdatedIsOver, Moves, resetVars, Told
<1>2. CASE outdated' = outdated /\ resetting' = InFlight /\ pc' = pc
  <2>1. InFlight \subseteq Calls /\ \A c \in InFlight : pc[c] \in Told
    BY DEF InFlight, IInv, CallsTypeOK, Told
  <2> QED
    BY <1>2, <2>1 DEF IInv, OutdatedIsOver, Moves, Told
<1>3. CASE /\ resetting # None /\ outdated' = outdated \cup resetting
           /\ resetting' = None /\ pc' = pc /\ pending' = {}
  BY <1>3 DEF IInv, OutdatedIsOver
<1> QED
  BY <1>1, <1>2, <1>3 DEF Resets

LEMMA Invariance == IInv /\ [ServiceNext]_vars => IInv'
<1> SUFFICES ASSUME IInv, [ServiceNext]_vars PROVE IInv'
  OBVIOUS
<1>1. CASE ServiceNext
  BY <1>1, StepMoves, StepKnown, StepOutdated DEF ServiceNext, IInv, Moves
<1>2. CASE UNCHANGED vars
  <2>1. UNCHANGED <<pc, pending, dispatched, acked, stage, request, groups>>
        /\ UNCHANGED <<resetting, outdated, wasKnown>>
    BY <1>2 DEF vars, dispatcherVars, handlerVars, resetVars, cacheVars
  <2> QED
    BY <2>1 DEF IInv, CallsTypeOK, KnownBeforeSent, OutdatedIsOver, Cached, Actor
<1> QED
  BY <1>1, <1>2

\* The engine is told of a command only if the group that is to act was cached
\* at some moment of the call, whatever the engine writes or resets meanwhile
\* (commands.rs:43-45, services/command.rs:28-30).
THEOREM ActorWasKnown == ServiceSpec => []DispatchedWasKnown
<1>1. IInv => DispatchedWasKnown
  BY DEF IInv, KnownBeforeSent, DispatchedWasKnown
<1> QED
  BY InitIInv, Invariance, <1>1, PTL DEF ServiceSpec

\* No command that was in flight when a reset began is acknowledged once the
\* reset is over (commands.rs:211, state.rs:351-353).
THEOREM NoAckAfterReset == ServiceSpec => ResetIsFinal
<1>1. ASSUME IInv, [ServiceNext]_vars
      PROVE  [\A c \in outdated : acked'[c] = acked[c]]_vars
  <2>1. CASE ServiceNext
    <3>1. Moves
      BY <1>1, <2>1, StepMoves DEF ServiceNext
    <3> QED
      BY <1>1, <3>1 DEF IInv, OutdatedIsOver, Moves
  <2>2. CASE UNCHANGED vars
    BY <2>2
  <2> QED
    BY <1>1, <2>1, <2>2
<1> QED
  BY InitIInv, Invariance, <1>1, PTL DEF ServiceSpec, ResetIsFinal

-----------------------------------------------------------------------------
(* The dispatcher inside the service *)

\* Whatever the cache and the handlers do, the dispatcher takes its own steps.
LEMMA StepDispatches ==
  ASSUME ServiceStep
  PROVE  D!Next \/ UNCHANGED D!vars
<1>1. ASSUME UNCHANGED dispatcherVars PROVE UNCHANGED D!vars
  BY <1>1 DEF dispatcherVars, D!vars
<1>2. CASE \E c \in Calls : HandlerStep(c)
  <2>1. PICK c \in Calls : HandlerStep(c)
    BY <1>2
  <2>2. CASE SendCommand(c) \/ Reply(c)
    BY <1>1, <2>2 DEF SendCommand, Reply
  <2>3. CASE LookUpGroup(c)
    BY <1>1, <2>3 DEF LookUpGroup, D!Next
  <2>4. CASE Sending(c)
    BY <2>4 DEF Sending, D!Next
  <2> QED
    BY <2>1, <2>2, <2>3, <2>4 DEF HandlerStep
<1>3. CASE CancelCommands
  BY <1>3 DEF CancelCommands, D!Next, D!Engine
<1>4. CASE Acknowledge
  BY <1>4 DEF Acknowledge, D!Next, D!Engine
<1> QED
  BY <1>1, <1>2, <1>3, <1>4 DEF ServiceStep

\* The service uses the dispatcher as its specification says, so that what
\* DispatcherProofs shows of it holds here too (services/command.rs:37-40).
THEOREM DispatcherInService == ServiceSpec => D!Spec
<1>1. ServiceInit => D!Init
  BY DEF ServiceInit
<1>2. [ServiceNext]_vars => [D!Next]_(D!vars)
  BY StepDispatches DEF ServiceNext, vars, dispatcherVars, D!vars
<1> QED
  BY <1>1, <1>2, PTL DEF ServiceSpec, D!Spec

-----------------------------------------------------------------------------
(* What the dispatcher keeps, as in DispatcherProofs, and that complete()'s   *)
(* answer is the acknowledgement.                                             *)

\* Before its entry is inserted the engine cannot know of a call.
Fresh ==
  \A c \in Calls : pc[c] \in {"idle", "locking"} =>
    /\ rx[c] = None /\ acked[c] = {} /\ outcome[c] = None
    /\ c \notin dispatched /\ c \notin pending

DispatchedIfPast ==
  \A c \in Calls :
    pc[c] \in {"dispatching", "awaiting", "polled", "leaving", "done"} =>
      c \in dispatched

Unanswered == \A c \in pending : rx[c] = None /\ acked[c] = {}

LockHeld ==
  \A c \in Calls : owner = c <=> pc[c] \in {"inserted", "dispatching"}

Ended == \A c \in Calls : outcome[c] # None <=> pc[c] \in {"leaving", "done"}

\* What a call's receiver got tells what was acknowledged of it.
AnswerIsAck ==
  \A c \in Calls :
    acked[c] = IF rx[c] \in D!Acks THEN {rx[c]} ELSE {}

Heard == \A c \in Calls : outcome[c] \in D!Delivered => outcome[c] = rx[c]

\* The map holds the sender of a call that waits, until there is an answer.
SenderAlive ==
  \A c \in Calls :
    pc[c] \in {"inserted", "dispatching", "awaiting", "polled", "leaving"} =>
      (c \in pending <=> rx[c] = None)

DispatcherInv ==
  /\ D!TypeOK /\ LockHeld /\ D!NoLeak
  /\ Fresh /\ DispatchedIfPast /\ Unanswered /\ Ended
  /\ D!CancelledWasDispatched /\ AnswerIsAck /\ Heard /\ SenderAlive

LEMMA NoneIsNoString ==
  /\ None \notin D!Delivered /\ None \notin D!Acks /\ None \notin Replies
  /\ \A c \in Calls : c # None
  /\ D!Acks \subseteq D!Delivered /\ "cancelled" \notin D!Acks
  /\ \A o \in D!Outcomes : o # None
  /\ {"timeout", "panicked", "dropped"} \subseteq D!Outcomes \ D!Delivered
BY CommandServiceAssumption DEF D!Outcomes, D!Delivered, D!Acks

LEMMA InitDispatcherInv == ServiceInit => DispatcherInv
<1> SUFFICES ASSUME D!Init PROVE DispatcherInv
  BY DEF ServiceInit
<1>1. D!TypeOK
  BY DEF D!Init, D!TypeOK
<1> QED
  BY <1>1, NoneIsNoString
     DEF D!Init, DispatcherInv, LockHeld, D!NoLeak, Fresh, DispatchedIfPast, Ended,
         Unanswered, D!CancelledWasDispatched, AnswerIsAck, Heard, SenderAlive,
         D!Delivered

LEMMA DispatcherTypes == D!TypeOK /\ [D!Next]_(D!vars) => D!TypeOK'
<1> SUFFICES ASSUME D!TypeOK, [D!Next]_(D!vars) PROVE D!TypeOK'
  OBVIOUS
<1> USE DEF D!TypeOK
<1>1. CASE UNCHANGED D!vars
  BY <1>1 DEF D!vars
<1>2. ASSUME NEW c \in Calls, D!Send(c) \/ D!Insert(c) \/ D!Dispatch(c)
      PROVE  D!TypeOK'
  BY <1>2 DEF D!Send, D!Insert, D!Dispatch
<1>3. ASSUME NEW c \in Calls, D!DispatchReturns(c) PROVE D!TypeOK'
  BY <1>3 DEF D!DispatchReturns
<1>4. ASSUME NEW c \in Calls, D!DispatchPanics(c) PROVE D!TypeOK'
  BY <1>4 DEF D!DispatchPanics, D!Outcomes
<1>5. ASSUME NEW c \in Calls, D!PollReceiver(c) PROVE D!TypeOK'
  BY <1>5 DEF D!PollReceiver, D!Received, D!Outcomes, D!Delivered
<1>6. ASSUME NEW c \in Calls, D!PollDeadline(c) PROVE D!TypeOK'
  BY <1>6 DEF D!PollDeadline, D!Outcomes
<1>7. ASSUME NEW c \in Calls, D!Expire(c) \/ D!DropGuard(c) PROVE D!TypeOK'
  BY <1>7 DEF D!Expire, D!DropGuard
<1>8. ASSUME NEW c \in Calls, D!DropFuture(c) PROVE D!TypeOK'
  BY <1>8 DEF D!DropFuture, D!Outcomes
<1>9. ASSUME NEW by \in Calls \cup {None}, NEW c \in Calls, NEW ack \in D!Acks,
             D!Complete(by, c, ack)
      PROVE  D!TypeOK'
  BY <1>9 DEF D!Complete, D!Delivered
<1>10. ASSUME NEW by \in Calls \cup {None}, D!CancelAll(by) PROVE D!TypeOK'
  BY <1>10 DEF D!CancelAll, D!Delivered
<1> QED
  BY <1>1, <1>2, <1>3, <1>4, <1>5, <1>6, <1>7, <1>8, <1>9, <1>10
     DEF D!Next, D!Progress, D!Engine

\* The steps of send() and of the drop of its guard.
LEMMA SendKeeps ==
  ASSUME DispatcherInv, D!TypeOK', NEW c \in Calls,
         D!Send(c) \/ D!Progress(c) \/ D!DispatchPanics(c) \/ D!Expire(c)
           \/ D!DropFuture(c)
  PROVE  DispatcherInv'
<1> USE NoneIsNoString
        DEF DispatcherInv, D!TypeOK, LockHeld, D!NoLeak, Fresh, DispatchedIfPast,
            Ended, Unanswered, D!CancelledWasDispatched, AnswerIsAck, Heard,
            SenderAlive
<1>1. CASE D!Send(c)
  BY <1>1 DEF D!Send
<1>2. CASE D!Insert(c)
  BY <1>2 DEF D!Insert
<1>3. CASE D!Dispatch(c)
  BY <1>3 DEF D!Dispatch
<1>4. CASE D!DispatchReturns(c)
  BY <1>4 DEF D!DispatchReturns
<1>5. CASE D!DispatchPanics(c)
  BY <1>5 DEF D!DispatchPanics
<1>6. CASE D!PollReceiver(c)
  <2>1. D!Received(c) = rx[c]
    BY <1>6 DEF D!PollReceiver, D!Received
  <2> QED
    BY <1>6, <2>1 DEF D!PollReceiver, D!Outcomes
<1>7. CASE D!PollDeadline(c)
  BY <1>7 DEF D!PollDeadline
<1>8. CASE D!Expire(c)
  BY <1>8 DEF D!Expire
<1>9. CASE D!DropFuture(c)
  BY <1>9 DEF D!DropFuture
<1>10. CASE D!DropGuard(c)
  BY <1>10 DEF D!DropGuard
<1> QED
  BY <1>1, <1>2, <1>3, <1>4, <1>5, <1>6, <1>7, <1>8, <1>9, <1>10 DEF D!Progress

\* While the sink runs, or nobody holds the lock, every entry was dispatched.
LEMMA LockedOut ==
  ASSUME DispatcherInv, NEW by \in Calls \cup {None}, D!CanLock(by), NEW c \in pending
  PROVE  c \in dispatched
<1>1. c \in Calls
        /\ pc[c] \in {"inserted", "dispatching", "awaiting", "polled", "leaving"}
  BY DEF DispatcherInv, D!TypeOK, D!NoLeak
<1>2. CASE pc[c] = "inserted"
  <2>1. owner = c
    BY <1>1, <1>2 DEF DispatcherInv, LockHeld
  <2>2. pc[c] = "dispatching"
    BY <1>1, <2>1, NoneIsNoString DEF D!CanLock
  <2> QED
    BY <1>2, <2>2
<1>3. CASE pc[c] # "inserted"
  BY <1>1, <1>3 DEF DispatcherInv, DispatchedIfPast
<1> QED
  BY <1>2, <1>3

LEMMA EngineKeeps ==
  ASSUME DispatcherInv, D!TypeOK', D!Engine
  PROVE  DispatcherInv'
<1> USE NoneIsNoString
        DEF DispatcherInv, D!TypeOK, LockHeld, D!NoLeak, Fresh, DispatchedIfPast,
            Ended, Unanswered, D!CancelledWasDispatched, AnswerIsAck, Heard,
            SenderAlive
<1>1. ASSUME NEW by \in Calls \cup {None}, NEW c \in Calls, NEW ack \in D!Acks,
             D!Complete(by, c, ack)
      PROVE  DispatcherInv'
  <2>1. /\ c \in pending /\ c \in dispatched /\ pending' = pending \ {c}
        /\ rx' = [rx EXCEPT ![c] = ack]
        /\ acked' = [acked EXCEPT ![c] = @ \cup {ack}]
        /\ UNCHANGED <<pc, owner, outcome, dispatched>>
    BY <1>1 DEF D!Complete
  <2>2. /\ acked[c] = {} /\ rx[c] = None /\ c \in Calls
        /\ pc[c] \notin {"idle", "locking", "done"}
    BY <2>1
  <2>3. acked'[c] = {ack} /\ rx'[c] = ack
    BY <2>1, <2>2
  <2>4. \A d \in Calls : d # c => acked'[d] = acked[d] /\ rx'[d] = rx[d]
    BY <2>1
  <2>5. Fresh'
    BY <2>1, <2>2, <2>4
  <2>6. Unanswered'
    BY <2>1, <2>4
  <2>7. AnswerIsAck'
    BY <2>3, <2>4
  <2>8. Heard'
    <3>1. outcome[c] \notin D!Delivered
      BY <2>2
    <3> QED
      BY <2>1, <2>4, <3>1
  <2>9. (D!CancelledWasDispatched)'
    BY <2>1, <2>4
  <2>10. SenderAlive'
    BY <2>1, <2>3, <2>4
  <2> QED
    BY <2>1, <2>5, <2>6, <2>7, <2>8, <2>9, <2>10
<1>2. ASSUME NEW by \in Calls \cup {None}, D!CancelAll(by) PROVE DispatcherInv'
  <2>1. \A c \in pending : c \in dispatched
    BY <1>2, LockedOut DEF D!CancelAll
  <2> QED
    BY <1>2, <2>1 DEF D!CancelAll, D!Delivered
<1> QED
  BY <1>1, <1>2 DEF D!Engine

LEMMA NextDispatcherInv ==
  ASSUME DispatcherInv, [D!Next]_(D!vars)
  PROVE  DispatcherInv'
<1>1. D!TypeOK'
  BY DispatcherTypes DEF DispatcherInv
<1>2. CASE UNCHANGED D!vars
  BY <1>1, <1>2
     DEF D!vars, DispatcherInv, D!TypeOK, LockHeld, D!NoLeak, Fresh,
         DispatchedIfPast, Ended, Unanswered, D!CancelledWasDispatched,
         AnswerIsAck, Heard, SenderAlive
<1>3. CASE D!Next
  BY <1>1, <1>3, SendKeeps, EngineKeeps DEF D!Next
<1> QED
  BY <1>2, <1>3

-----------------------------------------------------------------------------
(* Replies *)

HandlerTypes ==
  /\ stage \in [Calls -> {"idle", "lookup", "sending", "replied"}]
  /\ request \in [Calls -> Requests \cup {None}]
  /\ reply \in [Calls -> Replies \cup {None}]
  /\ resetting \in (SUBSET Calls) \cup {None}
  /\ outdated \subseteq Calls /\ wasKnown \subseteq Calls

Rejections == {"invalid_argument", "unknown group"}

\* A reply is a rejection of a command that was never sent, or tells the
\* outcome of a send() that is over.
ReplyTells(c) ==
  \/ pc[c] = "idle" /\ reply[c] \in Rejections
  \/ pc[c] = "done" /\ reply[c] = Translated(outcome[c])

RepliesMatch ==
  \A c \in Calls :
    /\ stage[c] \in {"idle", "lookup"} => pc[c] = "idle"
    /\ stage[c] # "replied" => reply[c] = None
    /\ stage[c] = "replied" => ReplyTells(c)

ServiceInv == IInv /\ DispatcherInv /\ HandlerTypes /\ RepliesMatch

LEMMA InitServiceInv == ServiceInit => ServiceInv
<1> SUFFICES ASSUME ServiceInit PROVE ServiceInv
  OBVIOUS
<1>1. HandlerTypes /\ RepliesMatch
  BY DEF ServiceInit, D!Init, HandlerTypes, RepliesMatch
<1> QED
  BY <1>1, InitIInv, InitDispatcherInv DEF ServiceInv

\* No step but a lookup begins a call, and none undoes its end.
Settled ==
  \A d \in Calls :
    /\ pc[d] = "idle" => pc'[d] = "idle"
    /\ pc[d] = "done" => pc'[d] = "done" /\ outcome'[d] = outcome[d]

LEMMA SendingSettles ==
  ASSUME D!TypeOK, NEW c \in Calls, Sending(c)
  PROVE  Settled
<1> USE DEF D!TypeOK, Settled
<1>1. CASE D!Insert(c)
  BY <1>1 DEF D!Insert
<1>2. CASE D!Dispatch(c)
  BY <1>2 DEF D!Dispatch
<1>3. CASE D!DispatchReturns(c)
  BY <1>3 DEF D!DispatchReturns
<1>4. CASE D!PollReceiver(c)
  BY <1>4 DEF D!PollReceiver
<1>5. CASE D!PollDeadline(c)
  BY <1>5 DEF D!PollDeadline
<1>6. CASE D!DropGuard(c)
  BY <1>6 DEF D!DropGuard
<1>7. CASE D!DispatchPanics(c)
  BY <1>7 DEF D!DispatchPanics
<1>8. CASE D!Expire(c)
  BY <1>8 DEF D!Expire
<1>9. CASE D!DropFuture(c)
  BY <1>9 DEF D!DropFuture
<1> QED
  BY <1>1, <1>2, <1>3, <1>4, <1>5, <1>6, <1>7, <1>8, <1>9
  DEF Sending, D!Progress

LEMMA SettledMatch ==
  ASSUME RepliesMatch, Settled, UNCHANGED handlerVars
  PROVE  RepliesMatch'
BY DEF RepliesMatch, Settled, handlerVars, ReplyTells, Translated

\* A reply that becomes one call's own concerns no other call.
LEMMA StepMatches ==
  ASSUME ServiceInv, ServiceStep
  PROVE  RepliesMatch'
<1>0. /\ D!TypeOK /\ RepliesMatch
      /\ stage \in [Calls -> {"idle", "lookup", "sending", "replied"}]
      /\ reply \in [Calls -> Replies \cup {None}]
  BY DEF ServiceInv, DispatcherInv, HandlerTypes
<1>1. CASE UNCHANGED <<dispatcherVars, handlerVars>>
  BY <1>0, <1>1, SettledMatch DEF Settled, dispatcherVars
<1>2. CASE CancelCommands /\ UNCHANGED handlerVars
  BY <1>0, <1>2, SettledMatch DEF CancelCommands, D!CancelAll, Settled
<1>3. CASE Acknowledge /\ UNCHANGED handlerVars
  BY <1>0, <1>3, SettledMatch DEF Acknowledge, D!Complete, Settled
<1>4. ASSUME NEW c \in Calls, HandlerStep(c)
      PROVE  RepliesMatch'
  <2>1. CASE Sending(c)
    BY <1>0, <2>1, SendingSettles, SettledMatch DEF Sending
  <2>2. CASE SendCommand(c)
    <3>1. /\ stage[c] = "idle" /\ pc' = pc /\ outcome' = outcome
          /\ \/ stage' = [stage EXCEPT ![c] = "lookup"] /\ reply' = reply
             \/ /\ stage' = [stage EXCEPT ![c] = "replied"]
                /\ reply' = [reply EXCEPT ![c] = "invalid_argument"]
      BY <2>2 DEF SendCommand, dispatcherVars
    <3> QED
      BY <1>0, <3>1 DEF RepliesMatch, ReplyTells, Rejections, Translated
  <2>3. CASE LookUpGroup(c)
    <3>1. CASE Known(c)
      <4>1. /\ stage[c] = "lookup" /\ stage' = [stage EXCEPT ![c] = "sending"]
            /\ reply' = reply /\ outcome' = outcome
            /\ pc' = [pc EXCEPT ![c] = "locking"]
        BY <2>3, <3>1 DEF LookUpGroup, D!Send
      <4> QED
        BY <1>0, <4>1 DEF RepliesMatch, ReplyTells, Translated
    <3>2. CASE ~Known(c)
      <4>1. /\ stage[c] = "lookup" /\ stage' = [stage EXCEPT ![c] = "replied"]
            /\ reply' = [reply EXCEPT ![c] = "unknown group"]
            /\ pc' = pc /\ outcome' = outcome
        BY <2>3, <3>2 DEF LookUpGroup, dispatcherVars
      <4> QED
        BY <1>0, <4>1 DEF RepliesMatch, ReplyTells, Rejections, Translated
    <3> QED
      BY <3>1, <3>2
  <2>4. CASE Reply(c)
    <3>1. /\ stage[c] = "sending" /\ pc[c] = "done"
          /\ stage' = [stage EXCEPT ![c] = "replied"]
          /\ reply' = [reply EXCEPT ![c] = Translated(outcome[c])]
          /\ pc' = pc /\ outcome' = outcome
      BY <2>4 DEF Reply, dispatcherVars
    <3> QED
      BY <1>0, <3>1 DEF RepliesMatch, ReplyTells, Translated
  <2> QED
    BY <1>4, <2>1, <2>2, <2>3, <2>4 DEF HandlerStep
<1> QED
  BY <1>1, <1>2, <1>3, <1>4 DEF ServiceStep, ResetCache

LEMMA TranslatedIs ==
  \A o \in D!Outcomes :
    /\ Translated(o) \in Replies \ Rejections
    /\ Translated(o) \in D!Delivered \cup {"timeout"} => o = Translated(o)
BY DEF D!Outcomes, D!Delivered, D!Acks, Translated, Replies, Rejections

LEMMA StepTypes ==
  ASSUME ServiceInv, ServiceNext
  PROVE  HandlerTypes'
<1>0. /\ stage \in [Calls -> {"idle", "lookup", "sending", "replied"}]
      /\ request \in [Calls -> Requests \cup {None}]
      /\ reply \in [Calls -> Replies \cup {None}]
      /\ resetting \in (SUBSET Calls) \cup {None}
      /\ outdated \subseteq Calls /\ wasKnown \subseteq Calls
      /\ dispatched \subseteq Calls
  BY DEF ServiceInv, HandlerTypes, DispatcherInv, D!TypeOK
<1>1. wasKnown' \subseteq Calls
  BY <1>0 DEF ServiceNext, Observe
<1>2. /\ stage' \in [Calls -> {"idle", "lookup", "sending", "replied"}]
      /\ request' \in [Calls -> Requests \cup {None}]
      /\ reply' \in [Calls -> Replies \cup {None}]
  <2>1. CASE UNCHANGED handlerVars
    BY <1>0, <2>1 DEF handlerVars
  <2>2. ASSUME NEW c \in Calls, SendCommand(c)
        PROVE  /\ stage' \in [Calls -> {"idle", "lookup", "sending", "replied"}]
               /\ request' \in [Calls -> Requests \cup {None}]
               /\ reply' \in [Calls -> Replies \cup {None}]
    <3>1. PICK r \in Requests :
            /\ request' = [request EXCEPT ![c] = r]
            /\ \/ stage' = [stage EXCEPT ![c] = "lookup"] /\ reply' = reply
               \/ /\ stage' = [stage EXCEPT ![c] = "replied"]
                  /\ reply' = [reply EXCEPT ![c] = "invalid_argument"]
      BY <2>2 DEF SendCommand
    <3>2. "invalid_argument" \in Replies
      BY DEF Replies
    <3> QED
      BY <1>0, <3>1, <3>2
  <2>3. ASSUME NEW c \in Calls, LookUpGroup(c)
        PROVE  /\ stage' \in [Calls -> {"idle", "lookup", "sending", "replied"}]
               /\ request' \in [Calls -> Requests \cup {None}]
               /\ reply' \in [Calls -> Replies \cup {None}]
    <3>1. /\ request' = request
          /\ \/ stage' = [stage EXCEPT ![c] = "sending"] /\ reply' = reply
             \/ /\ stage' = [stage EXCEPT ![c] = "replied"]
                /\ reply' = [reply EXCEPT ![c] = "unknown group"]
      BY <2>3 DEF LookUpGroup
    <3>2. "unknown group" \in Replies
      BY DEF Replies
    <3> QED
      BY <1>0, <3>1, <3>2
  <2>4. ASSUME NEW c \in Calls, Reply(c)
        PROVE  /\ stage' \in [Calls -> {"idle", "lookup", "sending", "replied"}]
               /\ request' \in [Calls -> Requests \cup {None}]
               /\ reply' \in [Calls -> Replies \cup {None}]
    <3>1. Translated(outcome[c]) \in Replies
      <4>1. outcome[c] \in D!Outcomes
        BY <2>4 DEF Reply, ServiceInv, DispatcherInv, Ended, D!TypeOK
      <4> QED
        BY <4>1, TranslatedIs
    <3> QED
      BY <1>0, <2>4, <3>1 DEF Reply
  <2> QED
    BY <2>1, <2>2, <2>3, <2>4 DEF ServiceNext, ServiceStep, HandlerStep, Sending
<1>3. resetting' \in (SUBSET Calls) \cup {None} /\ outdated' \subseteq Calls
  <2>1. InFlight \subseteq Calls
    BY <1>0 DEF InFlight
  <2>2. Resets
    BY StepMoves DEF ServiceNext, ServiceInv
  <2> QED
    BY <1>0, <2>1, <2>2 DEF Resets, resetVars
<1> QED
  BY <1>1, <1>2, <1>3 DEF HandlerTypes

LEMMA NextServiceInv == ServiceInv /\ [ServiceNext]_vars => ServiceInv'
<1> SUFFICES ASSUME ServiceInv, [ServiceNext]_vars PROVE ServiceInv'
  OBVIOUS
<1>1. IInv'
  BY Invariance DEF ServiceInv
<1>2. CASE ServiceNext
  <2>1. [D!Next]_(D!vars)
    BY <1>2, StepDispatches DEF ServiceNext
  <2> QED
    BY <1>1, <1>2, <2>1, NextDispatcherInv, StepMatches, StepTypes
    DEF ServiceInv, ServiceNext
<1>3. CASE UNCHANGED vars
  <2>1. UNCHANGED D!vars /\ UNCHANGED handlerVars
        /\ UNCHANGED <<pc, outcome, stage, request, reply>>
        /\ UNCHANGED <<resetting, outdated, wasKnown>>
    BY <1>3 DEF vars, dispatcherVars, handlerVars, resetVars, D!vars
  <2>2. DispatcherInv'
    BY <2>1, NextDispatcherInv DEF ServiceInv
  <2>3. HandlerTypes' /\ RepliesMatch'
    BY <2>1, SettledMatch DEF Settled, ServiceInv, HandlerTypes
  <2> QED
    BY <1>1, <2>2, <2>3 DEF ServiceInv
<1> QED
  BY <1>2, <1>3

\* The service's variables keep their types, the dispatcher's among them.
THEOREM ServiceTypesCorrect == ServiceSpec => []ServiceTypeOK
<1>1. ServiceInv => ServiceTypeOK
  BY DEF ServiceInv, HandlerTypes, DispatcherInv, ServiceTypeOK
<1> QED
  BY InitServiceInv, NextServiceInv, <1>1, PTL DEF ServiceSpec

\* What the client is told is what became of its command: success and failure
\* only if the engine's acknowledgement said so, a rejection only if the
\* engine never heard of it (services/command.rs:22-46).
THEOREM RepliesAreTruthful == ServiceSpec => []RepliesTruthful
<1>1. ASSUME ServiceInv PROVE RepliesTruthful
  <2> SUFFICES ASSUME NEW c \in Calls
               PROVE  /\ reply[c] \in D!Acks => acked[c] = {reply[c]}
                      /\ reply[c] = "cancelled" => c \in dispatched /\ acked[c] = {}
                      /\ reply[c] = "timeout" => c \in dispatched
                      /\ reply[c] \in Rejections => c \notin dispatched
    BY DEF RepliesTruthful, Rejections
  <2>1. reply[c] # None => ReplyTells(c)
    BY <1>1 DEF ServiceInv, RepliesMatch, HandlerTypes
  <2>2. /\ {"success", "failure", "cancelled", "timeout"} \cup Rejections \subseteq Replies
        /\ D!Acks = {"success", "failure"} /\ None \notin Replies
    BY NoneIsNoString DEF Rejections, Replies, D!Acks
  <2>3. CASE pc[c] = "idle" /\ reply[c] \in Rejections
    <3>1. c \notin dispatched
      BY <1>1, <2>3 DEF ServiceInv, DispatcherInv, Fresh
    <3> QED
      BY <2>3, <3>1 DEF Rejections, D!Acks
  <2>4. CASE pc[c] = "done" /\ reply[c] = Translated(outcome[c])
    <3>1. c \in dispatched
      BY <1>1, <2>4 DEF ServiceInv, DispatcherInv, DispatchedIfPast
    <3>2. outcome[c] \in D!Outcomes
      BY <1>1, <2>4 DEF ServiceInv, DispatcherInv, Ended, D!TypeOK
    <3>3. reply[c] \notin Rejections
      BY <2>4, <3>2, TranslatedIs
    <3>4. reply[c] \in D!Delivered => rx[c] = reply[c]
      BY <1>1, <2>4, <3>2, TranslatedIs DEF ServiceInv, DispatcherInv, Heard
    <3>5. reply[c] \in D!Delivered =>
            acked[c] = IF reply[c] \in D!Acks THEN {reply[c]} ELSE {}
      BY <1>1, <3>4 DEF ServiceInv, DispatcherInv, AnswerIsAck
    <3> QED
      BY <3>1, <3>3, <3>5 DEF D!Delivered, D!Acks
  <2> QED
    BY <2>1, <2>2, <2>3, <2>4 DEF ReplyTells
<1> QED
  BY InitServiceInv, NextServiceInv, <1>1, PTL DEF ServiceSpec
=============================================================================
