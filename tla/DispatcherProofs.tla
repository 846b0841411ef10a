-------------------------- MODULE DispatcherProofs --------------------------
(***************************************************************************)
(* Proofs about the dispatcher for any set of concurrent calls: no entry   *)
(* leaks, a cancelled call was dispatched, a reset answers every command   *)
(* in flight, and a call is answered at most once, with what it is told.   *)
(***************************************************************************)
EXTENDS Dispatcher, TLAPS

\* Before its entry is inserted the engine cannot know of a call.
Fresh ==
  \A c \in Calls : pc[c] \in {"idle", "locking"} =>
    /\ rx[c] = None /\ acked[c] = {} /\ outcome[c] = None
    /\ c \notin dispatched /\ c \notin pending

\* The engine is told under the lock.
DispatchedIfPast ==
  \A c \in Calls :
    pc[c] \in {"dispatching", "awaiting", "polled", "leaving", "done"} =>
      c \in dispatched

\* The entry of a call goes with the one use of its sender.
Unanswered == \A c \in pending : rx[c] = None /\ acked[c] = {}

\* The lock is held exactly through insertion and dispatch, by one call.
LockHeld ==
  \A c \in Calls : owner = c <=> pc[c] \in {"inserted", "dispatching"}

\* A call has an outcome exactly when it is over or about to be.
Ended == \A c \in Calls : outcome[c] # None <=> pc[c] \in {"leaving", "done"}

\* The sender of a call in progress is in the map or was used: its receiver is
\* never found closed.
SenderAlive ==
  \A c \in Calls :
    pc[c] \in {"inserted", "dispatching", "awaiting", "polled", "leaving"} =>
      (c \in pending <=> rx[c] = None)

IInv ==
  /\ TypeOK /\ LockHeld /\ NoLeak
  /\ Fresh /\ DispatchedIfPast /\ Unanswered /\ Ended
  /\ CancelledWasDispatched /\ SenderAlive /\ AckAgrees

LEMMA NoneIsNoString ==
  /\ None \notin Delivered
  /\ \A c \in Calls : c # None
  /\ Acks \subseteq Delivered /\ "cancelled" \notin Acks
  /\ \A o \in Outcomes : o # None
BY DispatcherAssumption DEF Outcomes, Delivered, Acks

LEMMA InitIInv == Init => IInv
<1> SUFFICES ASSUME Init PROVE IInv
  OBVIOUS
<1>1. TypeOK
  BY DEF Init, TypeOK
<1> QED
  BY <1>1, NoneIsNoString
     DEF Init, IInv, LockHeld, NoLeak, Fresh, DispatchedIfPast, Ended, Unanswered,
         CancelledWasDispatched, SenderAlive, AckAgrees, Delivered

-----------------------------------------------------------------------------
(* One lemma per part of the invariant; within it, the steps that touch it. *)

LEMMA TypeNext == TypeOK /\ [Next]_vars => TypeOK'
<1> SUFFICES ASSUME TypeOK, [Next]_vars PROVE TypeOK'
  OBVIOUS
<1> USE DEF TypeOK
<1>1. CASE UNCHANGED vars
  BY <1>1 DEF vars
<1>2. ASSUME NEW c \in Calls, Send(c) \/ Insert(c) \/ Dispatch(c) PROVE TypeOK'
  BY <1>2 DEF Send, Insert, Dispatch
<1>3. ASSUME NEW c \in Calls, DispatchReturns(c) PROVE TypeOK'
  BY <1>3 DEF DispatchReturns
<1>4. ASSUME NEW c \in Calls, DispatchPanics(c) PROVE TypeOK'
  BY <1>4 DEF DispatchPanics, Outcomes
<1>5. ASSUME NEW c \in Calls, PollReceiver(c) PROVE TypeOK'
  BY <1>5 DEF PollReceiver, Received, Outcomes, Delivered
<1>6. ASSUME NEW c \in Calls, PollDeadline(c) PROVE TypeOK'
  BY <1>6 DEF PollDeadline, Outcomes
<1>7. ASSUME NEW c \in Calls, Expire(c) \/ DropGuard(c) PROVE TypeOK'
  BY <1>7 DEF Expire, DropGuard
<1>8. ASSUME NEW c \in Calls, DropFuture(c) PROVE TypeOK'
  BY <1>8 DEF DropFuture, Outcomes
<1>9. ASSUME NEW by \in Calls \cup {None}, NEW c \in Calls, NEW ack \in Acks,
             Complete(by, c, ack)
      PROVE  TypeOK'
  BY <1>9 DEF Complete, Delivered
<1>10. ASSUME NEW by \in Calls \cup {None}, CancelAll(by) PROVE TypeOK'
  BY <1>10 DEF CancelAll, Delivered
<1> QED BY <1>1, <1>2, <1>3, <1>4, <1>5, <1>6, <1>7, <1>8, <1>9, <1>10
           DEF Next, Progress, Engine

\* The steps of send() and of the drop of its guard.
LEMMA CallNext ==
  ASSUME IInv, TypeOK', NEW c \in Calls,
         Send(c) \/ Progress(c) \/ DispatchPanics(c) \/ Expire(c) \/ DropFuture(c)
  PROVE  IInv'
<1> USE NoneIsNoString
        DEF IInv, TypeOK, LockHeld, NoLeak, Fresh, DispatchedIfPast, Ended, Unanswered,
            CancelledWasDispatched, SenderAlive, AckAgrees
<1>1. CASE Send(c)
  BY <1>1 DEF Send
<1>2. CASE Insert(c)
  BY <1>2 DEF Insert
<1>3. CASE Dispatch(c)
  BY <1>3 DEF Dispatch
<1>4. CASE DispatchReturns(c)
  BY <1>4 DEF DispatchReturns
<1>5. CASE DispatchPanics(c)
  BY <1>5 DEF DispatchPanics, Outcomes, Delivered, Acks
<1>6. CASE PollReceiver(c)
  <2>1. Received(c) = rx[c]
    BY <1>6 DEF PollReceiver, Received
  <2> QED BY <1>6, <2>1 DEF PollReceiver, Outcomes
<1>7. CASE PollDeadline(c)
  BY <1>7 DEF PollDeadline, Outcomes, Delivered, Acks
<1>8. CASE Expire(c)
  BY <1>8 DEF Expire
<1>9. CASE DropFuture(c)
  BY <1>9 DEF DropFuture, Outcomes, Delivered, Acks
<1>10. CASE DropGuard(c)
  BY <1>10 DEF DropGuard
<1> QED BY <1>1, <1>2, <1>3, <1>4, <1>5, <1>6, <1>7, <1>8, <1>9, <1>10
           DEF Progress

\* While the sink runs, or nobody holds the lock, every entry was dispatched.
LEMMA LockedOut ==
  ASSUME IInv, NEW by \in Calls \cup {None}, CanLock(by), NEW c \in pending
  PROVE  c \in dispatched
<1>1. c \in Calls /\ pc[c] \in {"inserted", "dispatching", "awaiting", "polled", "leaving"}
  BY DEF IInv, TypeOK, NoLeak
<1>2. CASE pc[c] = "inserted"
  <2>1. owner = c
    BY <1>1, <1>2 DEF IInv, LockHeld
  <2>2. pc[c] = "dispatching"
    BY <1>1, <2>1, NoneIsNoString DEF CanLock
  <2> QED BY <1>2, <2>2
<1>3. CASE pc[c] # "inserted"
  BY <1>1, <1>3 DEF IInv, DispatchedIfPast
<1> QED BY <1>2, <1>3

LEMMA EngineNext ==
  ASSUME IInv, TypeOK', Engine
  PROVE  IInv'
<1> USE NoneIsNoString
        DEF IInv, TypeOK, LockHeld, NoLeak, Fresh, DispatchedIfPast, Ended, Unanswered,
            CancelledWasDispatched, SenderAlive, AckAgrees
<1>1. ASSUME NEW by \in Calls \cup {None}, NEW c \in Calls, NEW ack \in Acks,
             Complete(by, c, ack)
      PROVE  IInv'
  BY <1>1 DEF Complete, Delivered
<1>2. ASSUME NEW by \in Calls \cup {None}, CancelAll(by) PROVE IInv'
  <2>1. \A c \in pending : c \in dispatched
    BY <1>2, LockedOut DEF CancelAll
  <2> QED BY <1>2, <2>1 DEF CancelAll, Delivered
<1> QED BY <1>1, <1>2 DEF Engine

LEMMA NextIInv == IInv /\ [Next]_vars => IInv'
<1> SUFFICES ASSUME IInv, [Next]_vars PROVE IInv'
  OBVIOUS
<1>1. TypeOK'
  BY TypeNext DEF IInv
<1>2. CASE UNCHANGED vars
  BY <1>1, <1>2
     DEF vars, IInv, TypeOK, LockHeld, NoLeak, Fresh, DispatchedIfPast,
         Ended, Unanswered, CancelledWasDispatched, SenderAlive, AckAgrees
<1>3. CASE Next
  BY <1>1, <1>3, CallNext, EngineNext DEF Next
<1> QED BY <1>2, <1>3

-----------------------------------------------------------------------------
LEMMA Invariance == Spec => []IInv
BY InitIInv, NextIInv, PTL DEF Spec

\* Every interleaving of calls, acknowledgements, cancellations, timeouts and
\* panics keeps the map, the receivers and the lock's owner within their types:
\* only calls are pending, and only a call owns the lock (commands.rs:141-233).
THEOREM DispatcherTypesCorrect == Spec => []TypeOK
<1>1. IInv => TypeOK
  BY DEF IInv
<1> QED BY Invariance, <1>1, PTL

\* Whatever ends a call, its entry is gone when send() has returned: the map
\* never grows beyond the calls in progress.
THEOREM EntriesNeverLeak == Spec => []NoLeak
<1>1. IInv => NoLeak
  BY DEF IInv
<1> QED BY Invariance, <1>1, PTL

\* A caller that hears "cancelled" had its command dispatched: the critical
\* section orders every cancel_all() before the insertion or after the dispatch.
THEOREM CancelledKnownToEngine == Spec => []CancelledWasDispatched
<1>1. IInv => CancelledWasDispatched
  BY DEF IInv
<1> QED BY Invariance, <1>1, PTL

\* No reset misses a command that the engine knows of: every call in flight
\* either was answered before or is failed by cancel_all() (commands.rs:211-216).
THEOREM ResetReachesAll == Spec => ResetAnswersAll
<1> DEFINE Answered(by) ==
      CancelAll(by) => \A c \in dispatched : pc[c] # "done" => rx'[c] # None
<1>1. ASSUME IInv, NEW by \in Calls \cup {None} PROVE Answered(by)
  <2> SUFFICES ASSUME CancelAll(by), NEW c \in dispatched, pc[c] # "done"
               PROVE  rx'[c] # None
    OBVIOUS
  <2>1. c \in Calls /\ (c \in pending \/ rx[c] # None)
    BY <1>1 DEF IInv, TypeOK, Fresh, SenderAlive
  <2> QED BY <2>1, NoneIsNoString DEF CancelAll, Delivered
<1>2. IInv => [\A by \in Calls \cup {None} : Answered(by)]_vars
  BY <1>1
<1> QED BY Invariance, <1>2, PTL DEF ResetAnswersAll

\* complete() accepts at most one acknowledgement of a call, and the call is
\* told that outcome or ended for a reason of its own, never "cancelled".
THEOREM AcknowledgementAgrees == Spec => []AckAgrees
<1>1. IInv => AckAgrees
  BY DEF IInv
<1> QED BY Invariance, <1>1, PTL

(* The refinement: each action is an action of the contract, or a stutter. *)

LEMMA ContractInit == Init => Contract!Init
BY DEF Init, Contract!Init

LEMMA ContractCallNext ==
  ASSUME IInv, NEW c \in Calls,
         Send(c) \/ Progress(c) \/ DispatchPanics(c) \/ Expire(c) \/ DropFuture(c)
  PROVE  Contract!Next \/ UNCHANGED Contract!vars
<1> USE NoneIsNoString DEF IInv, TypeOK
<1>1. CASE Send(c) \/ Insert(c) \/ DispatchReturns(c) \/ Expire(c)
  <2>1. {d \in Calls : pc[d] = "done"}' = {d \in Calls : pc[d] = "done"}
    BY <1>1 DEF Send, Insert, DispatchReturns, Expire
  <2> QED BY <1>1, <2>1 DEF Send, Insert, DispatchReturns, Expire, Contract!vars
<1>2. CASE Dispatch(c)
  <2>1. {d \in Calls : pc[d] = "done"}' = {d \in Calls : pc[d] = "done"}
    BY <1>2 DEF Dispatch
  <2>2. CASE c \notin dispatched
    BY <1>2, <2>1, <2>2 DEF Dispatch, Contract!Next, Contract!Tell
  <2>3. CASE c \in dispatched
    BY <1>2, <2>1, <2>3 DEF Dispatch, Contract!vars
  <2> QED BY <2>2, <2>3
<1>3. ASSUME pc[c] \in {"dispatching", "awaiting", "polled"},
             pc' = [pc EXCEPT ![c] = "leaving"],
             NEW r \in Outcomes, r \in Delivered => rx[c] = r,
             outcome' = [outcome EXCEPT ![c] = r],
             UNCHANGED <<rx, dispatched>>
      PROVE  Contract!Next
  <2>1. {d \in Calls : pc[d] = "done"}' = {d \in Calls : pc[d] = "done"}
    BY <1>3
  <2>2. c \in dispatched /\ outcome[c] = None
    BY <1>3 DEF DispatchedIfPast, Ended
  <2>3. r \in Contract!Answers \cup Contract!GivenUp
    BY DEF Outcomes, Delivered, Acks, Contract!Answers, Contract!GivenUp
  <2>4. Contract!End(c, r)
    BY <1>3, <2>1, <2>2
       DEF Contract!End, Contract!Answers, Delivered, Acks
  <2> QED BY <2>3, <2>4 DEF Contract!Next
<1>4. CASE DispatchPanics(c)
  BY <1>3, <1>4 DEF DispatchPanics, Outcomes, Delivered, Acks
<1>5. CASE DropFuture(c)
  BY <1>3, <1>5 DEF DropFuture, Outcomes, Delivered, Acks
<1>6. CASE PollReceiver(c)
  <2>0. Received(c) = rx[c]
    BY <1>6 DEF PollReceiver, Received, SenderAlive
  <2>1. CASE rx[c] # None
    <3>1. rx[c] \in Outcomes
      BY <2>1 DEF Outcomes
    <3> QED BY <1>3, <1>6, <2>0, <2>1, <3>1 DEF PollReceiver
  <2>2. CASE rx[c] = None
    <3>1. {d \in Calls : pc[d] = "done"}' = {d \in Calls : pc[d] = "done"}
      BY <1>6, <2>0, <2>2 DEF PollReceiver
    <3> QED BY <1>6, <2>0, <2>2, <3>1 DEF PollReceiver, Contract!vars
  <2> QED BY <2>1, <2>2
<1>7. CASE PollDeadline(c)
  <2>1. CASE expired[c]
    BY <1>3, <1>7, <2>1 DEF PollDeadline, Outcomes, Delivered, Acks
  <2>2. CASE ~expired[c]
    <3>1. {d \in Calls : pc[d] = "done"}' = {d \in Calls : pc[d] = "done"}
      BY <1>7, <2>2 DEF PollDeadline
    <3> QED BY <1>7, <2>2, <3>1 DEF PollDeadline, Contract!vars
  <2> QED BY <2>1, <2>2
<1>8. CASE DropGuard(c)
  <2>1. {d \in Calls : pc[d] = "done"}' = {d \in Calls : pc[d] = "done"} \cup {c}
    BY <1>8 DEF DropGuard
  <2>2. outcome[c] # None /\ c \notin {d \in Calls : pc[d] = "done"}
    BY <1>8 DEF DropGuard, Ended
  <2> QED BY <1>8, <2>1, <2>2 DEF DropGuard, Contract!Next, Contract!Return
<1> QED BY <1>1, <1>2, <1>4, <1>5, <1>6, <1>7, <1>8 DEF Progress

LEMMA ContractEngineNext ==
  ASSUME IInv, Engine
  PROVE  Contract!Next
<1> USE NoneIsNoString DEF IInv, TypeOK
<1>1. ASSUME NEW cs \in SUBSET pending, \A c \in cs : c \in dispatched,
             NEW a \in Delivered,
             rx' = [c \in Calls |-> IF c \in cs THEN a ELSE rx[c]],
             UNCHANGED <<pc, outcome, dispatched>>
      PROVE  Contract!Next
  <2>1. \A c \in cs : c \in Calls /\ pc[c] # "done" /\ rx[c] = None
    BY DEF NoLeak, Unanswered
  <2>2. Contract!Answer(cs, a)
    BY <1>1, <2>1 DEF Contract!Answer
  <2>3. a \in Contract!Answers /\ cs \in SUBSET Calls
    BY <2>1 DEF Delivered, Acks, Contract!Answers
  <2> QED BY <2>2, <2>3 DEF Contract!Next
<1>2. ASSUME NEW by \in Calls \cup {None}, NEW c \in Calls, NEW ack \in Acks,
             Complete(by, c, ack)
      PROVE  Contract!Next
  <2>1. rx' = [d \in Calls |-> IF d \in {c} THEN ack ELSE rx[d]]
    BY <1>2 DEF Complete
  <2>2. {c} \in SUBSET pending /\ \A d \in {c} : d \in dispatched
    BY <1>2 DEF Complete
  <2>3. ack \in Delivered /\ UNCHANGED <<pc, outcome, dispatched>>
    BY <1>2 DEF Complete, Delivered
  <2> QED BY ONLY <1>1, <2>1, <2>2, <2>3
<1>3. ASSUME NEW by \in Calls \cup {None}, CancelAll(by) PROVE Contract!Next
  <2>1. \A c \in pending : c \in dispatched
    BY <1>3, LockedOut DEF CancelAll
  <2> QED BY <1>1, <1>3, <2>1 DEF CancelAll, Delivered
<1> QED BY <1>2, <1>3 DEF Engine

\* The dispatcher implements the contract of a command, whatever the number of
\* concurrent calls: an answer is given once, to a command the engine knows of
\* and whose call has not returned, and it is the answer the call ends with
\* unless it gave up.
THEOREM DispatcherKeepsContract == Spec => ImplementsContract
<1>1. IInv /\ [Next]_vars => [Contract!Next]_(Contract!vars)
  <2> SUFFICES ASSUME IInv, [Next]_vars
               PROVE  Contract!Next \/ UNCHANGED Contract!vars
    OBVIOUS
  <2>1. CASE UNCHANGED vars
    BY <2>1 DEF vars, Contract!vars
  <2>2. CASE Next
    BY <2>2, ContractCallNext, ContractEngineNext DEF Next
  <2> QED BY <2>1, <2>2
<1> QED BY Invariance, ContractInit, <1>1, PTL DEF Spec, ImplementsContract, Contract!Spec
=============================================================================
