----------------------------- MODULE Dispatcher -----------------------------
(***************************************************************************)
(* The command dispatcher (src/commands.rs): each call of send() registers *)
(* a pending command, hands it to the engine's CommandSink under the lock, *)
(* and waits for an acknowledgement, a cancellation or the timeout.        *)
(*                                                                         *)
(* A call stands for its CommandId, which a 64-bit counter never gives out *)
(* twice.  `pending` is the map's key set; the sender a key maps to is the *)
(* other end of that call's `rx`.  `owner` holds the reentrant mutex: the  *)
(* sections of complete(), cancel_all() and the guard's drop are one step  *)
(* each, that of send() spans the sink's dispatch().                       *)
(*                                                                         *)
(* One poll of the timeout looks at rx first and at the clock later: the   *)
(* two are steps of their own, other threads run in between.               *)
(***************************************************************************)
EXTENDS Naturals

CONSTANTS
  Calls,       \* calls of send()
  SyncAcked,   \* those whose dispatch() acknowledges before it returns
  None         \* no outcome yet, nobody holds the lock

Acks == {"success", "failure"}
Delivered == Acks \cup {"cancelled"}
Outcomes == Delivered \cup {"timeout", "dropped", "panicked"}

ASSUME DispatcherAssumption ==
  /\ SyncAcked \subseteq Calls
  /\ None \notin Calls /\ None \notin Outcomes

VARIABLES
  pc,          \* "idle", "locking", "inserted", "dispatching", "awaiting",
               \* "polled" (rx seen empty), "leaving" (guard to drop), "done"
  owner,       \* the call that holds the lock, or None
  pending,     \* calls in the map
  rx,          \* what was sent to the call's receiver, or None
  outcome,     \* how send() ends, or None
  expired,     \* the deadline of the call has passed
  dispatched,  \* history: calls the engine was told of
  acked        \* history: outcomes for which complete() returned true

vars == <<pc, owner, pending, rx, outcome, expired, dispatched, acked>>

TypeOK ==
  /\ pc \in [Calls -> {"idle", "locking", "inserted", "dispatching", "awaiting",
                       "polled", "leaving", "done"}]
  /\ owner \in Calls \cup {None}
  /\ pending \subseteq Calls
  /\ rx \in [Calls -> Delivered \cup {None}]
  /\ outcome \in [Calls -> Outcomes \cup {None}]
  /\ expired \in [Calls -> BOOLEAN]
  /\ dispatched \subseteq Calls
  /\ acked \in [Calls -> SUBSET Acks]

-----------------------------------------------------------------------------
(* The lock *)

(* Mutants *)
NotReentrant(by) == owner = None

\* `by` is the call inside whose dispatch() the code runs, or None for a thread
\* of its own: the lock is free, or this thread already holds it.
CanLock(by) ==
  owner = None \/ (by # None /\ owner = by /\ pc[by] = "dispatching")

-----------------------------------------------------------------------------
(* send() *)

Send(c) ==
  /\ pc[c] = "idle"
  /\ pc' = [pc EXCEPT ![c] = "locking"]
  /\ UNCHANGED <<owner, pending, rx, outcome, expired, dispatched, acked>>

(* Mutants *)
\* The lock covers the insertion only.
InsertAlone(c) ==
  /\ pc[c] = "locking" /\ owner = None
  /\ pc' = [pc EXCEPT ![c] = "inserted"]
  /\ pending' = pending \cup {c}
  /\ UNCHANGED <<owner, rx, outcome, expired, dispatched, acked>>

Insert(c) ==
  /\ pc[c] = "locking" /\ owner = None
  /\ owner' = c
  /\ pending' = pending \cup {c}
  /\ pc' = [pc EXCEPT ![c] = "inserted"]
  /\ UNCHANGED <<rx, outcome, expired, dispatched, acked>>

Dispatch(c) ==
  /\ pc[c] = "inserted"
  /\ dispatched' = dispatched \cup {c}
  /\ pc' = [pc EXCEPT ![c] = "dispatching"]
  /\ UNCHANGED <<owner, pending, rx, outcome, expired, acked>>

(* Mutants *)
\* The guard is declared inside the block, and dropped at its end.
GuardInBlock(c) ==
  /\ pc[c] = "dispatching"
  /\ owner' = None
  /\ pending' = pending \ {c}
  /\ pc' = [pc EXCEPT ![c] = "awaiting"]
  /\ UNCHANGED <<rx, outcome, expired, dispatched, acked>>

\* The sink returns, the lock is released, the await begins.
DispatchReturns(c) ==
  /\ pc[c] = "dispatching"
  /\ c \in SyncAcked => acked[c] # {} \/ c \notin pending
  /\ owner' = None
  /\ pc' = [pc EXCEPT ![c] = "awaiting"]
  /\ UNCHANGED <<pending, rx, outcome, expired, dispatched, acked>>

\* The sink panics: unwinding releases the lock, then drops the guard.
DispatchPanics(c) ==
  /\ pc[c] = "dispatching"
  /\ owner' = None
  /\ outcome' = [outcome EXCEPT ![c] = "panicked"]
  /\ pc' = [pc EXCEPT ![c] = "leaving"]
  /\ UNCHANGED <<pending, rx, expired, dispatched, acked>>

\* What a poll finds in rx: a sender that was dropped unused, with its entry, is
\* taken for a cancellation.
Received(c) ==
  IF rx[c] = None /\ c \notin pending THEN "cancelled" ELSE rx[c]

\* A poll takes what it finds in rx, however late it is.
PollReceiver(c) ==
  /\ pc[c] = "awaiting"
  /\ IF Received(c) # None
     THEN /\ outcome' = [outcome EXCEPT ![c] = Received(c)]
          /\ pc' = [pc EXCEPT ![c] = "leaving"]
     ELSE /\ pc' = [pc EXCEPT ![c] = "polled"]
          /\ UNCHANGED outcome
  /\ UNCHANGED <<owner, pending, rx, expired, dispatched, acked>>

(* Mutants *)
\* No deadline.
PollForever(c) ==
  /\ pc[c] = "polled"
  /\ pc' = [pc EXCEPT ![c] = "awaiting"]
  /\ UNCHANGED <<owner, pending, rx, outcome, expired, dispatched, acked>>

PollDeadline(c) ==
  /\ pc[c] = "polled"
  /\ IF expired[c]
     THEN /\ outcome' = [outcome EXCEPT ![c] = "timeout"]
          /\ pc' = [pc EXCEPT ![c] = "leaving"]
     ELSE /\ pc' = [pc EXCEPT ![c] = "awaiting"]
          /\ UNCHANGED outcome
  /\ UNCHANGED <<owner, pending, rx, expired, dispatched, acked>>

Expire(c) ==
  /\ pc[c] \in {"awaiting", "polled"} /\ ~expired[c]
  /\ expired' = [expired EXCEPT ![c] = TRUE]
  /\ UNCHANGED <<pc, owner, pending, rx, outcome, dispatched, acked>>

\* The caller drops the future, which runs only between two polls.
DropFuture(c) ==
  /\ pc[c] = "awaiting"
  /\ outcome' = [outcome EXCEPT ![c] = "dropped"]
  /\ pc' = [pc EXCEPT ![c] = "leaving"]
  /\ UNCHANGED <<owner, pending, rx, expired, dispatched, acked>>

(* Mutants *)
\* The entry stays behind.
LeaveWithoutGuard(c) ==
  /\ pc[c] = "leaving"
  /\ pc' = [pc EXCEPT ![c] = "done"]
  /\ UNCHANGED <<owner, pending, rx, outcome, expired, dispatched, acked>>

\* RemovePending's drop.
DropGuard(c) ==
  /\ pc[c] = "leaving" /\ owner = None
  /\ pending' = pending \ {c}
  /\ pc' = [pc EXCEPT ![c] = "done"]
  /\ UNCHANGED <<owner, rx, outcome, expired, dispatched, acked>>

-----------------------------------------------------------------------------
(* The engine *)

(* Mutants *)
\* complete() reads the sender's entry but leaves it in the map.
CompleteKeepsEntry(by, c, ack) ==
  /\ CanLock(by) /\ c \in dispatched
  /\ c \in pending
  /\ rx' = [rx EXCEPT ![c] = ack]
  /\ acked' = [acked EXCEPT ![c] = @ \cup {ack}]
  /\ UNCHANGED <<pc, owner, pending, outcome, expired, dispatched>>

\* complete() for a call the engine knows of; it returns true iff the call is
\* still pending, and changes nothing when it returns false.
Complete(by, c, ack) ==
  /\ CanLock(by) /\ c \in dispatched
  /\ c \in pending
  /\ pending' = pending \ {c}
  /\ rx' = [rx EXCEPT ![c] = ack]
  /\ acked' = [acked EXCEPT ![c] = @ \cup {ack}]
  /\ UNCHANGED <<pc, owner, outcome, expired, dispatched>>

(* Mutants *)
\* cancel_all() fails the calls but leaves their entries to the guards.
CancelKeepsEntries(by) ==
  /\ CanLock(by)
  /\ rx' = [c \in Calls |-> IF c \in pending THEN "cancelled" ELSE rx[c]]
  /\ UNCHANGED <<pc, owner, pending, outcome, expired, dispatched, acked>>

\* cancel_all() reports a cancellation as a timeout.
CancelReportsTimeout(by) ==
  /\ CanLock(by)
  /\ pending' = {}
  /\ rx' = [c \in Calls |-> IF c \in pending THEN "timeout" ELSE rx[c]]
  /\ UNCHANGED <<pc, owner, outcome, expired, dispatched, acked>>

CancelAll(by) ==
  /\ CanLock(by)
  /\ pending' = {}
  /\ rx' = [c \in Calls |-> IF c \in pending THEN "cancelled" ELSE rx[c]]
  /\ UNCHANGED <<pc, owner, outcome, expired, dispatched, acked>>

-----------------------------------------------------------------------------
Init ==
  /\ pc = [c \in Calls |-> "idle"]
  /\ owner = None
  /\ pending = {}
  /\ rx = [c \in Calls |-> None]
  /\ outcome = [c \in Calls |-> None]
  /\ expired = [c \in Calls |-> FALSE]
  /\ dispatched = {}
  /\ acked = [c \in Calls |-> {}]

\* A sink that acknowledges from within dispatch().
SyncComplete(c) == \E ack \in Acks : Complete(c, c, ack)

\* The steps send() takes by itself once it was called.
Progress(c) ==
  \/ Insert(c) \/ Dispatch(c) \/ DispatchReturns(c)
  \/ PollReceiver(c) \/ PollDeadline(c) \/ DropGuard(c)

Engine ==
  \/ \E by \in Calls \cup {None}, c \in Calls, ack \in Acks : Complete(by, c, ack)
  \/ \E by \in Calls \cup {None} : CancelAll(by)

Next ==
  \/ \E c \in Calls : Send(c) \/ Progress(c) \/ DispatchPanics(c)
                      \/ Expire(c) \/ DropFuture(c)
  \/ Engine

Spec == Init /\ [][Next]_vars

\* dispatch() returns promptly (commands.rs:131-132), after its own
\* acknowledgement if it sends one; the runtime polls a woken call and the
\* clock goes on.  No engine ever has to acknowledge from outside.
FairSpec ==
  /\ Spec
  /\ \A c \in Calls :
       /\ WF_vars(Progress(c)) /\ SF_vars(Insert(c)) /\ SF_vars(DropGuard(c))
       /\ WF_vars(Expire(c))
  /\ \A c \in SyncAcked : WF_vars(SyncComplete(c))

-----------------------------------------------------------------------------
(* Properties *)

\* Nothing stays in the map after its call, however that ended: acknowledged,
\* cancelled, timed out, dropped or panicked (commands.rs:178-182).
NoLeak ==
  \A c \in pending :
    pc[c] \in {"inserted", "dispatching", "awaiting", "polled", "leaving"}

\* A call that is told "cancelled" was dispatched before: caller and engine
\* never disagree because of a reset (commands.rs:170-176).
CancelledWasDispatched ==
  \A c \in Calls : "cancelled" \in {rx[c], outcome[c]} => c \in dispatched

\* cancel_all() fails every command that the engine was told of and whose call
\* has not returned, unless it was answered before: a reset misses none, whether
\* its call waits, was dropped, panicked or timed out (commands.rs:211-216).
ResetAnswersAll ==
  [][\A by \in Calls \cup {None} :
       CancelAll(by) =>
         \A c \in dispatched : pc[c] # "done" => rx'[c] # None]_vars

\* complete() returns true at most once, the caller is then told that very
\* outcome unless it stopped listening, and never that it was cancelled.
AckAgrees ==
  \A c \in Calls :
    /\ \A a, b \in acked[c] : a = b
    /\ acked[c] # {} => rx[c] \in acked[c]
    /\ outcome[c] \in Delivered => outcome[c] = rx[c]

\* The dispatcher implements the contract of a command: what a call is told is
\* decided once, by the engine, while the engine knows of the command and the
\* call has not returned, and the caller hears it unless it gave up first
\* (commands.rs:121-136, 163-164, 199-200, 211-212).
Contract ==
  INSTANCE CommandContract WITH
    told <- dispatched, answer <- rx, result <- outcome,
    returned <- {c \in Calls : pc[c] = "done"}

ImplementsContract == Contract!Spec

\* Every call of send() ends, acknowledged or not, and also when the sink
\* acknowledges from inside dispatch() (commands.rs:145-149).
SendEnds == \A c \in Calls : pc[c] = "locking" ~> pc[c] = "done"

\* commands.rs:193: a call is "cancelled" when its sender was dropped without
\* completing, e.g. via cancel_all().  The code's cancel_all() uses the sender.
CancelledIsDropped ==
  \A c \in Calls : outcome[c] = "cancelled" => rx[c] = None

\* commands.rs:199-200: complete() returns false once the call has timed out.
\* The code refuses only once the guard has dropped.
LateAckRefused ==
  [][\A c \in Calls : outcome[c] = "timeout" => acked'[c] = acked[c]]_vars
=============================================================================
