-------------------------------- MODULE Feed --------------------------------
(***************************************************************************)
(* What a subscription promises about one thing that changes: a follower   *)
(* shows values the thing really had, each newer than the last, may skip   *)
(* some when it starts, and shows the last one in the end unless it is     *)
(* excused: told that it was left behind, or gone.  An excused follower's  *)
(* view does not change any more.                                          *)
(*                                                                         *)
(* The subscriptions implement it with sequence numbers, snapshots, a      *)
(* lossy channel and a bounded queue, none of which appears here.          *)
(***************************************************************************)
EXTENDS Naturals, SequencesExt

CONSTANTS Followers, Absent

VARIABLES
  history,    \* the values so far of what each follower follows
  position,   \* where in that history its view is from
  view,
  excused

vars == <<history, position, view, excused>>

Init ==
  /\ history = [f \in Followers |-> <<Absent>>]
  /\ position = [f \in Followers |-> 1]
  /\ view = [f \in Followers |-> Absent]
  /\ excused = [f \in Followers |-> FALSE]

Change ==
  /\ DOMAIN history' = Followers
  /\ \A f \in Followers : IsPrefix(history[f], history'[f])
  /\ UNCHANGED <<position, view, excused>>

Follow(f) ==
  /\ ~excused[f]
  /\ \E p \in position[f]+1 .. Len(history[f]) :
       /\ position' = [position EXCEPT ![f] = p]
       /\ view' = [view EXCEPT ![f] = history[f][p]]
  /\ UNCHANGED <<history, excused>>

Excuse ==
  /\ DOMAIN excused' = Followers
  /\ \A f \in Followers : excused[f] => excused'[f]
  /\ UNCHANGED <<history, position, view>>

Next == Change \/ Excuse \/ \E f \in Followers : Follow(f)

Spec == Init /\ [][Next]_vars

CatchesUp ==
  \A f \in Followers : <>[](excused[f] \/ view[f] = Last(history[f]))
=============================================================================
