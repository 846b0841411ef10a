-------------------------- MODULE CommandContract --------------------------
(***************************************************************************)
(* What the dispatcher promises about each command, without its lock, its  *)
(* map of pending commands and its polling: the engine is told of it, may  *)
(* answer it once before the call returns, and the call ends with that     *)
(* answer or because nobody waited for one.                                *)
(***************************************************************************)
CONSTANTS Calls, None

VARIABLES
  told,       \* commands that reached the engine
  answer,     \* what the engine decided about each
  result,     \* what each call ends with
  returned    \* calls that are over

vars == <<told, answer, result, returned>>

Answers == {"success", "failure", "cancelled"}
GivenUp == {"timeout", "dropped", "panicked"}

Init ==
  /\ told = {} /\ returned = {}
  /\ answer = [c \in Calls |-> None]
  /\ result = [c \in Calls |-> None]

Tell(c) ==
  /\ c \notin told
  /\ told' = told \cup {c}
  /\ UNCHANGED <<answer, result, returned>>

\* One answer for any number of commands: a reset cancels them all.
Answer(cs, a) ==
  /\ cs \subseteq told \ returned
  /\ \A c \in cs : answer[c] = None
  /\ answer' = [c \in Calls |-> IF c \in cs THEN a ELSE answer[c]]
  /\ UNCHANGED <<told, result, returned>>

\* A call may give up although an answer is there.
End(c, r) ==
  /\ c \in told /\ result[c] = None
  /\ r \in Answers => answer[c] = r
  /\ result' = [result EXCEPT ![c] = r]
  /\ UNCHANGED <<told, answer, returned>>

Return(c) ==
  /\ result[c] # None /\ c \notin returned
  /\ returned' = returned \cup {c}
  /\ UNCHANGED <<told, answer, result>>

Next ==
  \/ \E cs \in SUBSET Calls, a \in Answers : Answer(cs, a)
  \/ \E c \in Calls : \/ Tell(c) \/ Return(c)
                      \/ \E r \in Answers \cup GivenUp : End(c, r)

Spec == Init /\ [][Next]_vars
=============================================================================
