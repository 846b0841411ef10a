---------------------------- MODULE ServerProofs ----------------------------
(***************************************************************************)
(* What TLAPS proves of Server, for any number of connections and whatever *)
(* methods are called.                                                     *)
(***************************************************************************)
EXTENDS Server, TLAPS

-----------------------------------------------------------------------------
(* The paths *)

\* Whatever a method of a generated client is routed to is its own handler.
LEMMA RouteIsOwn ==
  ASSUME NEW s \in Client, NEW route \in Routes(s.path)
  PROVE  route.handler = s.method
<1>1. \E r \in Server : r.path = s.path
  BY DEF Client, CommandClient, UnitClient, GroupClient, LocationClient,
         SimulationClient, Server, CommandServer, UnitServer, GroupServer,
         LocationServer, SimulationServer, Sends, Unary, Streaming
<1>2. route \in Server /\ route.path = s.path
  BY <1>1 DEF Routes
<1> QED
  BY <1>2
  DEF Client, CommandClient, UnitClient, GroupClient, LocationClient,
      SimulationClient, Server, CommandServer, UnitServer, GroupServer,
      LocationServer, SimulationServer, Sends, Unary, Streaming, Path

-----------------------------------------------------------------------------
(* The invariant *)

\* Where the thread can be, given what else is known of the server.
ThreadAgrees ==
  /\ owner = "idle" => thread = "none"
  /\ ready \in {"error", "dropped"} => thread \in {"stopping", "ended"}
  /\ owner = "failed" => thread \in {"none", "stopping", "ended"}
  /\ owner = "dropped" \/ (owner = "running" /\ ~handle.sender) => thread = "ended"
  /\ listening => thread = "serving"

\* Nothing is served but by a thread that serves, or did and waits.
NothingServed ==
  thread \notin {"serving", "stopping"} =>
    \A c \in Connections : connection[c] # "open" /\ call[c].phase # "dispatching"

\* Why serving was over while connections were open.
StoppedFor ==
  thread = "stopping" =>
    \/ \A c \in Connections : connection[c] # "open"
    \/ grace = "elapsed" \/ serve = "failed"

CommandsOnly ==
  \A c \in Connections :
    call[c].phase \in {"dispatching", "awaiting"} => call[c].method = "send_command"

IInv ==
  /\ ServerTypeOK /\ ThreadAgrees /\ NothingServed /\ StoppedFor
  /\ CommandsOnly /\ OwnHandler

LEMMA InitIInv == Init => IInv
<1> SUFFICES ASSUME Init PROVE IInv
  OBVIOUS
<1>1. handle \in {[sender |-> held, thread |-> held] : held \in BOOLEAN}
  <2> FALSE \in BOOLEAN
    OBVIOUS
  <2> QED
    BY DEF Init
<1>2. call \in [Connections -> Call]
  BY DEF Init, Call, NoCall
<1>3. ServerTypeOK
  BY <1>1, <1>2 DEF Init, ServerTypeOK
<1>4. ThreadAgrees /\ NothingServed /\ StoppedFor /\ CommandsOnly /\ OwnHandler
  BY DEF Init, ThreadAgrees, NothingServed, StoppedFor, CommandsOnly, OwnHandler, NoCall
<1> QED
  BY <1>3, <1>4 DEF IInv

\* The owner's steps, and those of the thread: no connection changes.
LEMMA ThreadNext ==
  ASSUME IInv,
         \/ Spawn \/ OwnerReturns \/ (\E drop \in BOOLEAN : Shutdown(drop))
         \/ ThreadStep \/ Watch \/ GraceElapses \/ ServeFails,
         UNCHANGED clientVars
  PROVE  IInv'
<1> USE DEF IInv, ServerTypeOK, ThreadAgrees, NothingServed, StoppedFor,
            CommandsOnly, OwnHandler, clientVars, ownerVars, threadVars
<1>1. CASE Spawn
  BY <1>1 DEF Spawn
<1>2. CASE SpawnReturns
  <2>1. handle' \in {[sender |-> held, thread |-> held] : held \in BOOLEAN}
    <3> TRUE \in BOOLEAN
      OBVIOUS
    <3> QED
      BY <1>2 DEF SpawnReturns
  <2>2. ServerTypeOK'
    BY <1>2, <2>1 DEF SpawnReturns
  <2>3. (ThreadAgrees /\ NothingServed /\ StoppedFor /\ CommandsOnly /\ OwnHandler)'
    BY <1>2 DEF SpawnReturns
  <2> QED
    BY <2>2, <2>3
<1>3. CASE JoinReturns
  BY <1>3 DEF JoinReturns
<1>4. ASSUME NEW drop \in BOOLEAN, Shutdown(drop)
      PROVE  IInv'
  <2>1. handle' = [sender |-> FALSE, thread |-> FALSE]
    BY <1>4 DEF Shutdown
  <2>2. ServerTypeOK'
    BY <1>4, <2>1 DEF Shutdown
  <2>3. ThreadAgrees'
    <3>1. handle.sender = handle.thread
      OBVIOUS
    <3>2. CASE handle.thread
      BY <1>4, <2>1, <3>2 DEF Shutdown
    <3>3. CASE ~handle.thread
      BY <1>4, <2>1, <3>1, <3>3 DEF Shutdown
    <3> QED
      BY <3>2, <3>3
  <2>4. (NothingServed /\ StoppedFor /\ CommandsOnly /\ OwnHandler)'
    BY <1>4 DEF Shutdown
  <2> QED
    BY <2>2, <2>3, <2>4
<1>5. CASE BuildRuntime
  BY <1>5 DEF BuildRuntime
<1>6. CASE Bind
  <2>1. ServerTypeOK'
    BY <1>6 DEF Bind
  <2>2. ThreadAgrees'
    BY <1>6 DEF Bind
  <2>3. (NothingServed /\ StoppedFor)'
    BY <1>6 DEF Bind
  <2>4. (CommandsOnly /\ OwnHandler)'
    BY <1>6 DEF Bind
  <2> QED
    BY <2>1, <2>2, <2>3, <2>4
<1>7. CASE Drain
  BY <1>7 DEF Drain
<1>8. CASE StartGrace
  BY <1>8 DEF StartGrace
<1>9. CASE ServeReturns
  BY <1>9 DEF ServeReturns, StopServing
<1>10. CASE ForceClosed
  BY <1>10 DEF ForceClosed, StopServing
<1>11. CASE EndThread
  BY <1>11 DEF EndThread
<1>12. CASE Watch
  BY <1>12 DEF Watch
<1>13. CASE GraceElapses
  BY <1>13 DEF GraceElapses
<1>14. CASE ServeFails
  BY <1>14 DEF ServeFails, StopServing
<1> QED
  BY <1>1, <1>2, <1>3, <1>4, <1>5, <1>6, <1>7, <1>8, <1>9, <1>10, <1>11, <1>12,
     <1>13, <1>14
  DEF OwnerReturns, ThreadStep

LEMMA AnswerType ==
  ASSUME call \in [Connections -> Call], NEW c \in Connections, NEW by \in Called,
         Answer(c, by)
  PROVE  call' \in [Connections -> Call]
BY DEF Answer, Call

\* The steps of one connection.
LEMMA ConnectionNext ==
  ASSUME IInv, NEW c \in Connections,
         \/ ServerTask(c) \/ StreamAborts(c)
         \/ Connect(c) \/ Request(c) \/ ClientCloses(c),
         UNCHANGED <<ownerVars, threadVars>>
  PROVE  IInv'
<1> USE DEF IInv, ServerTypeOK, ThreadAgrees, NothingServed, StoppedFor,
            CommandsOnly, OwnHandler, Call, ownerVars, threadVars, Go, Answer,
            Running, Over
<1>1. CASE Handle(c)
  BY <1>1, RouteIsOwn DEF Handle
<1>2. CASE DispatchReturns(c)
  BY <1>2 DEF DispatchReturns
<1>3. CASE CommandEnds(c)
  <2>1. call[c].method = "send_command" /\ "send_command" \in Called
    BY <1>3 DEF CommandEnds
  <2>2. call' \in [Connections -> Call]
    BY <1>3, <2>1, AnswerType DEF CommandEnds
  <2>3. ServerTypeOK'
    BY <1>3, <2>2 DEF CommandEnds
  <2>4. (ThreadAgrees /\ NothingServed /\ StoppedFor /\ CommandsOnly /\ OwnHandler)'
    BY <1>3, <2>1 DEF CommandEnds
  <2> QED
    BY <2>3, <2>4
<1>4. CASE CutConnection(c)
  BY <1>4 DEF CutConnection
<1>5. CASE StreamAborts(c)
  BY <1>5 DEF StreamAborts
<1>6. CASE Connect(c)
  BY <1>6 DEF Connect
<1>7. CASE Request(c)
  BY <1>7 DEF Request
<1>8. CASE ClientCloses(c)
  BY <1>8 DEF ClientCloses
<1> QED
  BY <1>1, <1>2, <1>3, <1>4, <1>5, <1>6, <1>7, <1>8 DEF ServerTask

LEMMA Invariance == Spec => []IInv
<1>1. ASSUME IInv, UNCHANGED vars
      PROVE  IInv'
  BY <1>1 DEF IInv, ServerTypeOK, ThreadAgrees, NothingServed, StoppedFor,
     CommandsOnly, OwnHandler, vars, ownerVars, threadVars, clientVars
<1>2. IInv /\ [Next]_vars => IInv'
  BY <1>1, ThreadNext, ConnectionNext DEF Next
<1> QED
  BY <1>2, InitIInv, PTL DEF Spec

-----------------------------------------------------------------------------
(* The theorems *)

\* The server's state has its type.
THEOREM TypeCorrect == Spec => []ServerTypeOK
<1>1. IInv => ServerTypeOK
  BY DEF IInv
<1> QED
  BY <1>1, Invariance, PTL

\* Nothing of the server is left once shutdown() or drop has returned, and no
\* socket of a spawn() that failed (server.rs:212-213, 40-46).
THEOREM NothingIsLeft == Spec => []StoppedIsStopped
<1>1. IInv => StoppedIsStopped
  BY DEF IInv, ServerTypeOK, ThreadAgrees, NothingServed, StoppedIsStopped
<1> QED
  BY <1>1, Invariance, PTL

\* Every call is answered by the handler of its own method, on the paths of
\* minerva.v1.tonic.rs.
THEOREM PathsAgree == Spec => []OwnHandler
<1>1. IInv => OwnHandler
  BY DEF IInv
<1> QED
  BY <1>1, Invariance, PTL

\* A call is cut only after the grace period or a failure (server.rs:165-168).
THEOREM CutOnlyAfterGrace == Spec => GraceHonoured
<1> DEFINE A == \A c \in Connections :
                  call'[c].phase = "cut" /\ call[c].phase # "cut" =>
                    grace = "elapsed" \/ serve = "failed"
<1>1. ASSUME IInv, [Next]_vars
      PROVE  [A]_vars
  <2> SUFFICES ASSUME Next PROVE A
    BY <1>1
  <2>1. CASE UNCHANGED clientVars
    BY <2>1 DEF clientVars
  <2>2. ASSUME NEW c \in Connections,
               \/ ServerTask(c) \/ StreamAborts(c)
               \/ Connect(c) \/ Request(c) \/ ClientCloses(c)
        PROVE  A
    <3> USE <1>1 DEF IInv, ServerTypeOK, Call
    <3>1. CASE CutConnection(c)
      BY <3>1 DEF CutConnection, Over, Go, StoppedFor
    <3>2. CASE Handle(c)
      BY <3>2 DEF Handle, Answer, Go
    <3>3. CASE DispatchReturns(c)
      BY <3>3 DEF DispatchReturns, Go
    <3>4. CASE CommandEnds(c)
      BY <3>4 DEF CommandEnds, Answer
    <3>5. CASE StreamAborts(c) \/ Connect(c) \/ Request(c) \/ ClientCloses(c)
      BY <3>5 DEF StreamAborts, Connect, Request, ClientCloses, Go
    <3> QED
      BY <2>2, <3>1, <3>2, <3>3, <3>4, <3>5 DEF ServerTask
  <2> QED
    BY <2>1, <2>2 DEF Next
<1> QED
  BY <1>1, Invariance, PTL DEF Spec, GraceHonoured
=============================================================================
