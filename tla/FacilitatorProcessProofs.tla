---------------------- MODULE FacilitatorProcessProofs ----------------------
(***************************************************************************)
(* For any number of requests, failures, signals and restarts a process    *)
(* has one connection, and a stop that reports success leaves nobody       *)
(* waiting.                                                                *)
(***************************************************************************)
EXTENDS FacilitatorProcess, FiniteSetTheorems, TLAPS

\* Whoever waits for a connection has made the client it waits for, and once
\* the server is closed no caller waits.
ConnectionInv ==
    /\ \A h \in Requests : pc[h] = "connect" => link[h] = "connecting" /\ uses[h] = h
    /\ mode = "disconnecting" => Waiting = {}
    /\ timers <= signals

ProcessInv == ProcessTypeOK /\ OneConnection /\ ConnectionInv

\* A handler that asks for the connection joins the client that is there, or
\* makes the only one.
LEMMA GetRpcInv ==
    ASSUME ProcessInv, NEW h \in Requests, GetRpc(h)
    PROVE  /\ rpc' \in Requests \cup {None}
           /\ link' \in [Requests -> {"none", "connecting", "open", "broken"}]
           /\ pc' \in [Requests -> {"idle", "body", "connect", "call", "done", "lost"}]
           /\ uses' \in [Requests -> Requests \cup {None}]
           /\ \A q \in Requests : pc'[q] = "call" => uses'[q] # None
           /\ OneConnection'
           /\ \A q \in Requests : pc'[q] = "connect" => link'[q] = "connecting" /\ uses'[q] = q
    BY ProcessAssumption DEF ProcessInv, ProcessTypeOK, OneConnection,
       ConnectionInv, GetRpc

\* The process as it starts.
LEMMA ProcessInit == Init => ProcessInv
    BY ProcessAssumption, FS_EmptySet DEF Init, ProcessInv, ProcessTypeOK, OneConnection,
       ConnectionInv, Waiting, InFlight, Running, Exits

\* A count that starts again stays within its bound.
LEMMA ZeroIsInRange ==
    ASSUME NEW bound \in Nat, NEW count \in 0 .. bound
    PROVE  0 \in 0 .. bound /\ 0 <= count
    OBVIOUS

\* Leaving the process leaves nothing behind.
LEMMA ExitInv ==
    ASSUME ProcessInv, NEW code \in Exits, Exit(code)
    PROVE  ProcessInv'
<1> USE DEF ProcessInv, ProcessTypeOK, ConnectionInv, Exit, Exits, bounds
<1>1. pc' \in [Requests -> {"idle", "body", "connect", "call", "done", "lost"}]
    BY DEF InFlight
<1>2. \A h \in Requests : pc'[h] \notin {"body", "connect", "call"}
    BY DEF InFlight
<1>3. MaxSignals \in Nat /\ MaxFailures \in Nat
    BY ProcessAssumption
<1>4. mode' \in Running \cup Exits /\ mode' # "disconnecting"
    OBVIOUS
<1>5. timers' = 0 /\ signals' = signals /\ signals \in 0 .. MaxSignals
    OBVIOUS
<1>6. timers' \in 0 .. MaxSignals /\ timers' <= signals'
    <2>1. 0 \in 0 .. MaxSignals /\ 0 <= signals
        BY <1>3, <1>5, ZeroIsInRange
    <2> QED BY <1>5, <2>1
<1>7. ProcessTypeOK'
    <2>1. link' \in [Requests -> {"none", "connecting", "open", "broken"}]
        OBVIOUS
    <2>2. uses' \in [Requests -> Requests \cup {None}]
        OBVIOUS
    <2> QED BY <1>1, <1>2, <1>4, <1>6, <2>1, <2>2
<1>8. OneConnection'
    BY DEF OneConnection
<1>9. ConnectionInv'
    BY <1>2, <1>4, <1>6
<1> QED BY <1>7, <1>8, <1>9

\* Leaving the process is one of four steps.
Leaving == Drained \/ Disconnected \/ DisconnectFails \/ TimerFires

LEMMA LeavingInv == ProcessInv /\ Leaving => ProcessInv'
<1> SUFFICES ASSUME ProcessInv, Leaving PROVE ProcessInv'
    OBVIOUS
<1>1. ASSUME NEW code \in Exits, Exit(code) PROVE ProcessInv'
    BY <1>1, ExitInv
<1>2. CASE mode = "closing" /\ Waiting = {} /\ mode' = "disconnecting"
              /\ UNCHANGED << timers, rpc, link, handlers, dropped, bounds >>
    BY <1>2 DEF ProcessInv, ProcessTypeOK, OneConnection, ConnectionInv, Waiting,
       InFlight, handlers, bounds, Running
<1> QED BY <1>1, <1>2 DEF Leaving, Drained, Disconnected, DisconnectFails,
           TimerFires, Exits

\* The steps of a request: its handler's, and its caller's.
HandlerStep(h) ==
    \/ Receive(h) \/ BodyRead(h) \/ CallerDrops(h)
    \/ Connected(h) \/ ConnectFails(h) \/ Called(h) \/ CallFails(h)

\* A step of a request keeps the types ...
LEMMA HandlerTypes ==
    ASSUME ProcessInv, NEW h \in Requests,
           HandlerStep(h)
    PROVE  ProcessTypeOK'
<1> USE ProcessAssumption DEF ProcessInv, ProcessTypeOK, bounds
<1>1. CASE Receive(h)
    BY <1>1 DEF Receive
<1>6. CASE BodyRead(h)
    <2>1. CASE GetRpc(h) /\ UNCHANGED << left, answer >>
        BY <1>6, <2>1, GetRpcInv DEF BodyRead
    <2>2. CASE Respond(h, "error") /\ UNCHANGED << rpc, link >>
        BY <1>6, <2>2 DEF BodyRead, Respond
    <2> QED BY <1>6, <2>1, <2>2 DEF BodyRead
<1>7. CASE CallerDrops(h)
    <2>1. IsFiniteSet(dropped') /\ Cardinality(dropped') = Cardinality(dropped) + 1
        BY <1>7, FS_AddElement DEF CallerDrops, Waiting
    <2>2. Cardinality(dropped) \in Nat
        BY FS_CardinalityType
    <2>3. dropped' \subseteq Requests /\ Cardinality(dropped') <= MaxDrops
        BY <1>7, <2>1, <2>2 DEF CallerDrops
    <2> QED BY <1>7, <2>1, <2>3 DEF CallerDrops, handlers
<1>2. CASE Connected(h)
    <2>1. uses[h] # None
        BY <1>2 DEF Connected, ConnectionInv
    <2> QED BY <1>2, <2>1 DEF Connected
<1>3. CASE ConnectFails(h)
    <2>1. failures' \in 0 .. MaxFailures
        BY <1>3 DEF ConnectFails
    <2> QED BY <1>3, <2>1 DEF ConnectFails, Respond
<1>4. CASE Called(h)
    <2>1. CASE left[h] > 1 /\ left' = [left EXCEPT ![h] = @ - 1] /\ GetRpc(h)
               /\ UNCHANGED << answer, mode, timers, dropped, bounds >>
        <3>1. left' \in [Requests -> 1 .. MaxCalls]
            BY <2>1
        <3> QED BY <2>1, <3>1, GetRpcInv
    <2>2. CASE \/ Respond(h, "error") /\ UNCHANGED << rpc, link >>
               \/ Respond(h, "ok") /\ UNCHANGED << rpc, link >>
        BY <1>4, <2>2 DEF Called, Respond
    <2> QED BY <1>4, <2>1, <2>2 DEF Called
<1>5. CASE CallFails(h)
    <2>1. failures' \in 0 .. MaxFailures
        BY <1>5 DEF CallFails
    <2> QED BY <1>5, <2>1 DEF CallFails, Respond
<1> QED BY <1>1, <1>2, <1>3, <1>4, <1>5, <1>6, <1>7 DEF HandlerStep

\* ... and the connection.
LEMMA HandlerConnection ==
    ASSUME ProcessInv, NEW h \in Requests,
           HandlerStep(h)
    PROVE  OneConnection' /\ ConnectionInv'
<1> USE DEF ProcessInv, ConnectionInv
<1> USE DEF HandlerStep
<1>1. Waiting' \subseteq Waiting \/ mode' # "disconnecting"
    BY DEF Receive, BodyRead, CallerDrops, Connected, ConnectFails, Called, CallFails,
       GetRpc, Respond, Waiting, InFlight, handlers, ProcessTypeOK
<1>2. (mode' = "disconnecting" => Waiting' = {}) /\ timers' <= signals'
    <2>1. mode' = mode /\ timers' = timers /\ signals' = signals
        BY DEF Receive, BodyRead, CallerDrops, Connected, ConnectFails, Called,
           CallFails, bounds
    <2> QED BY <1>1, <2>1
<1>3. ASSUME GetRpc(h) PROVE OneConnection' /\ ConnectionInv'
    BY <1>2, <1>3, GetRpcInv
<1>4. ASSUME Respond(h, "error") \/ Respond(h, "ok"),
             rpc' = rpc,
             link' = link \/ link' = [link EXCEPT ![h] = "broken"]
      PROVE  OneConnection' /\ ConnectionInv'
    BY <1>2, <1>4 DEF Respond, OneConnection, ProcessTypeOK
<1>5. CASE Connected(h)
    BY <1>2, <1>5 DEF Connected, OneConnection, ProcessTypeOK
<1>6. CASE Receive(h)
    BY <1>2, <1>6 DEF Receive, OneConnection, ProcessTypeOK
<1>10. CASE BodyRead(h)
    BY <1>3, <1>4, <1>10 DEF BodyRead
<1>11. CASE CallerDrops(h)
    BY <1>2, <1>11 DEF CallerDrops, handlers, OneConnection
<1>7. CASE ConnectFails(h)
    BY <1>4, <1>7 DEF ConnectFails
<1>8. CASE Called(h)
    BY <1>3, <1>4, <1>8 DEF Called
<1>9. CASE CallFails(h)
    BY <1>4, <1>9 DEF CallFails
<1> QED BY <1>5, <1>6, <1>7, <1>8, <1>9, <1>10, <1>11

\* Every step keeps the invariant.
LEMMA ProcessStep == ProcessInv /\ [Next]_vars => ProcessInv'
<1> SUFFICES ASSUME ProcessInv, [Next]_vars PROVE ProcessInv'
    OBVIOUS
<1>1. ASSUME NEW h \in Requests,
             HandlerStep(h)
      PROVE  ProcessInv'
    BY <1>1, HandlerTypes, HandlerConnection DEF ProcessInv
<1>2. CASE Signal
    <2>1. /\ signals' \in 0 .. MaxSignals /\ timers' <= signals'
          /\ timers' \in 0 .. MaxSignals
        BY <1>2, ProcessAssumption DEF Signal, ProcessInv, ProcessTypeOK, ConnectionInv
    <2>2. ProcessTypeOK'
        BY <1>2, <2>1 DEF Signal, ProcessInv, ProcessTypeOK, handlers, Running, Exits
    <2>3. OneConnection' /\ ConnectionInv'
        BY <1>2, <2>1 DEF Signal, ProcessInv, OneConnection, ConnectionInv, handlers,
           Waiting, InFlight
    <2> QED BY <2>2, <2>3 DEF ProcessInv
<1>3. CASE Leaving
    BY <1>3, LeavingInv
<1>4. CASE Restart
    <2>1. restarts' \in 0 .. MaxRestarts
        BY <1>4, ProcessAssumption DEF Restart, ProcessInv, ProcessTypeOK
    <2>2. ProcessTypeOK'
        BY <1>4, <2>1 DEF Restart, ProcessInv, ProcessTypeOK, handlers, Running
    <2>3. OneConnection' /\ ConnectionInv'
        BY <1>4 DEF Restart, ProcessInv, OneConnection, ConnectionInv, handlers
    <2> QED BY <2>2, <2>3 DEF ProcessInv
<1>5. CASE UNCHANGED vars
    BY <1>5 DEF vars, handlers, bounds, ProcessInv, ProcessTypeOK, OneConnection,
       ConnectionInv, Waiting, InFlight
<1> QED BY <1>1, <1>2, <1>3, <1>4, <1>5 DEF Next, Stop, Leaving, HandlerStep

\* The invariant holds for ever.
LEMMA ProcessInvariant == Spec => []ProcessInv
    BY ProcessInit, ProcessStep, PTL DEF Spec

\* Connection, counters and handlers keep their types, and no counter passes
\* its bound, for any number of requests, calls, signals and restarts.
THEOREM ProcessTypesCorrect == Spec => []ProcessTypeOK
    BY ProcessInvariant, PTL DEF ProcessInv

\* The handlers of a process share one connection, however their requests
\* for it interleave.
THEOREM OneConnectionCorrect == Spec => []OneConnection
    BY ProcessInvariant, PTL DEF ProcessInv

\* A stop that reports success leaves nobody waiting, for any number of
\* requests, of callers that close their connection and of signals.
THEOREM NobodyIsLeftWaiting == Spec => NobodyLeftWaiting
<1> DEFINE Left == \A h \in Requests :
                       pc[h] # "lost" /\ pc'[h] = "lost" => h \in dropped \/ mode' = "exit 1"
<1>1. ProcessInv /\ [Next]_vars => [Left]_vars
    <2> SUFFICES ASSUME ProcessInv, Next, NEW h \in Requests,
                        pc[h] # "lost", pc'[h] = "lost", mode' # "exit 1"
                 PROVE  h \in dropped
        OBVIOUS
    <2> USE DEF ProcessInv, ProcessTypeOK
    <2>1. ~ \E q \in Requests : HandlerStep(q)
        BY DEF HandlerStep, Receive, BodyRead, CallerDrops, Connected, ConnectFails,
           Called, CallFails, GetRpc, Respond, handlers
    <2>2. PICK code : Exit(code) /\ (Drained \/ Disconnected)
        BY <2>1 DEF Next, HandlerStep, Stop, Drained, Disconnected, DisconnectFails,
           TimerFires, Signal, Restart, Exit, handlers
    <2>3. h \in InFlight
        BY <2>2 DEF Exit
    <2>4. Waiting = {}
        BY <2>2 DEF Drained, Disconnected, ConnectionInv
    <2> QED BY <2>3, <2>4 DEF Waiting
<1> QED BY <1>1, ProcessInvariant, PTL DEF Spec, NobodyLeftWaiting

=============================================================================
