------------------------- MODULE FacilitatorProcess -------------------------
(***************************************************************************)
(* The facilitator as a process: the one RPC connection its handlers       *)
(* share (getRpc and close of facilitator.ts), the shutdown of server.ts   *)
(* and the restart by systemd.  What a handler does between its RPC calls  *)
(* is module Facilitator, which sees this one as RpcFails and Crash.       *)
(***************************************************************************)
EXTENDS Naturals, FiniteSets

CONSTANTS
    Requests,       \* HTTP requests
    MaxCalls,       \* times a handler asks for the connection
    MaxFailures,    \* bound: connections and RPC calls that fail
    MaxDrops,       \* bound: callers that close their connection
    MaxSignals,     \* bound: SIGINT and SIGTERM
    MaxRestarts,    \* bound: restarts by systemd
    None            \* no client

ASSUME ProcessAssumption ==
    /\ MaxCalls \in Nat \ {0}
    /\ {MaxFailures, MaxDrops, MaxSignals, MaxRestarts} \subseteq Nat
    /\ None \notin Requests

VARIABLES
    mode,       \* of the process
    timers,     \* shutdown timers that run
    rpc,        \* this.rpc: the handler that created the client it is
    link,       \* link[h]: the connection of the client that h created
    pc,         \* pc[h]: the await at which the handler of h is suspended
    uses,       \* uses[h]: the client the handler holds
    left,       \* left[h]: stages the handler of h has still to run
    answer,     \* answer[h]: the response, "none" before
    dropped,    \* requests whose caller closed its connection
    failures, signals, restarts

handlers == << pc, uses, left, answer >>
bounds == << failures, signals, restarts >>
vars == << mode, timers, rpc, link, handlers, dropped, bounds >>

Running == {"listening", "closing", "disconnecting"}
Exits == {"exit 0", "exit 1"}

InFlight == { h \in Requests : pc[h] \in {"body", "connect", "call"} }

\* The requests whose caller still waits for the answer.
Waiting == InFlight \ dropped

-----------------------------------------------------------------------------
(* Handlers and the connection.                                            *)

\* Mutant: the client is not published.
GetRpc_NotPublished(h) ==
    \/ /\ rpc # None
       /\ uses' = [uses EXCEPT ![h] = rpc]
       /\ pc' = [pc EXCEPT ![h] = "call"]
       /\ UNCHANGED << rpc, link >>
    \/ /\ rpc = None
       /\ uses' = [uses EXCEPT ![h] = h]
       /\ link' = [link EXCEPT ![h] = "connecting"]
       /\ pc' = [pc EXCEPT ![h] = "connect"]
       /\ UNCHANGED rpc

\* Mutant: the handler that connects is not given the client.
GetRpc_NotReturned(h) ==
    \/ /\ rpc # None
       /\ uses' = [uses EXCEPT ![h] = rpc]
       /\ pc' = [pc EXCEPT ![h] = "call"]
       /\ UNCHANGED << rpc, link >>
    \/ /\ rpc = None
       /\ rpc' = h
       /\ link' = [link EXCEPT ![h] = "connecting"]
       /\ pc' = [pc EXCEPT ![h] = "connect"]
       /\ UNCHANGED uses

\* The client is published before it is connected: the handler that creates
\* it waits, any other goes on with a client that may not be connected.
GetRpc(h) ==
    \/ /\ rpc # None
       /\ uses' = [uses EXCEPT ![h] = rpc]
       /\ pc' = [pc EXCEPT ![h] = "call"]
       /\ UNCHANGED << rpc, link >>
    \/ /\ rpc = None
       /\ rpc' = h
       /\ uses' = [uses EXCEPT ![h] = h]
       /\ link' = [link EXCEPT ![h] = "connecting"]
       /\ pc' = [pc EXCEPT ![h] = "connect"]

Respond(h, response) ==
    /\ pc' = [pc EXCEPT ![h] = "done"]
    /\ answer' = [answer EXCEPT ![h] = response]
    /\ uses' = [uses EXCEPT ![h] = None]
    /\ UNCHANGED left

\* A server that closes takes no new connection, but a connection that is
\* kept alive may still bring a request.
Receive(h) ==
    /\ mode \in {"listening", "closing"} /\ pc[h] = "idle"
    /\ pc' = [pc EXCEPT ![h] = "body"]
    /\ UNCHANGED << mode, timers, rpc, link, uses, left, answer, dropped, bounds >>

\* readBody is over: verify asks for the connection, unless the body is no
\* JSON, a check before it fails or the caller is gone.
BodyRead(h) ==
    /\ mode \in Running /\ pc[h] = "body"
    /\ \/ h \notin dropped /\ GetRpc(h) /\ UNCHANGED << left, answer >>
       \/ Respond(h, "error") /\ UNCHANGED << rpc, link >>
    /\ UNCHANGED << mode, timers, dropped, bounds >>

\* A caller closes its connection.  The handler goes on.
CallerDrops(h) ==
    /\ mode \in Running /\ h \in Waiting
    /\ Cardinality(dropped) < MaxDrops
    /\ dropped' = dropped \cup {h}
    /\ UNCHANGED << mode, timers, rpc, link, handlers, bounds >>

Connected(h) ==
    /\ mode \in Running /\ pc[h] = "connect"
    /\ link' = [link EXCEPT ![h] = "open"]
    /\ pc' = [pc EXCEPT ![h] = "call"]
    /\ UNCHANGED << mode, timers, rpc, uses, left, answer, dropped, bounds >>

\* this.rpc stays what it is: nobody connects again.
ConnectFails(h) ==
    /\ mode \in Running /\ pc[h] = "connect"
    /\ failures < MaxFailures
    /\ failures' = failures + 1
    /\ link' = [link EXCEPT ![h] = "broken"]
    /\ Respond(h, "error")
    /\ UNCHANGED << mode, timers, rpc, dropped, signals, restarts >>

\* A call on a client that is not connected, or is being disconnected, throws.
Called(h) ==
    /\ mode \in Running /\ pc[h] = "call"
    /\ \/ /\ link[uses[h]] # "open" \/ mode = "disconnecting"
          /\ Respond(h, "error")
          /\ UNCHANGED << rpc, link >>
       \/ /\ link[uses[h]] = "open" /\ left[h] = 1
          /\ Respond(h, "ok")
          /\ UNCHANGED << rpc, link >>
       \/ /\ link[uses[h]] = "open" /\ left[h] > 1
          /\ left' = [left EXCEPT ![h] = @ - 1]
          /\ GetRpc(h)
          /\ UNCHANGED answer
    /\ UNCHANGED << mode, timers, dropped, bounds >>

CallFails(h) ==
    /\ mode \in Running /\ pc[h] = "call"
    /\ failures < MaxFailures
    /\ failures' = failures + 1
    /\ Respond(h, "error")
    /\ UNCHANGED << mode, timers, rpc, link, dropped, signals, restarts >>

-----------------------------------------------------------------------------
(* Shutdown.                                                               *)

\* Mutant: no timer ends a server that does not drain.
Signal_NoTimer ==
    /\ mode \in Running
    /\ signals < MaxSignals
    /\ signals' = signals + 1
    /\ mode' = IF mode = "listening" THEN "closing" ELSE mode
    /\ UNCHANGED << timers, rpc, link, handlers, dropped, failures, restarts >>

\* SIGINT or SIGTERM: the server takes no more requests.  A second signal
\* starts a second timer; its server.close ends with the first.
Signal ==
    /\ mode \in Running
    /\ signals < MaxSignals
    /\ signals' = signals + 1
    /\ mode' = IF mode = "listening" THEN "closing" ELSE mode
    /\ timers' = timers + 1
    /\ UNCHANGED << rpc, link, handlers, dropped, failures, restarts >>

\* What ends with the process: its clients, and the handlers in flight.
Exit(code) ==
    /\ mode' = code
    /\ timers' = 0
    /\ rpc' = None
    /\ link' = [h \in Requests |-> "none"]
    /\ pc' = [h \in Requests |-> IF h \in InFlight THEN "lost" ELSE pc[h]]
    /\ uses' = [h \in Requests |-> None]
    /\ UNCHANGED << left, answer, dropped, bounds >>

\* Mutant: the connection is closed when the server stops listening.
Drained_NotAwaited ==
    /\ mode = "closing"
    /\ \/ rpc = None /\ Exit("exit 0")
       \/ /\ rpc # None
          /\ mode' = "disconnecting"
          /\ UNCHANGED << timers, rpc, link, handlers, dropped, bounds >>

\* server.close calls back when every connection has ended, which a caller
\* that closes its own brings about with its handler in flight.  Then
\* facilitator.close disconnects, if there is a client.
Drained ==
    /\ mode = "closing" /\ Waiting = {}
    /\ \/ rpc = None /\ Exit("exit 0")
       \/ /\ rpc # None
          /\ mode' = "disconnecting"
          /\ UNCHANGED << timers, rpc, link, handlers, dropped, bounds >>

Disconnected == mode = "disconnecting" /\ Exit("exit 0")

\* A rejection of disconnect is not handled: Node ends the process.
DisconnectFails ==
    /\ mode = "disconnecting"
    /\ failures < MaxFailures
    /\ Exit("exit 1")

TimerFires ==
    /\ mode \in Running /\ timers > 0
    /\ Exit("exit 1")

Restart ==
    /\ mode \in Exits
    /\ restarts < MaxRestarts
    /\ restarts' = restarts + 1
    /\ mode' = "listening"
    /\ UNCHANGED << timers, rpc, link, handlers, dropped, failures, signals >>

-----------------------------------------------------------------------------

Init ==
    /\ mode = "listening"
    /\ timers = 0
    /\ rpc = None
    /\ link = [h \in Requests |-> "none"]
    /\ pc = [h \in Requests |-> "idle"]
    /\ uses = [h \in Requests |-> None]
    /\ left = [h \in Requests |-> MaxCalls]
    /\ answer = [h \in Requests |-> "none"]
    /\ dropped = {}
    /\ failures = 0
    /\ signals = 0
    /\ restarts = 0

Stop == Drained \/ Disconnected

Next ==
    \/ \E h \in Requests : Receive(h) \/ BodyRead(h) \/ CallerDrops(h)
    \/ \E h \in Requests : Connected(h) \/ ConnectFails(h)
    \/ \E h \in Requests : Called(h) \/ CallFails(h)
    \/ Signal \/ Stop \/ DisconnectFails \/ TimerFires \/ Restart

\* Calls are answered, timers fire, callbacks run.  A connect may hang for
\* ever, as the client keeps trying to reach its node, and so may a body.
Spec ==
    /\ Init /\ [][Next]_vars
    /\ \A h \in Requests : WF_vars(Called(h))
    /\ WF_vars(Stop) /\ WF_vars(TimerFires)

-----------------------------------------------------------------------------
(* Properties.                                                             *)

ProcessTypeOK ==
    /\ mode \in Running \cup Exits
    /\ timers \in 0 .. MaxSignals
    /\ rpc \in Requests \cup {None}
    /\ link \in [Requests -> {"none", "connecting", "open", "broken"}]
    /\ pc \in [Requests -> {"idle", "body", "connect", "call", "done", "lost"}]
    /\ uses \in [Requests -> Requests \cup {None}]
    /\ left \in [Requests -> 1 .. MaxCalls]
    /\ answer \in [Requests -> {"none", "ok", "error"}]
    /\ \A h \in Requests : pc[h] = "call" => uses[h] # None
    /\ dropped \subseteq Requests /\ IsFiniteSet(dropped)
    /\ Cardinality(dropped) <= MaxDrops
    /\ failures \in 0 .. MaxFailures
    /\ signals \in 0 .. MaxSignals
    /\ restarts \in 0 .. MaxRestarts

\* However many handlers ask for the connection before it is there, a process
\* opens one, and it is the one that close will close.
OneConnection ==
    \A h \in Requests : link[h] \in {"connecting", "open"} => rpc = h

\* A handler that a stop interrupts has lost its caller before, or the stop
\* reports failure: exit code 0 tells that nobody was left waiting, whatever
\* came in over a kept-alive connection during the stop (server.ts:184-190).
\* It does not tell that every settle was run to its end.
NobodyLeftWaiting ==
    [][ \A h \in Requests :
            pc[h] # "lost" /\ pc'[h] = "lost" => h \in dropped \/ mode' = "exit 1" ]_vars

\* A signal ends the process, even if a handler waits for ever for its
\* connection.
SignalEnds == mode = "closing" ~> mode \in Exits

=============================================================================
