--------------------------- MODULE ResourceServer ---------------------------
(***************************************************************************)
(* The servers that sell access, composed with the facilitator they call:  *)
(* the paywall middleware of packages/server, and the example API, which   *)
(* calls the middleware's processPayment from a handler of its own.        *)
(*                                                                         *)
(* A gated request carries a payment in a header; the server verifies it,  *)
(* then settles it, with one HTTP call each, and serves the resource.      *)
(* Each await of a server's handler is a control point.  The facilitator's *)
(* steps are its own, unchanged: of its calls, those that belong to a      *)
(* gated request arrive when its server sends them, any other at any time. *)
(***************************************************************************)
EXTENDS FacilitatorProperties

CONSTANTS
    Gated,          \* requests for a gated resource
    Servers,        \* resource servers
    Kind,           \* Kind[s]: "paywall" or "example"
    ServerOf,       \* ServerOf[g]: the server g is sent to
    VerifyCall,     \* VerifyCall[g], SettleCall[g]: the two calls to the
    SettleCall,     \*   facilitator that g's handler may make
    MaxLost         \* bound: facilitator calls that get no answer

ASSUME ServerAssumption ==
    /\ Kind \in [Servers -> {"paywall", "example"}]
    /\ ServerOf \in [Gated -> Servers]
    /\ VerifyCall \in [Gated -> Verifies]
    /\ SettleCall \in [Gated -> Settles]
    /\ \A g, f \in Gated : g # f => /\ VerifyCall[g] # VerifyCall[f]
                                    /\ SettleCall[g] # SettleCall[f]
    /\ MaxLost \in Nat

VARIABLES
    route,      \* route[s]: price and payee of the resource of s
    announced,  \* announced[s]: s knows the facilitator's signing address
    up,         \* up[s]: the process of s runs
    at,         \* at[g]: the await at which the handler of g is suspended
    header,     \* header[g]: the payment header of g
    payment,    \* payment[g]: the payment g presents, with its server's terms
    answer,     \* answer[g]: the response to g, "none" before
    lost        \* facilitator calls that got no answer so far

serverVars == << route, announced, up, at, header, payment, answer, lost >>
allVars == << vars, serverVars >>

-----------------------------------------------------------------------------
(* Headers.  http.ts and the middleware encode the payment as base64 JSON, *)
(* fetch of client.ts and the example's client send it as it is.           *)

HeaderNames == {"x-payment", "payment-signature"}

Headers == [name : HeaderNames, form : {"base64", "raw", "garbled"}]

\* The paywall looks at one header only, the example at either.
Reads(s) == IF Kind[s] = "paywall" THEN {"x-payment"} ELSE HeaderNames

\* The paywall parses base64 JSON, the example tries raw JSON next.
Parses(s) == IF Kind[s] = "paywall" THEN {"base64"} ELSE {"base64", "raw"}

-----------------------------------------------------------------------------
(* Answers.                                                                *)

Answers == {"none", "payment required", "bad header", "payment failed",
            "server error", "dropped", "served"}

Answer(g, response) ==
    /\ at' = [at EXCEPT ![g] = "done"]
    /\ answer' = [answer EXCEPT ![g] = response]

\* A request without a header the server reads is offered the terms.
Offer(g) ==
    LET s == ServerOf[g]
    IN  /\ at[g] = "idle" /\ up[s]
        /\ \/ UNCHANGED header
           \/ \E h \in Headers : /\ h.name \notin Reads(s)
                                 /\ header' = [header EXCEPT ![g] = h]
        /\ Answer(g, "payment required")
        /\ UNCHANGED << vars, route, announced, up, payment, lost >>

BadHeader(g) ==
    LET s == ServerOf[g]
    IN  /\ at[g] = "idle" /\ up[s]
        /\ \E h \in Headers : /\ h.name \in Reads(s) /\ h.form \notin Parses(s)
                              /\ header' = [header EXCEPT ![g] = h]
        /\ Answer(g, "bad header")
        /\ UNCHANGED << vars, route, announced, up, payment, lost >>

\* What a 402 of server s may have told the client.  The example learns the
\* signing address from the facilitator's /health while it already listens.
Offered(s) ==
    { [terms |-> route[s], announced |-> known] :
        known \in IF Kind[s] = "example" THEN {FALSE, announced[s]} ELSE {announced[s]} }

\* The terms come from the route's own configuration, not from the payment.
Requirements(s) == route[s]

\* A client signs for a coin and an offer, of this server or of another one.
OfferSigs(coin) ==
    { ClientSig(coin, IF offer.announced THEN SigningAddress
                      ELSE WalletAddress(offer.terms.payTo), offer.terms.amount) :
        offer \in UNION { Offered(t) : t \in Servers } }

\* Mutant: the requirements are those the payment says it accepted.
Payments_TermsOfThePayer(s) ==
    UNION { { Body(coin, coin, sig, accepted, accepted) :
                sig \in OfferSigs(coin), accepted \in Terms } : coin \in ChannelCoins }

\* The terms a payment says it accepts are not part of what is signed.
Payments(s) ==
    UNION { { Body(coin, coin, sig, accepted, Requirements(s)) :
                sig \in OfferSigs(coin), accepted \in Terms } : coin \in ChannelCoins }

\* A request whose payment can be read: the handler calls POST /verify.
Present(g) ==
    LET s == ServerOf[g]
    IN  /\ at[g] = "idle" /\ up[s]
        /\ \E h \in Headers : /\ h.name \in Reads(s) /\ h.form \in Parses(s)
                              /\ header' = [header EXCEPT ![g] = h]
        /\ \E body \in Payments(s) : payment' = [payment EXCEPT ![g] = body]
        /\ at' = [at EXCEPT ![g] = "verify"]
        /\ UNCHANGED << vars, route, announced, up, answer, lost >>

-----------------------------------------------------------------------------
(* processPayment: verify, then settle.                                    *)

\* The call to the facilitator that the handler of g is waiting for.
Call(g) == IF at[g] = "verify" THEN VerifyCall[g] ELSE SettleCall[g]

Waiting(g) == at[g] \in {"verify", "settle"}

\* The call reaches the facilitator.
Deliver(g) ==
    /\ Waiting(g)
    /\ ReceiveBody(Call(g), payment[g])
    /\ UNCHANGED serverVars

\* Mutant: the resource is served once the payment is verified, and settled
\* afterwards, as phase 5 of scheme_exact_kaspa.md has it.
Verified_ServedFirst(g) ==
    /\ at[g] = "verify"
    /\ pc[VerifyCall[g]] = "done"
    /\ IF outcome[VerifyCall[g]] = "valid"
       THEN /\ at' = [at EXCEPT ![g] = "settle"]
            /\ answer' = [answer EXCEPT ![g] = "served"]
       ELSE Answer(g, "payment failed")
    /\ UNCHANGED << vars, route, announced, up, header, payment, lost >>

Verified(g) ==
    /\ at[g] = "verify"
    /\ pc[VerifyCall[g]] = "done"
    /\ IF outcome[VerifyCall[g]] = "valid"
       THEN at' = [at EXCEPT ![g] = "settle"] /\ UNCHANGED answer
       ELSE Answer(g, "payment failed")
    /\ UNCHANGED << vars, route, announced, up, header, payment, lost >>

\* Mutant: a settle refused after a valid verify is taken for one that an
\* earlier attempt has made.
Settled_RefusalIsPaid(g) ==
    /\ at[g] = "settle"
    /\ pc[SettleCall[g]] = "done"
    /\ Answer(g, IF outcome[SettleCall[g]] \in {"success", "refused"}
                 THEN "served" ELSE "payment failed")
    /\ UNCHANGED << vars, route, announced, up, header, payment, lost >>

\* Mutant: the facilitator's own answer is passed on.
Settled_PassedOn(g) ==
    /\ at[g] = "settle"
    /\ pc[SettleCall[g]] = "done"
    /\ Answer(g, outcome[SettleCall[g]])
    /\ UNCHANGED << vars, route, announced, up, header, payment, lost >>

Settled(g) ==
    /\ at[g] = "settle"
    /\ pc[SettleCall[g]] = "done"
    /\ Answer(g, IF outcome[SettleCall[g]] = "success"
                 THEN "served" ELSE "payment failed")
    /\ UNCHANGED << vars, route, announced, up, header, payment, lost >>

-----------------------------------------------------------------------------
(* A call that gets no answer makes fetch throw.                           *)

\* The example wraps the raw-JSON path in try/catch and not the base64 path:
\* there the rejection is unhandled and ends the process.
Uncaught(g) == Kind[ServerOf[g]] = "example" /\ header[g].form = "base64"

\* The response of a handler that catches the error.
AnswerToThrow(g) ==
    IF Kind[ServerOf[g]] = "paywall" THEN "server error" ELSE "bad header"

\* Every request the process was handling ends with its connection.
Die(s) ==
    LET ended == { g \in Gated : ServerOf[g] = s /\ Waiting(g) }
    IN  /\ up' = [up EXCEPT ![s] = FALSE]
        /\ at' = [g \in Gated |-> IF g \in ended THEN "done" ELSE at[g]]
        /\ answer' = [g \in Gated |-> IF g \in ended THEN "dropped" ELSE answer[g]]

\* Mutant: the handler starts over when a call breaks.
Throw_Retried(g) ==
    /\ at' = [at EXCEPT ![g] = "verify"]
    /\ UNCHANGED << answer, up >>

Throw(g) ==
    IF Uncaught(g)
    THEN Die(ServerOf[g])
    ELSE Answer(g, AnswerToThrow(g)) /\ UNCHANGED up

\* The facilitator restarted under the call.
CallBroken(g) ==
    /\ Waiting(g)
    /\ pc[Call(g)] = "lost"
    /\ Throw(g)
    /\ UNCHANGED << vars, route, announced, header, payment, lost >>

\* The connection fails before the call arrives, while the facilitator works
\* on it, or before the answer is back; the facilitator does not notice.
CallLost(g) ==
    /\ Waiting(g)
    /\ lost < MaxLost
    /\ lost' = lost + 1
    /\ Throw(g)
    /\ UNCHANGED << vars, route, announced, header, payment >>

\* The example's start-up request to the facilitator's /health is answered.
LearnSigningAddress(s) ==
    /\ Kind[s] = "example" /\ up[s] /\ ~ announced[s]
    /\ announced' = [announced EXCEPT ![s] = TRUE]
    /\ UNCHANGED << vars, route, up, at, header, payment, answer, lost >>

-----------------------------------------------------------------------------

ServerInit ==
    /\ Init
    /\ route \in [Servers -> Terms]
    /\ announced \in { a \in [Servers -> BOOLEAN] :
                          \A s \in Servers : Kind[s] = "example" => ~ a[s] }
    /\ up = [s \in Servers |-> TRUE]
    /\ at = [g \in Gated |-> "idle"]
    /\ header = [g \in Gated |-> None]
    /\ payment = [g \in Gated |-> None]
    /\ answer = [g \in Gated |-> "none"]
    /\ lost = 0

\* Calls of the facilitator that belong to no gated request.
OtherCalls ==
    { r \in Requests : \A g \in Gated : r # VerifyCall[g] /\ r # SettleCall[g] }

FacilitatorStep ==
    /\ Progress \/ \E r \in OtherCalls : Receive(r)
    /\ UNCHANGED serverVars

HandlerStep(g) == Deliver(g) \/ Verified(g) \/ Settled(g) \/ CallBroken(g)

ServerNext ==
    \/ FacilitatorStep
    \/ \E g \in Gated : Offer(g) \/ BadHeader(g) \/ Present(g)
    \/ \E g \in Gated : HandlerStep(g) \/ CallLost(g)
    \/ \E s \in Servers : LearnSigningAddress(s)

ServerSafetySpec == ServerInit /\ [][ServerNext]_allVars

\* A call that is not lost reaches the facilitator, and the event loop
\* resumes a handler whose call is answered or broken.
ServerSpec ==
    /\ ServerSafetySpec
    /\ Fairness
    /\ \A g \in Gated : WF_allVars(HandlerStep(g))

=============================================================================
