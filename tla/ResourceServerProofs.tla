------------------------ MODULE ResourceServerProofs ------------------------
(***************************************************************************)
(* For any number of servers, requests, failures, lost calls and restarts: *)
(* whoever is served has paid, and one payment buys one response.          *)
(*                                                                         *)
(* The argument: seen from the facilitator, the servers are callers like   *)
(* any other (ServersAreCallers), so what is proved of the facilitator     *)
(* holds of it here; CallsFollow then carries it over to the responses.    *)
(***************************************************************************)
EXTENDS ResourceServerProperties, FacilitatorProofs

FacilitatorInv == TypeInv /\ SettleInv

ServerInv == FacilitatorInv /\ ServerTypeOK /\ CallsFollow

-----------------------------------------------------------------------------
(* Payments.                                                               *)

LEMMA GatedCalls ==
    ASSUME NEW g \in Gated
    PROVE  /\ ServerOf[g] \in Servers
           /\ VerifyCall[g] \in Verifies /\ SettleCall[g] \in Settles
           /\ VerifyCall[g] \in Requests /\ SettleCall[g] \in Requests
           /\ SettleCall[g] \in Handlers
           /\ \A f \in Gated : SettleCall[g] # VerifyCall[f]
           /\ \A f \in Gated : g # f => SettleCall[g] # SettleCall[f]
  BY ServerAssumption, FacilitatorAssumption DEF Requests, Handlers

\* What a client has signed stays signed: coins are never uncreated.
LEMMA PaymentBodiesGrow ==
    ASSUME chain \subseteq chain'
    PROVE  PaymentBodies \subseteq PaymentBodies'
<1>1. ChannelCoins \subseteq ChannelCoins'
  BY DEF ChannelCoins, Created, OutputsOf, Coin
<1>2. ClientSigs \subseteq ClientSigs'
  BY <1>1 DEF ClientSigs, ClientSig
<1> DEFINE BodyChoices ==
       [named : ChannelCoins, derived : ChannelCoins, sig : ClientSigs,
        accepted : Terms, required : Terms]
<1>3. BodyChoices \subseteq BodyChoices'
  BY <1>1, <1>2
<1> QED
  BY <1>3 DEF PaymentBodies, Body, OneCoin

\* What is signed for an offer is a signature of the coin's client.
LEMMA OffersAreSigned ==
    ASSUME ServerTypeOK, NEW coin \in ChannelCoins, NEW sig \in OfferSigs(coin)
    PROVE  sig \in ClientSigs /\ sig.spends = coin.outpoint
<1>1. PICK offer \in UNION { Offered(t) : t \in Servers } :
         sig = ClientSig(coin, IF offer.announced THEN SigningAddress
                               ELSE WalletAddress(offer.terms.payTo), offer.terms.amount)
  BY DEF OfferSigs
<1>2. PICK t \in Servers : offer.terms = route[t]
  <2>1. PICK t \in Servers : offer \in Offered(t)
    OBVIOUS
  <2>2. \E known : offer = [terms |-> route[t], announced |-> known]
    BY <2>1 DEF Offered
  <2> QED
    BY <2>2
<1>3. offer.terms.payTo \in Merchants /\ offer.terms.amount \in Amounts
  BY <1>2 DEF ServerTypeOK, Terms
<1> DEFINE payee == IF offer.announced THEN SigningAddress
                    ELSE WalletAddress(offer.terms.payTo)
<1>4. payee \in SettlePayees
  BY <1>3 DEF SettlePayees
<1>5. sig = ClientSig(coin, payee, offer.terms.amount)
  BY <1>1
<1> HIDE DEF payee
<1>6. sig \in ClientSigs
  BY <1>3, <1>4, <1>5 DEF ClientSigs
<1>7. sig.spends = coin.outpoint
  BY <1>5 DEF ClientSig, Sign
<1> QED
  BY <1>6, <1>7

\* A payment presented to a server is a body that its payer can put together,
\* and its requirements are the server's own.
LEMMA PaymentsAreBodies ==
    ASSUME ServerTypeOK, NEW s \in Servers, NEW body \in Payments(s)
    PROVE  body \in PaymentBodies /\ body.required = route[s]
<1>1. PICK coin \in ChannelCoins :
         \E sig \in OfferSigs(coin), accepted \in Terms :
            body = Body(coin, coin, sig, accepted, Requirements(s))
  BY DEF Payments
<1>2. PICK sig \in OfferSigs(coin), accepted \in Terms :
         body = Body(coin, coin, sig, accepted, Requirements(s))
  BY <1>1
<1>3. sig \in ClientSigs /\ OneCoin(coin, coin, sig)
  BY OffersAreSigned DEF OneCoin
<1>4. Requirements(s) \in Terms
  BY DEF Requirements, ServerTypeOK
<1> DEFINE choice == [named |-> coin, derived |-> coin, sig |-> sig,
                      accepted |-> accepted, required |-> Requirements(s)]
<1>5. /\ choice \in [named : ChannelCoins, derived : ChannelCoins, sig : ClientSigs,
                     accepted : Terms, required : Terms]
      /\ OneCoin(choice.named, choice.derived, choice.sig)
      /\ body = Body(choice.named, choice.derived, choice.sig, choice.accepted,
                     choice.required)
  BY <1>2, <1>3, <1>4
<1> HIDE DEF choice
<1>6. body \in PaymentBodies
  BY <1>5 DEF PaymentBodies
<1>7. body.required = route[s]
  BY <1>2 DEF Body, Requirements
<1> QED
  BY <1>6, <1>7

-----------------------------------------------------------------------------
(* The facilitator under the servers.                                      *)

\* Every step of the composition is a step of the facilitator or none.
LEMMA ServersAreCallers ==
    ASSUME ServerInv, [ServerNext]_allVars
    PROVE  [Next]_vars
<1>1. CASE FacilitatorStep
  BY <1>1 DEF FacilitatorStep, OtherCalls, Next
<1>2. ASSUME NEW g \in Gated, Deliver(g)
      PROVE  Next
  <2>1. payment[g] \in PaymentBodies /\ ReceiveBody(Call(g), payment[g])
    BY <1>2 DEF Deliver, ServerInv, CallsFollow
  <2>2. Call(g) \in Requests
    BY GatedCalls DEF Call
  <2> QED
    BY <2>1, <2>2 DEF Next, Receive
<1>3. ASSUME NEW g \in Gated,
             \/ Offer(g) \/ BadHeader(g) \/ Present(g) \/ Verified(g)
             \/ Settled(g) \/ CallBroken(g) \/ CallLost(g)
      PROVE  UNCHANGED vars
  BY <1>3 DEF Offer, BadHeader, Present, Verified, Settled, CallBroken, CallLost
<1>4. ASSUME NEW s \in Servers, LearnSigningAddress(s)
      PROVE  UNCHANGED vars
  BY <1>4 DEF LearnSigningAddress
<1>5. CASE UNCHANGED allVars
  BY <1>5 DEF allVars
<1> QED
  BY <1>1, <1>2, <1>3, <1>4, <1>5 DEF ServerNext, HandlerStep

\* No step of the facilitator but an arrival begins a call, and none touches a
\* call that is over.
LEMMA CallsRest ==
    ASSUME TypeInv, Progress, NEW r \in Requests,
           pc[r] \in {"idle", "done", "lost"}
    PROVE  pc'[r] = pc[r] /\ outcome'[r] = outcome[r]
<1> USE HandlerKinds
<1> DEFINE Rests == pc'[r] = pc[r] /\ outcome'[r] = outcome[r]
<1>1. ASSUME NEW h \in Handlers, NEW point, h # r, Goto(h, point), UNCHANGED outcome
      PROVE  Rests
  BY <1>1, GotoUntouched
<1>2. ASSUME NEW h \in Handlers, NEW answerOf, h # r, Respond(h, answerOf)
      PROVE  Rests
  BY <1>2, RespondUntouched DEF Untouched
<1>3. CASE NodeStep
  BY <1>3 DEF NodeStep, handlers
<1>4. CASE DaaAdvance
  BY <1>4 DEF DaaAdvance
<1>5. ASSUME NEW q \in Requests, VerifyLookup(q)
      PROVE  Rests
  <2>1. q # r
    BY <1>5 DEF VerifyLookup
  <2> QED
    BY <1>1, <1>2, <1>5, <2>1 DEF VerifyLookup
<1>6. ASSUME NEW q \in Settles, SettleStep(q)
      PROVE  Rests
  <2>1. q # r
    BY <1>6 DEF SettleStep, SettleLookup, SettleSubmit, StartConfirmation, Confirmed,
       ForwardLookup, ForwardSubmit
  <2>2. CASE SettleLookup(q)
    BY <1>1, <1>2, <2>1, <2>2 DEF SettleLookup
  <2>3. CASE SettleSubmit(q)
    BY <1>1, <1>2, <2>1, <2>3 DEF SettleSubmit
  <2>4. CASE StartConfirmation(q)
    BY <1>1, <2>1, <2>4 DEF StartConfirmation
  <2>5. CASE Confirmed(q)
    BY <1>1, <1>2, <2>1, <2>5 DEF Confirmed
  <2>6. CASE ForwardLookup(q)
    BY <1>1, <1>2, <2>1, <2>6 DEF ForwardLookup
  <2>7. CASE ForwardSubmit(q)
    BY <1>2, <2>1, <2>7 DEF ForwardSubmit
  <2> QED
    BY <1>6, <2>2, <2>3, <2>4, <2>5, <2>6, <2>7 DEF SettleStep
<1>7. ASSUME NEW s \in Sweeps, SweepCall(s) \/ SweepStep(s)
      PROVE  Rests
  <2>1. s # r
    OBVIOUS
  <2>2. CASE SweepCall(s)
    BY <1>1, <2>1, <2>2 DEF SweepCall
  <2>3. CASE SweepLookup(s)
    BY <1>1, <1>2, <2>1, <2>3 DEF SweepLookup
  <2>4. CASE SweepSubmit(s)
    BY <1>2, <2>1, <2>4 DEF SweepSubmit
  <2> QED
    BY <1>7, <2>2, <2>3, <2>4 DEF SweepStep
<1>8. ASSUME NEW h \in Handlers, RpcFails(h) \/ SubmitAnswerLost(h)
      PROVE  Rests
  <2>1. h # r
    BY <1>8 DEF RpcFails, SubmitAnswerLost, Awaits, SubmitPoints, ConfirmPoints,
       ForwardPoints, SweepPoints
  <2> QED
    BY <1>2, <1>8, <2>1 DEF RpcFails, SubmitAnswerLost
<1>9. CASE Crash
  <2>1. pc[r] \notin Awaits
    BY DEF Awaits, ConfirmPoints, ForwardPoints, SweepPoints
  <2> QED
    BY <1>9, <2>1 DEF Crash
<1> QED
  BY <1>3, <1>4, <1>5, <1>6, <1>7, <1>8, <1>9 DEF Progress

-----------------------------------------------------------------------------
(* The servers.                                                            *)

\* A request that ends leaves the others alone.
LEMMA AnswerStep ==
    ASSUME ServerTypeOK, NEW g \in Gated, NEW response \in Answers,
           Answer(g, response)
    PROVE  /\ at' \in [Gated -> {"idle", "verify", "settle", "done"}]
           /\ answer' \in [Gated -> Answers]
           /\ at'[g] = "done" /\ answer'[g] = response
           /\ \A f \in Gated : f # g => at'[f] = at[f] /\ answer'[f] = answer[f]
  BY DEF ServerTypeOK, Answer

\* Neither does a request that ends without an answer, but for those that its
\* process was handling.
LEMMA ThrowStep ==
    ASSUME ServerTypeOK, NEW g \in Gated, Waiting(g), Throw(g)
    PROVE  /\ up' \in [Servers -> BOOLEAN]
           /\ at' \in [Gated -> {"idle", "verify", "settle", "done"}]
           /\ answer' \in [Gated -> Answers]
           /\ \A f \in Gated :
                 \/ at'[f] = at[f] /\ answer'[f] = answer[f]
                 \/ Waiting(f) /\ at'[f] = "done" /\ answer'[f] # "served"
<1>1. CASE Uncaught(g)
  <2>1. Die(ServerOf[g])
    BY <1>1 DEF Throw
  <2>2. {"done", "dropped"} \subseteq {"idle", "verify", "settle", "done"} \cup Answers
    BY DEF Answers
  <2>3. up' \in [Servers -> BOOLEAN]
    BY <2>1 DEF Die, ServerTypeOK
  <2>4. at' \in [Gated -> {"idle", "verify", "settle", "done"}]
    BY <2>1 DEF Die, ServerTypeOK
  <2>5. answer' \in [Gated -> Answers]
    BY <2>1 DEF Die, ServerTypeOK, Answers
  <2>6. \A f \in Gated :
           \/ at'[f] = at[f] /\ answer'[f] = answer[f]
           \/ Waiting(f) /\ at'[f] = "done" /\ answer'[f] # "served"
    BY <2>1 DEF Die
  <2> QED
    BY <2>3, <2>4, <2>5, <2>6
<1>2. CASE ~ Uncaught(g)
  <2>1. Answer(g, AnswerToThrow(g)) /\ UNCHANGED up
    BY <1>2 DEF Throw
  <2>2. AnswerToThrow(g) \in Answers /\ AnswerToThrow(g) # "served"
    BY DEF AnswerToThrow, Answers
  <2> QED
    BY <2>1, <2>2, AnswerStep DEF ServerTypeOK
<1> QED
  BY <1>1, <1>2

\* The servers' variables keep their types.
LEMMA ServerTypeStep ==
    ASSUME ServerInv, [ServerNext]_allVars
    PROVE  ServerTypeOK'
<1> USE DEF ServerInv
<1>1. CASE UNCHANGED serverVars
  BY <1>1 DEF serverVars, ServerTypeOK
<1>2. ASSUME NEW g \in Gated, Offer(g) \/ BadHeader(g)
      PROVE  ServerTypeOK'
  <2>1. \E response \in Answers : Answer(g, response)
    BY <1>2 DEF Offer, BadHeader, Answers
  <2>2. header' \in [Gated -> Headers \cup {None}]
    BY <1>2 DEF Offer, BadHeader, ServerTypeOK
  <2>3. UNCHANGED << route, announced, up, payment, lost >>
    BY <1>2 DEF Offer, BadHeader
  <2> QED
    BY <2>1, <2>2, <2>3, AnswerStep DEF ServerTypeOK
<1>3. ASSUME NEW g \in Gated, Present(g)
      PROVE  ServerTypeOK'
  <2>1. PICK body \in Payments(ServerOf[g]) : payment' = [payment EXCEPT ![g] = body]
    BY <1>3 DEF Present
  <2>2. body \in Bodies
    BY <2>1, GatedCalls, PaymentsAreBodies, BodyTyped DEF FacilitatorInv, TypeInv, TypeOK
  <2>3. /\ header' \in [Gated -> Headers \cup {None}]
        /\ at' \in [Gated -> {"idle", "verify", "settle", "done"}]
        /\ UNCHANGED << route, announced, up, answer, lost >>
    BY <1>3 DEF Present, ServerTypeOK
  <2> QED
    BY <2>1, <2>2, <2>3 DEF ServerTypeOK
<1>4. ASSUME NEW g \in Gated, Verified(g) \/ Settled(g)
      PROVE  ServerTypeOK'
  <2>1. \/ \E response \in Answers : Answer(g, response)
        \/ at' = [at EXCEPT ![g] = "settle"] /\ UNCHANGED answer
    BY <1>4 DEF Verified, Settled, Answers
  <2>2. UNCHANGED << route, announced, up, header, payment, lost >>
    BY <1>4 DEF Verified, Settled
  <2> QED
    BY <2>1, <2>2, AnswerStep DEF ServerTypeOK
<1>5. ASSUME NEW g \in Gated, CallBroken(g) \/ CallLost(g)
      PROVE  ServerTypeOK'
  <2>1. lost' \in 0 .. MaxLost
    BY <1>5, ServerAssumption DEF CallBroken, CallLost, ServerTypeOK
  <2>2. Waiting(g) /\ Throw(g) /\ UNCHANGED << route, announced, header, payment >>
    BY <1>5 DEF CallBroken, CallLost
  <2> QED
    BY <2>1, <2>2, ThrowStep DEF ServerTypeOK
<1>6. ASSUME NEW s \in Servers, LearnSigningAddress(s)
      PROVE  ServerTypeOK'
  BY <1>6 DEF LearnSigningAddress, ServerTypeOK
<1> QED
  BY <1>1, <1>2, <1>3, <1>4, <1>5, <1>6
     DEF ServerNext, HandlerStep, FacilitatorStep, Deliver, allVars

-----------------------------------------------------------------------------
(* The calls.                                                              *)

\* An arrival begins one call with the body that arrives, or refuses it at
\* once when the terms in it differ, and leaves the other calls alone.
LEMMA CallArrives ==
    ASSUME TypeInv, NEW q \in Requests, NEW body, ReceiveBody(q, body)
    PROVE  /\ pc[q] = "idle"
           /\ \/ req'[q] = body /\ TermsMatch(body)
              \/ outcome'[q] = Refusal(q)
           /\ \A r \in Requests : r # q =>
                 /\ pc'[r] = pc[r] /\ outcome'[r] = outcome[r]
                 /\ req'[r] = req[r]
<1> USE HandlerKinds
<1>1. pc[q] = "idle"
  BY DEF ReceiveBody
<1>2. CASE TermsMatch(body)
  BY <1>1, <1>2, GotoUntouched DEF ReceiveBody, TypeInv, TypeOK
<1>3. CASE ~ TermsMatch(body)
  BY <1>1, <1>3, GotoUntouched DEF ReceiveBody, TypeInv, TypeOK
<1> QED
  BY <1>2, <1>3

\* What a step may do to the settle call of a request: begin it with the
\* request's payment, or go on with it; an answer stays.
LEMMA SettleCallStep ==
    ASSUME ServerInv, [ServerNext]_allVars, NEW g \in Gated, NEW r, r = SettleCall[g]
    PROVE  \/ /\ at[g] = "settle" /\ UNCHANGED serverVars
              /\ pc[r] = "idle"
              /\ \/ req'[r] = payment[g] /\ TermsMatch(payment[g])
                 \/ outcome'[r] = "refused"
           \/ /\ pc[r] = "idle" => pc'[r] = "idle"
              /\ pc[r] # "idle" => req'[r] = req[r]
              /\ pc[r] = "done" => outcome'[r] = outcome[r]
<1> USE HandlerKinds
<1> DEFINE Begins == /\ at[g] = "settle" /\ UNCHANGED serverVars
                     /\ pc[r] = "idle"
                     /\ \/ req'[r] = payment[g] /\ TermsMatch(payment[g])
                        \/ outcome'[r] = "refused"
           GoesOn == /\ pc[r] = "idle" => pc'[r] = "idle"
                     /\ pc[r] # "idle" => req'[r] = req[r]
                     /\ pc[r] = "done" => outcome'[r] = outcome[r]
<1>0. TypeInv /\ CallsFollow
  BY DEF ServerInv, FacilitatorInv
<1>1. /\ r \in Settles /\ r \in Requests /\ r \in Handlers
      /\ \A f \in Gated : r # VerifyCall[f]
      /\ \A f \in Gated : g # f => r # SettleCall[f]
  BY GatedCalls
<1>2. pc[r] # "idle" => req'[r] = req[r]
  <2>1. [Next]_vars
    BY ServersAreCallers
  <2>2. Advances(r)
    BY <1>0, <1>1, <2>1, StepSummary
  <2> QED
    BY <1>1, <2>2 DEF Advances
<1>3. CASE Progress
  BY <1>0, <1>1, <1>2, <1>3, CallsRest
<1>4. ASSUME NEW q \in OtherCalls, Receive(q)
      PROVE  GoesOn
  <2>1. q \in Requests /\ q # r
    BY DEF OtherCalls
  <2>2. PICK body : ReceiveBody(q, body)
    BY <1>4 DEF Receive
  <2> QED
    BY <1>0, <1>1, <1>2, <2>1, <2>2, CallArrives
<1>5. ASSUME NEW f \in Gated, Deliver(f)
      PROVE  Begins \/ GoesOn
  <2>1. /\ Waiting(f) /\ ReceiveBody(Call(f), payment[f])
        /\ Call(f) \in Requests /\ UNCHANGED serverVars
    BY <1>5, GatedCalls DEF Deliver, Call
  <2>2. CASE f = g /\ at[g] = "settle"
    <3>1. Call(f) = r
      BY <2>2 DEF Call
    <3>2. Refusal(r) = "refused"
      BY <1>1 DEF Refusal
    <3> QED
      BY <1>0, <1>1, <2>1, <2>2, <3>1, <3>2, CallArrives
  <2>3. CASE ~ (f = g /\ at[g] = "settle")
    <3>1. Call(f) # r
      BY <1>1, <2>1, <2>3 DEF Call, Waiting
    <3> QED
      BY <1>0, <1>1, <1>2, <2>1, <3>1, CallArrives
  <2> QED
    BY <2>2, <2>3
<1>6. CASE UNCHANGED vars
  BY <1>6 DEF vars, handlers
<1>7. ASSUME NEW f \in Gated,
             \/ Offer(f) \/ BadHeader(f) \/ Present(f) \/ Verified(f)
             \/ Settled(f) \/ CallBroken(f) \/ CallLost(f)
      PROVE  UNCHANGED vars
  BY <1>7 DEF Offer, BadHeader, Present, Verified, Settled, CallBroken, CallLost
<1>8. ASSUME NEW s \in Servers, LearnSigningAddress(s)
      PROVE  UNCHANGED vars
  BY <1>8 DEF LearnSigningAddress
<1> QED
  BY <1>3, <1>4, <1>5, <1>6, <1>7, <1>8
     DEF ServerNext, FacilitatorStep, HandlerStep, allVars

\* What a step may do to a request and its answer: nothing, present a
\* payment, go on to the settle call, or end; only a settle that succeeded
\* ends it with the resource.
LEMMA RequestStep ==
    ASSUME ServerInv, [ServerNext]_allVars, NEW g \in Gated
    PROVE  /\ route' = route
           /\ \/ /\ at'[g] = at[g] /\ answer'[g] = answer[g] /\ payment'[g] = payment[g]
              \/ /\ at[g] = "idle" /\ at'[g] = "verify" /\ answer'[g] = answer[g]
                 /\ payment'[g] \in Payments(ServerOf[g]) /\ UNCHANGED vars
              \/ /\ at[g] = "verify" /\ at'[g] = "settle" /\ answer'[g] = answer[g]
                 /\ payment'[g] = payment[g] /\ UNCHANGED vars
              \/ /\ at[g] # "done" /\ at'[g] = "done" /\ payment'[g] = payment[g]
                 /\ UNCHANGED vars
                 /\ answer'[g] = "served" =>
                       at[g] = "settle" /\ outcome[SettleCall[g]] = "success"
<1> DEFINE Stays == /\ at'[g] = at[g] /\ answer'[g] = answer[g]
                    /\ payment'[g] = payment[g]
           Presents == /\ at[g] = "idle" /\ at'[g] = "verify" /\ answer'[g] = answer[g]
                       /\ payment'[g] \in Payments(ServerOf[g]) /\ UNCHANGED vars
           Proceeds == /\ at[g] = "verify" /\ at'[g] = "settle" /\ answer'[g] = answer[g]
                       /\ payment'[g] = payment[g] /\ UNCHANGED vars
           Ends == /\ at[g] # "done" /\ at'[g] = "done" /\ payment'[g] = payment[g]
                   /\ UNCHANGED vars
                   /\ answer'[g] = "served" =>
                         at[g] = "settle" /\ outcome[SettleCall[g]] = "success"
           ServerMoves == route' = route /\ (Stays \/ Presents \/ Proceeds \/ Ends)
<1>0. ServerTypeOK
  BY DEF ServerInv
<1>1. CASE UNCHANGED serverVars
  BY <1>1 DEF serverVars
<1>2. ASSUME NEW f \in Gated, Offer(f) \/ BadHeader(f)
      PROVE  ServerMoves
  <2>1. PICK response \in Answers \ {"served"} : Answer(f, response)
    BY <1>2 DEF Offer, BadHeader, Answers
  <2>2. at[f] = "idle" /\ UNCHANGED << vars, route, payment >>
    BY <1>2 DEF Offer, BadHeader
  <2> QED
    BY <1>0, <2>1, <2>2, AnswerStep
<1>3. ASSUME NEW f \in Gated, Present(f)
      PROVE  ServerMoves
  BY <1>0, <1>3 DEF Present, ServerTypeOK
<1>4. ASSUME NEW f \in Gated, Verified(f)
      PROVE  ServerMoves
  <2>1. /\ at[f] = "verify" /\ UNCHANGED << vars, route, payment >>
        /\ \/ at' = [at EXCEPT ![f] = "settle"] /\ UNCHANGED answer
           \/ Answer(f, "payment failed")
    BY <1>4 DEF Verified
  <2>2. CASE at' = [at EXCEPT ![f] = "settle"] /\ UNCHANGED answer
    BY <1>0, <2>1, <2>2 DEF ServerTypeOK
  <2>3. CASE Answer(f, "payment failed")
    <3>1. "payment failed" \in Answers
      BY DEF Answers
    <3> QED
      BY <1>0, <2>1, <2>3, <3>1, AnswerStep
  <2> QED
    BY <2>1, <2>2, <2>3
<1>5. ASSUME NEW f \in Gated, Settled(f)
      PROVE  ServerMoves
  <2>1. /\ at[f] = "settle" /\ UNCHANGED << vars, route, payment >>
        /\ \E response \in Answers :
              /\ Answer(f, response)
              /\ response = "served" => outcome[SettleCall[f]] = "success"
    BY <1>5 DEF Settled, Answers
  <2> QED
    BY <1>0, <2>1, AnswerStep
<1>6. ASSUME NEW f \in Gated, CallBroken(f) \/ CallLost(f)
      PROVE  ServerMoves
  <2>1. Waiting(f) /\ Throw(f) /\ UNCHANGED << vars, route, payment >>
    BY <1>6 DEF CallBroken, CallLost
  <2> QED
    BY <1>0, <2>1, ThrowStep DEF Waiting
<1>7. ASSUME NEW s \in Servers, LearnSigningAddress(s)
      PROVE  ServerMoves
  BY <1>7 DEF LearnSigningAddress
<1> QED
  BY <1>1, <1>2, <1>3, <1>4, <1>5, <1>6, <1>7
     DEF ServerNext, HandlerStep, FacilitatorStep, Deliver, allVars

\* A step keeps each request tied to its calls.
LEMMA CallsFollowStep ==
    ASSUME ServerInv, [ServerNext]_allVars
    PROVE  CallsFollow'
<1> SUFFICES ASSUME NEW g \in Gated, NEW r, r = SettleCall[g]
             PROVE  /\ at'[g] = "idle" => answer'[g] = "none"
                    /\ Waiting(g)' => /\ payment'[g] \in PaymentBodies'
                                      /\ payment'[g].required = route'[ServerOf[g]]
                    /\ pc'[r] # "idle" =>
                          /\ at'[g] \in {"settle", "done"}
                          /\ payment'[g].required = route'[ServerOf[g]]
                          /\ \/ req'[r] = payment'[g] /\ TermsMatch(payment'[g])
                             \/ outcome'[r] = "refused"
                    /\ Served(g)' => outcome'[r] = "success" /\ at'[g] = "done"
  BY DEF CallsFollow, TermsMatch
<1>0. TypeInv /\ ServerTypeOK /\ CallsFollow
  BY DEF ServerInv, FacilitatorInv
<1>1. /\ at[g] = "idle" => answer[g] = "none"
      /\ Waiting(g) => /\ payment[g] \in PaymentBodies
                       /\ payment[g].required = route[ServerOf[g]]
      /\ pc[r] # "idle" =>
            /\ at[g] \in {"settle", "done"}
            /\ payment[g].required = route[ServerOf[g]]
            /\ \/ req[r] = payment[g] /\ TermsMatch(payment[g])
               \/ outcome[r] = "refused"
      /\ Served(g) => outcome[r] = "success" /\ at[g] = "done"
  BY <1>0 DEF CallsFollow
<1>2. PaymentBodies \subseteq PaymentBodies'
  <2>1. NodeMoves
    BY <1>0, ServersAreCallers, StepSummary
  <2> QED
    BY <2>1, PaymentBodiesGrow DEF NodeMoves
<1>3. outcome[r] # "none" => pc[r] = "done"
  BY <1>0, GatedCalls DEF TypeInv, Control
<1>4. at[g] \in {"idle", "verify", "settle", "done"} /\ answer[g] \in Answers
  BY <1>0 DEF ServerTypeOK
<1>5. CASE /\ at[g] = "settle" /\ UNCHANGED serverVars
           /\ pc[r] = "idle"
           /\ \/ req'[r] = payment[g] /\ TermsMatch(payment[g])
              \/ outcome'[r] = "refused"
  <2>1. Waiting(g) /\ ~ Served(g) /\ ~ Served(g)'
    BY <1>1, <1>5 DEF Waiting, serverVars, Served
  <2>2. payment[g] \in PaymentBodies'
    BY <1>1, <1>2, <2>1
  <2> QED
    BY <1>1, <1>5, <2>1, <2>2 DEF serverVars
<1>6. CASE /\ pc[r] = "idle" => pc'[r] = "idle"
           /\ pc[r] # "idle" => req'[r] = req[r]
           /\ pc[r] = "done" => outcome'[r] = outcome[r]
  <2>1. CASE at'[g] = at[g] /\ answer'[g] = answer[g] /\ payment'[g] = payment[g]
    <3>1. route' = route
      BY RequestStep
    <3>2. Waiting(g)' = Waiting(g) /\ Served(g)' = Served(g)
      BY <2>1 DEF Waiting, Served
    <3>3. Served(g) => outcome'[r] = "success"
      BY <1>1, <1>3, <1>6
    <3>4. outcome[r] = "refused" => outcome'[r] = "refused"
      BY <1>3, <1>6
    <3> QED
      BY <1>1, <1>2, <1>6, <2>1, <3>1, <3>2, <3>3, <3>4
  <2>2. CASE /\ at[g] = "idle" /\ at'[g] = "verify" /\ answer'[g] = answer[g]
             /\ payment'[g] \in Payments(ServerOf[g]) /\ UNCHANGED vars
    <3>1. payment'[g] \in PaymentBodies /\ payment'[g].required = route[ServerOf[g]]
      BY <1>0, <2>2, GatedCalls, PaymentsAreBodies
    <3>2. route' = route
      BY RequestStep
    <3>3. ~ Served(g)'
      BY <1>1, <2>2 DEF Served
    <3> QED
      BY <1>1, <1>2, <1>6, <2>2, <3>1, <3>2, <3>3
  <2>3. CASE /\ at[g] = "verify" /\ at'[g] = "settle" /\ answer'[g] = answer[g]
             /\ payment'[g] = payment[g] /\ UNCHANGED vars
    <3>1. route' = route
      BY RequestStep
    <3>2. Waiting(g) /\ ~ Served(g)'
      BY <1>1, <2>3 DEF Waiting, Served
    <3> QED
      BY <1>1, <1>2, <1>6, <2>3, <3>1, <3>2
  <2>4. CASE /\ at[g] # "done" /\ at'[g] = "done" /\ payment'[g] = payment[g]
             /\ UNCHANGED vars
             /\ answer'[g] = "served" => at[g] = "settle" /\ outcome[r] = "success"
    <3>1. route' = route
      BY RequestStep
    <3>2. pc[r] # "idle" => payment'[g].required = route'[ServerOf[g]]
      BY <1>1, <2>4, <3>1
    <3>3. Served(g)' => outcome'[r] = "success"
      BY <1>3, <1>6, <2>4 DEF Served
    <3>4. pc'[r] # "idle" => pc[r] # "idle" /\ outcome'[r] = outcome[r] /\ req'[r] = req[r]
      BY <2>4 DEF vars, handlers
    <3>5. ~ Waiting(g)'
      BY <2>4 DEF Waiting
    <3> QED
      BY <1>1, <2>4, <3>2, <3>3, <3>4, <3>5
  <2> QED
    BY <2>1, <2>2, <2>3, <2>4, RequestStep
<1> QED
  BY <1>5, <1>6, SettleCallStep

-----------------------------------------------------------------------------
(* The theorems.                                                           *)

LEMMA ServerInvInit == ServerInit => ServerInv
<1> SUFFICES ASSUME ServerInit PROVE ServerInv
  OBVIOUS
<1>1. TypeInv /\ SettleInv
  BY InitType, InitSettle DEF ServerInit
<1>2. ServerTypeOK
  BY ServerAssumption DEF ServerInit, ServerTypeOK, Answers
<1>3. CallsFollow
  <2> SUFFICES ASSUME NEW g \in Gated
               PROVE  /\ at[g] = "idle" /\ answer[g] = "none"
                      /\ pc[SettleCall[g]] = "idle"
    BY DEF CallsFollow, Waiting, Served
  <2> QED
    BY GatedCalls DEF ServerInit, Init
<1> QED
  BY <1>1, <1>2, <1>3 DEF ServerInv, FacilitatorInv

LEMMA ServerInvStep == ServerInv /\ [ServerNext]_allVars => ServerInv'
<1> SUFFICES ASSUME ServerInv, [ServerNext]_allVars PROVE ServerInv'
  OBVIOUS
<1>1. TypeInv /\ SettleInv /\ [Next]_vars
  BY ServersAreCallers DEF ServerInv, FacilitatorInv
<1>2. TypeInv' /\ SettleInv'
  BY <1>1, TypeStep, SettleStepInv
<1> QED
  BY <1>2, ServerTypeStep, CallsFollowStep DEF ServerInv, FacilitatorInv

LEMMA ServerInvariant == ServerSafetySpec => []ServerInv
  BY ServerInvInit, ServerInvStep, PTL DEF ServerSafetySpec

\* A served request has a settle call that answered success, with the payment
\* of the request, for the price and payee of its server.
LEMMA ServedIsSettled ==
    ASSUME ServerInv, NEW g \in Gated, Served(g), NEW r, r = SettleCall[g]
    PROVE  /\ r \in Settles /\ Succeeded(r)
           /\ req[r] = payment[g] /\ req[r] \in Bodies
           /\ req[r].required = route[ServerOf[g]]
<1>1. TypeInv /\ CallsFollow /\ r \in Settles /\ r \in Requests /\ r \in Handlers
  BY GatedCalls DEF ServerInv, FacilitatorInv
<1>2. outcome[r] = "success"
  BY <1>1 DEF CallsFollow
<1>3. pc[r] # "idle"
  BY <1>1, <1>2 DEF TypeInv, Control
<1>4. req[r] \in Bodies
  BY <1>1, <1>2 DEF ServerInv, FacilitatorInv, SettleInv, Backed, SettledAsSigned
<1> QED
  BY <1>1, <1>2, <1>3, <1>4 DEF CallsFollow, Succeeded

LEMMA ServedSpendApart == ServerInv => OneResponsePerPayment
<1> SUFFICES ASSUME ServerInv, NEW g \in Gated, NEW f \in Gated, g # f,
                    Served(g), Served(f)
             PROVE  payment[g].outpoint # payment[f].outpoint
  BY DEF OneResponsePerPayment
<1>1. OnePaymentPerSuccess
  BY SettlesSpendApart DEF ServerInv, FacilitatorInv
<1>2. SettleCall[g] # SettleCall[f]
  BY GatedCalls
<1> QED
  BY <1>1, <1>2, ServedIsSettled DEF OnePaymentPerSuccess

LEMMA ServedHasPaid == ServerInv => ServedIsPaid
<1> SUFFICES ASSUME ServerInv, NEW g \in Gated, Served(g),
                    NEW r, r = SettleCall[g]
             PROVE  \E tx \in Known : \E coin \in tx.ins :
                      /\ HasId(tx, "settle", r)
                      /\ tx.outs[1] = Pay(SigningAddress, route[ServerOf[g]].amount)
                      /\ coin.outpoint = payment[g].outpoint
                      /\ payment[g].sig = Sign(coin.address.params.client,
                                              coin.outpoint, tx.outs)
  BY DEF ServedIsPaid
<1>1. /\ r \in Settles /\ Succeeded(r) /\ req[r] \in Bodies
      /\ req[r] = payment[g] /\ req[r].required = route[ServerOf[g]]
  BY ServedIsSettled
<1>2. PICK tx \in Known :
         /\ HasId(tx, "settle", r)
         /\ Settlement(r, tx)
         /\ tx.outs[1] = Pay(SigningAddress, req[r].required.amount)
         /\ req[r].sig = Sign(req[r].params.client, req[r].outpoint, tx.outs)
  BY <1>1, SettlesPayThePrice DEF ServerInv, FacilitatorInv, SuccessPaysThePrice
<1>3. PICK coin \in Created : /\ tx.ins = {coin}
                              /\ coin.outpoint = req[r].outpoint
                              /\ coin.address = ChannelAddress(req[r].params)
  BY <1>2 DEF Settlement, SettleTx
<1>4. coin.address.params.client = req[r].params.client
  BY <1>3 DEF ChannelAddress
<1> QED
  BY <1>1, <1>2, <1>3, <1>4

\* The composition implements the facilitator's own specification, in which
\* callers are not modelled: a server does nothing to the facilitator that an
\* arbitrary caller could not do, so every safety theorem about the facilitator
\* holds of it under the servers.
THEOREM ServersImplementFacilitator == ServerSafetySpec => SafetySpec
<1>1. ServerInit => Init
  BY DEF ServerInit
<1>2. ServerInv /\ [ServerNext]_allVars => [Next]_vars
  BY ServersAreCallers
<1> QED
  BY <1>1, <1>2, ServerInvariant, PTL DEF ServerSafetySpec, SafetySpec

\* Whatever arrives, is lost, breaks or ends a process, the servers stay on
\* their control points with well-formed payments and answers.
THEOREM ServerTypesCorrect == ServerSafetySpec => []ServerTypeOK
  BY ServerInvariant, PTL DEF ServerInv

\* Each gated request is tied to its two calls of the facilitator: they carry
\* its payment under its server's terms, in order, and it is served only by a
\* settle that succeeded.
THEOREM CallsFollowCorrect == ServerSafetySpec => []CallsFollow
  BY ServerInvariant, PTL DEF ServerInv

\* One payment buys one response over all the servers of a facilitator, for
\* any number of requests, repeats, lost answers and restarts.
THEOREM OneResponseCorrect == ServerSafetySpec => []OneResponsePerPayment
  BY ServerInvariant, ServedSpendApart, PTL

\* Whoever is served has paid the price of that resource, by a transaction at
\* the node that spends the coin the payment names, under the signature in the
\* payment, which is that of the coin's own client.
THEOREM ServedIsPaidCorrect == ServerSafetySpec => []ServedIsPaid
  BY ServerInvariant, ServedHasPaid, PTL

=============================================================================
