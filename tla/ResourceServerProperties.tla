---------------------- MODULE ResourceServerProperties ----------------------
(***************************************************************************)
(* What must hold between a payment and a response when the resource       *)
(* servers, the facilitator and the node run together.                     *)
(***************************************************************************)
EXTENDS ResourceServer

-----------------------------------------------------------------------------
(* Types.                                                                  *)

ServerTypeOK ==
    /\ route \in [Servers -> Terms]
    /\ announced \in [Servers -> BOOLEAN]
    /\ up \in [Servers -> BOOLEAN]
    /\ at \in [Gated -> {"idle", "verify", "settle", "done"}]
    /\ header \in [Gated -> Headers \cup {None}]
    /\ payment \in [Gated -> Bodies \cup {None}]
    /\ answer \in [Gated -> Answers]
    /\ lost \in 0 .. MaxLost

-----------------------------------------------------------------------------
(* Safety.                                                                 *)

Served(g) == answer[g] = "served"

\* Whoever is served has paid: a settle for this request is at the node, it
\* spends the coin the payment names, under the signature the payment carries
\* and the channel's client made, and pays this route's price.  The payment's
\* accepted terms are signed by nobody, verify does not look at the signature,
\* and a payment signed for another price must not pass.  Output 0 goes to the
\* facilitator, as in facilitator.ts:271; scheme_exact_kaspa.md:137 has it pay
\* payTo, and :147 serves before the settle.
ServedIsPaid ==
    \A g \in Gated : Served(g) =>
        \E tx \in Known : \E coin \in tx.ins :
            /\ HasId(tx, "settle", SettleCall[g])
            /\ tx.outs[1] = Pay(SigningAddress, route[ServerOf[g]].amount)
            /\ coin.outpoint = payment[g].outpoint
            /\ payment[g].sig = Sign(coin.address.params.client, coin.outpoint, tx.outs)

\* One payment buys one response, over all the servers of a facilitator:
\* neither the middleware nor the facilitator remembers a payment, a payload
\* can be presented to two servers at once, again after a lost answer, and
\* again after a restart.
OneResponsePerPayment ==
    \A g, f \in Gated :
        g # f /\ Served(g) /\ Served(f) => payment[g].outpoint # payment[f].outpoint

-----------------------------------------------------------------------------
(* The invariant that ties a request to its two calls.                     *)

\* A call of a gated request carries that request's payment, for the server's
\* own price and payee whatever the payment says it accepted; the settle call
\* is made after the verify call, and a served request has a settle call that
\* succeeded.  The middleware and the example settle, then serve, where
\* scheme_exact_kaspa.md:147 and :282 serve, then settle.
CallsFollow ==
    \A g \in Gated :
        /\ at[g] = "idle" => answer[g] = "none"
        /\ Waiting(g) => /\ payment[g] \in PaymentBodies
                         /\ payment[g].required = route[ServerOf[g]]
        /\ pc[SettleCall[g]] # "idle" =>
              /\ at[g] \in {"settle", "done"}
              /\ payment[g].required = route[ServerOf[g]]
              /\ \/ req[SettleCall[g]] = payment[g] /\ TermsMatch(payment[g])
                 \/ outcome[SettleCall[g]] = "refused"
        /\ Served(g) => outcome[SettleCall[g]] = "success" /\ at[g] = "done"

-----------------------------------------------------------------------------
(* Liveness.                                                               *)

\* Every gated request is answered or loses its connection with its server,
\* whatever the facilitator does: no handler waits for ever, because every
\* call to the facilitator ends.
EveryRequestAnswered == \A g \in Gated : Waiting(g) ~> at[g] = "done"

Calm == Undisturbed /\ lost = 0

\* Once the client's money has moved for a request, the request is served,
\* unless an RPC call, the facilitator or a connection fails on the way: a
\* failed forward to the merchant, for one, is no reason to refuse.
SettledIsServed ==
    \A g \in Gated :
        (\E tx \in Known : HasId(tx, "settle", SettleCall[g])) ~> (Served(g) \/ ~ Calm)

\* What verify and settle will accept.  The timeout of the channel plays no
\* part: neither of them checks it, where scheme_exact_kaspa.md:142 and :213
\* have the facilitator do so.
PayableAt(g) ==
    /\ at[g] = "verify" /\ pc[VerifyCall[g]] = "idle"
    /\ TermsMatch(payment[g])
    /\ \E coin \in CoinsAt(ChannelAddress(payment[g].params)) :
          /\ coin.outpoint = payment[g].outpoint
          /\ Affordable(coin.amount, payment[g].required.amount)
          /\ payment[g].sig =
                Sign(payment[g].params.client, coin.outpoint,
                     FacilitatorOutputs(payment[g].params, coin.amount,
                                        payment[g].required.amount))

\* A payment that is good when its server first calls the facilitator buys a
\* response, if not for this request then for another one that presents the
\* same coin: of requests that race for a coin, one wins.
PayableCoinBuysResponse ==
    \A g \in Gated : PayableAt(g) ~>
        \/ ~ Calm
        \/ payment[g] # None /\ \E f \in Gated :
              Served(f) /\ payment[f].outpoint = payment[g].outpoint
        \/ payment[g] # None /\ \E r \in OtherCalls :
              Succeeded(r) /\ req[r].outpoint = payment[g].outpoint

=============================================================================
